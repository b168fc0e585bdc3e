--------------------------- MODULE WebNotesProofs ---------------------------
(***************************************************************************)
(* Proofs about what a browser does with a note besides its text: its      *)
(* location, its recordings, the buttons of its card, its links, its       *)
(* attachments and the library of all attachments, for any places, any     *)
(* names that a lookup can return, any files, any number of recordings,    *)
(* notes, resets, clicks, moves, pages and failures, and any order of the  *)
(* user's clicks, the other tabs' changes and the late answers.            *)
(***************************************************************************)
EXTENDS NoteLocation, VoiceNotes, MemoMutations, NoteLinks, EditorAttachments, AttachmentLibrary,
        ListLemmas, FiniteSetTheorems, TLAPS

(***************************************************************************)
(* NoteLocation.  Only the place that was looked up last has its name in   *)
(* displayName; a timer runs while the form has moved on from that place,  *)
(* and a name is still missing only while its lookup is under way.         *)
(***************************************************************************)
PlaceOrNone == Places \cup {0}

LocationTypeOK ==
    /\ position \in PlaceOrNone /\ debounced \in PlaceOrNone
    /\ lookups \subseteq Places
    /\ DOMAIN names = Places
    /\ \A p \in Places : names[p] \in NamesOf(p) \cup {NoName}
    /\ timer \in BOOLEAN /\ typedName \in BOOLEAN

LocationInv ==
    /\ LocationTypeOK
    /\ ~timer => position = debounced
    /\ displayName # NoName => debounced # 0 /\ displayName \in NamesOf(debounced)
    /\ debounced # 0 /\ displayName = NoName => debounced \in lookups
    /\ displayName # NoName /\ ~typedName => placeholder \in {displayName, NoName}

LEMMA NamesAreNames == \A p \in Places : NoName \notin NamesOf(p)
  BY DEF NamesOf, NoName

LEMMA InitLocation == LocationInit => LocationInv
  BY DEF LocationInit, LocationInv, LocationTypeOK, PlaceOrNone

\* A choice starts the timer; the rest of the form has no place in it.
LEMMA FormLocation ==
    ASSUME LocationInv,
           \/ \E p \in Places : ClickMap(p) \/ TypeCoordinate(p) \/ DeviceAnswers(p)
           \/ DeviceRefuses \/ TypeNumber \/ TypeName
           \/ OpenDialog \/ ConfirmLocation \/ CancelLocation \/ DismissDialog \/ LocationRemoved
    PROVE  LocationInv'
  <1>1. ASSUME NEW p \in Places, ClickMap(p) \/ TypeCoordinate(p) \/ DeviceAnswers(p)
        PROVE  LocationInv'
    BY <1>1 DEF ClickMap, TypeCoordinate, DeviceAnswers, PositionChange, LocationInv, LocationTypeOK, PlaceOrNone
  <1>2. CASE DeviceRefuses \/ TypeNumber \/ OpenDialog \/ ConfirmLocation \/ DismissDialog \/ LocationRemoved
    BY <1>2 DEF DeviceRefuses, TypeNumber, OpenDialog, ConfirmLocation, DismissDialog, LocationRemoved,
       LocationInv, LocationTypeOK
  <1>3. CASE TypeName
    BY <1>3 DEF TypeName, LocationInv, LocationTypeOK
  <1>4. CASE CancelLocation
    BY <1>4 DEF CancelLocation, LocationInv, LocationTypeOK, PlaceOrNone
  <1> QED
    BY <1>1, <1>2, <1>3, <1>4

\* The name of the place that the form has moved to, or the question for it.
LEMMA DebounceLocation ==
    ASSUME LocationInv, DebounceFires
    PROVE  LocationInv'
  <1>1. PICK n : n = IF position = 0 THEN NoName ELSE names[position]
    OBVIOUS
  <1>2. ShowName(n) /\ debounced' = position /\ timer' = FALSE /\ UNCHANGED <<position, names>>
        /\ lookups' = IF position # 0 /\ names[position] = NoName THEN lookups \union {position} ELSE lookups
    BY <1>1 DEF DebounceFires
  <1>3. n # NoName => position # 0 /\ n \in NamesOf(position)
    BY <1>1 DEF LocationInv, LocationTypeOK, PlaceOrNone
  <1>4. position # 0 /\ n = NoName => position \in lookups'
    BY <1>1, <1>2
  <1>5. LocationTypeOK'
    BY <1>2 DEF LocationInv, LocationTypeOK, ShowName, PlaceOrNone
  <1> QED
    BY <1>2, <1>3, <1>4, <1>5 DEF LocationInv, ShowName

\* An answer is for its place, whichever place the form shows by then.
LEMMA AnswerLocation ==
    ASSUME LocationInv, NEW p \in Places, LookupAnswers(p)
    PROVE  LocationInv'
  <1>1. PICK n \in NamesOf(p) : names' = [names EXCEPT ![p] = n] /\ ShowName(AnswerFor(p, n))
    BY DEF LookupAnswers
  <1>2. lookups' = lookups \ {p} /\ UNCHANGED <<position, debounced, timer>>
    BY DEF LookupAnswers
  <1>3. n # NoName
    BY NamesAreNames
  <1>4. LocationTypeOK'
    BY <1>1, <1>2 DEF LocationInv, LocationTypeOK, ShowName
  <1>5. CASE debounced = p
    <2>1. displayName' = n /\ n \in NamesOf(debounced') /\ debounced' = debounced /\ debounced # 0
      BY <1>1, <1>2, <1>5, LocationAssumption DEF ShowName, AnswerFor
    <2>2. ~typedName' => placeholder' \in {n, NoName}
      BY <1>1, <1>3, <1>5 DEF ShowName, AnswerFor, LocationInv
    <2> QED
      BY <1>2, <1>3, <1>4, <2>1, <2>2 DEF LocationInv
  <1>6. CASE debounced # p
    BY <1>1, <1>2, <1>4, <1>6 DEF LocationInv, ShowName, AnswerFor
  <1> QED
    BY <1>5, <1>6

(***************************************************************************)
(* Once the form has settled, the name in it is the user's own, none, or   *)
(* one of the place in it (useReverseGeocoding, LocationDialog), in any    *)
(* order of choices, cancellations and late answers.                       *)
(***************************************************************************)
THEOREM FormNamesItsPlace == LocationSpec => []NameOfPlace
  <1>1. LocationInv /\ [LocationNext]_locationVars => LocationInv'
    <2> SUFFICES ASSUME LocationInv, [LocationNext]_locationVars PROVE LocationInv'
      OBVIOUS
    <2>1. CASE UNCHANGED locationVars
      BY <2>1 DEF locationVars, LocationInv, LocationTypeOK
    <2> QED
      BY <2>1, FormLocation, DebounceLocation, AnswerLocation DEF LocationNext
  <1>2. LocationInv => NameOfPlace
    BY DEF LocationInv, LocationTypeOK, NameOfPlace
  <1> QED
    BY <1>1, <1>2, InitLocation, PTL DEF LocationSpec

(***************************************************************************)
(* VoiceNotes.  Under way is what the recorder still may answer; a request *)
(* number names one recording; and only a recording in the recorder can    *)
(* have been stopped by a reset.                                           *)
(***************************************************************************)
Stages == {"asking", "live", "stopping", "transcribing", "over"}
Mishaps == {"cut", "overtaken", "cancelled", "removed", "empty", "saving", "gone", "panel"}
Recordings == [id : Nat, can : BOOLEAN, stage : Stages, mic : BOOLEAN, stopped : BOOLEAN, mishaps : SUBSET Mishaps]
NotesHeld == [files : SUBSET Nat, texts : SUBSET Nat, typed : BOOLEAN]
NotesSent == [files : SUBSET Nat, texts : SUBSET Nat, typed : BOOLEAN, on : BOOLEAN]

VoiceTypeOK ==
    /\ recs \in Seq(Recordings)
    /\ startRequestId \in Nat /\ recorder \in {0} \cup DOMAIN recs
    /\ note \in NotesHeld /\ saving \in NotesSent /\ notes \in Seq(NotesSent)
    /\ mounted \in BOOLEAN /\ canTranscribe \in BOOLEAN

Requests ==
    /\ \A i \in DOMAIN recs : recs[i].id <= startRequestId
    /\ \A i, j \in DOMAIN recs : recs[i].id = recs[j].id => i = j

Recorded(i) ==
    /\ recs[i].stage = "asking" => ~recs[i].mic /\ ~recs[i].stopped /\ recorder # i
    /\ recs[i].stage \in {"stopping", "transcribing"} => recs[i].stopped
    /\ recorder = i => recs[i].stage = "live" \/ recs[i].stopped

(***************************************************************************)
(* Only a recording that is over is in the note, in the note on its way,   *)
(* or in one note that was saved; and it is in one of them unless it was   *)
(* lost in a way that the code has.                                        *)
(***************************************************************************)
Held(i) == i \in note.files \cup note.texts
Posted(i) == i \in saving.files \cup saving.texts
SavedIn(i, k) == i \in notes[k].files \cup notes[k].texts
Kept(i) == recs[i].mishaps \subseteq {"panel", "cut"}

Placed(i) ==
    /\ ~(i \in note.files /\ i \in note.texts)
    /\ Held(i) \/ Posted(i) => i \in DOMAIN recs /\ recs[i].stage = "over" /\ \A k \in DOMAIN notes : ~SavedIn(i, k)
    /\ \A k \in DOMAIN notes : SavedIn(i, k) => i \in DOMAIN recs /\ recs[i].stage = "over"
    /\ \A k, l \in DOMAIN notes : SavedIn(i, k) /\ SavedIn(i, l) => k = l

Found(i) ==
    mounted /\ recs[i].stage = "over" /\ Kept(i) =>
      /\ recs[i].stopped => Held(i) \/ \E k \in DOMAIN notes : SavedIn(i, k)
      /\ Locked /\ Held(i) => Posted(i)

(***************************************************************************)
(* A recording under way to which nothing happened is the latest request,  *)
(* its panel is shown and the note is not being saved.                     *)
(***************************************************************************)
Live(i) == recs[i].stage \in {"asking", "live", "stopping"} /\ recs[i].mishaps = {}

InPanel(i) ==
    /\ Live(i) =>
         /\ recs[i].id = startRequestId /\ mounted /\ panel /\ ~Locked
         /\ IF recs[i].stage = "asking" THEN status = "requesting_permission"
            ELSE status = "recording" /\ recorder = i
    /\ recs[i].mic /\ recs[i].mishaps = {} => Live(i)

VoiceInv ==
    /\ VoiceTypeOK
    /\ Requests
    /\ \A i \in Nat : Placed(i)
    /\ \A i \in DOMAIN recs : Recorded(i) /\ Found(i) /\ InPanel(i)

LEMMA FunctionIsSeq ==
    ASSUME NEW S, NEW s \in Seq(S), NEW f \in [DOMAIN s -> S]
    PROVE  f \in Seq(S) /\ DOMAIN f = DOMAIN s
  <1>1. DOMAIN s = 1 .. Len(s) /\ Len(s) \in Nat
    OBVIOUS
  <1> QED
    BY <1>1

LEMMA InitVoice == VoiceInit => VoiceInv
  <1> SUFFICES ASSUME VoiceInit PROVE VoiceInv
    OBVIOUS
  <1>1. recs = <<>> /\ notes = <<>> /\ DOMAIN recs = {} /\ DOMAIN notes = {}
    BY DEF VoiceInit
  <1>2. VoiceTypeOK
    BY <1>1 DEF VoiceInit, VoiceTypeOK, NotesHeld, NotesSent, EmptyNote, NotSaving
  <1>3. \A i \in Nat : Placed(i)
    BY <1>1 DEF VoiceInit, Placed, Held, Posted, EmptyNote, NotSaving
  <1> QED
    BY <1>1, <1>2, <1>3 DEF VoiceInv, Requests

(***************************************************************************)
(* The note: what is typed, taken, saved or not saved.                     *)
(***************************************************************************)
LEMMA TypeTextVoice ==
    ASSUME VoiceInv, TypeText
    PROVE  VoiceInv'
  <1>1. /\ note' = [note EXCEPT !.typed = TRUE]
        /\ UNCHANGED <<mounted, canTranscribe, startRequestId, status, panel, recorder, recs, saving, notes>>
    BY DEF TypeText
  <1>2. note' \in NotesHeld /\ note'.files = note.files /\ note'.texts = note.texts
    BY <1>1 DEF VoiceInv, VoiceTypeOK, NotesHeld
  <1>3. VoiceTypeOK' /\ Requests'
    BY <1>1, <1>2 DEF VoiceInv, VoiceTypeOK, Requests
  <1>4. \A i \in Nat : Placed(i)'
    BY <1>1, <1>2 DEF VoiceInv, Placed, Held, Posted, SavedIn
  <1>5. \A i \in DOMAIN recs : Recorded(i)' /\ Found(i)' /\ InPanel(i)'
    BY <1>1, <1>2 DEF VoiceInv, Recorded, Found, InPanel, Live, Kept, Held, Posted, SavedIn, Locked
  <1> QED
    BY <1>1, <1>3, <1>4, <1>5 DEF VoiceInv

LEMMA NotBusyNotLive ==
    ASSUME VoiceInv, ~Busy \/ Locked, NEW i \in DOMAIN recs
    PROVE  ~Live(i)
  BY DEF VoiceInv, InPanel, Busy, Live

LEMMA SaveNoteVoice ==
    ASSUME VoiceInv, SaveNote
    PROVE  VoiceInv'
  <1>1. /\ ~Busy /\ ~Locked
        /\ saving' = [files |-> note.files, texts |-> note.texts, typed |-> note.typed, on |-> TRUE]
        /\ UNCHANGED <<mounted, canTranscribe, startRequestId, status, panel, recorder, recs, note, notes>>
    BY DEF SaveNote, CanSave
  <1>2. saving' \in NotesSent /\ saving'.files = note.files /\ saving'.texts = note.texts /\ saving'.on
    BY <1>1 DEF VoiceInv, VoiceTypeOK, NotesHeld, NotesSent
  <1>3. VoiceTypeOK' /\ Requests'
    BY <1>1, <1>2 DEF VoiceInv, VoiceTypeOK, Requests
  <1>4. \A i \in Nat : Placed(i)'
    BY <1>1, <1>2 DEF VoiceInv, Placed, Held, Posted, SavedIn
  <1>5. \A i \in DOMAIN recs : ~Live(i)
    BY <1>1, NotBusyNotLive
  <1>6. \A i \in DOMAIN recs : Recorded(i)' /\ InPanel(i)'
    BY <1>1, <1>2, <1>5 DEF VoiceInv, Recorded, InPanel, Live
  <1>7. \A i \in DOMAIN recs : Found(i)'
    BY <1>1, <1>2 DEF VoiceInv, Found, Kept, Held, Posted, SavedIn
  <1> QED
    BY <1>1, <1>3, <1>4, <1>6, <1>7 DEF VoiceInv

LEMMA NoteNotSavedVoice ==
    ASSUME VoiceInv, NoteNotSaved
    PROVE  VoiceInv'
  <1>1. /\ Locked /\ saving' = NotSaving
        /\ UNCHANGED <<mounted, canTranscribe, startRequestId, status, panel, recorder, recs, note, notes>>
    BY DEF NoteNotSaved, Locked
  <1>2. saving' \in NotesSent /\ saving'.files = {} /\ saving'.texts = {} /\ ~saving'.on
    BY <1>1 DEF NotSaving, NotesSent
  <1>3. VoiceTypeOK' /\ Requests'
    BY <1>1, <1>2 DEF VoiceInv, VoiceTypeOK, Requests
  <1>4. \A i \in Nat : Placed(i)'
    BY <1>1, <1>2 DEF VoiceInv, Placed, Held, Posted, SavedIn
  <1>5. \A i \in DOMAIN recs : Recorded(i)' /\ InPanel(i)'
    BY <1>1, <1>2 DEF VoiceInv, Recorded, InPanel, Live, Locked
  <1>6. \A i \in DOMAIN recs : Found(i)'
    BY <1>1, <1>2 DEF VoiceInv, Found, Kept, Held, SavedIn, Locked
  <1> QED
    BY <1>1, <1>3, <1>4, <1>5, <1>6 DEF VoiceInv

\* What was taken into the note that is saved was in no note before.
LEMMA NoteSavedVoice ==
    ASSUME VoiceInv, NoteSaved
    PROVE  VoiceInv'
  <1>1. /\ Locked /\ saving' = NotSaving /\ notes' = Append(notes, saving) /\ note' = EmptyNote
        /\ UNCHANGED <<mounted, canTranscribe, startRequestId, panel, recorder, recs>>
    BY DEF NoteSaved, Locked
  <1>2. /\ saving' \in NotesSent /\ saving'.files = {} /\ saving'.texts = {} /\ ~saving'.on
        /\ note' \in NotesHeld /\ note'.files = {} /\ note'.texts = {}
    BY <1>1 DEF NotSaving, NotesSent, EmptyNote, NotesHeld
  <1>3. PICK n \in Nat : n = Len(notes)
    BY DEF VoiceInv, VoiceTypeOK
  <1>4. /\ DOMAIN notes = 1 .. n /\ DOMAIN notes' = 1 .. n + 1
        /\ \A k \in 1 .. n : notes'[k] = notes[k]
        /\ notes'[n + 1] = saving /\ notes' \in Seq(NotesSent)
    BY <1>1, <1>3 DEF VoiceInv, VoiceTypeOK
  <1>5. VoiceTypeOK' /\ Requests'
    BY <1>1, <1>2, <1>4 DEF VoiceInv, VoiceTypeOK, Requests
  <1>6. \A i \in Nat : /\ \A k \in 1 .. n : SavedIn(i, k)' <=> SavedIn(i, k)
                       /\ SavedIn(i, n + 1)' <=> Posted(i)
                       /\ ~Held(i)' /\ ~Posted(i)'
    BY <1>2, <1>4 DEF SavedIn, Posted, Held
  <1>7. ASSUME NEW i \in Nat PROVE Placed(i)'
    <2>1. Placed(i)
      BY DEF VoiceInv
    <2>2. \A k \in 1 .. n + 1 : k \in 1 .. n \/ k = n + 1
      OBVIOUS
    <2>3. \A k \in DOMAIN notes' : SavedIn(i, k)' => i \in DOMAIN recs /\ recs[i].stage = "over"
      BY <1>4, <1>6, <2>1, <2>2 DEF Placed
    <2>4. \A k, l \in DOMAIN notes' : SavedIn(i, k)' /\ SavedIn(i, l)' => k = l
      BY <1>4, <1>6, <2>1, <2>2 DEF Placed
    <2> QED
      BY <1>1, <1>2, <1>6, <2>3, <2>4 DEF Placed
  <1>8. \A i \in DOMAIN recs : ~Live(i)
    BY <1>1, NotBusyNotLive
  <1>9. \A i \in DOMAIN recs : Recorded(i)' /\ InPanel(i)'
    BY <1>1, <1>8 DEF VoiceInv, Recorded, InPanel, Live
  <1>10. ASSUME NEW i \in DOMAIN recs PROVE Found(i)'
    <2>1. i \in Nat
      BY DEF VoiceInv, VoiceTypeOK
    <2>2. Found(i) /\ Placed(i)
      BY <2>1 DEF VoiceInv
    <2> QED
      BY <1>1, <1>4, <1>6, <2>1, <2>2 DEF Found, Kept
  <1> QED
    BY <1>1, <1>5, <1>7, <1>9, <1>10 DEF VoiceInv

(***************************************************************************)
(* The recorder: each step changes some recordings, and the note of one    *)
(* that ends.                                                              *)
(***************************************************************************)
LEMMA RecordingFacts ==
    ASSUME VoiceInv, NEW i \in DOMAIN recs
    PROVE  /\ recs[i] \in Recordings /\ i \in Nat /\ i # 0 /\ Placed(i)
           /\ Recorded(i) /\ Found(i) /\ InPanel(i)
  <1>1. recs[i] \in Recordings /\ i \in Nat /\ i # 0
    BY DEF VoiceInv, VoiceTypeOK
  <1> QED
    BY <1>1 DEF VoiceInv

\* What a step does to a recording that it is not about: it may be silenced and struck.
Quieter(r, s) ==
    /\ s \in Recordings /\ s.id = r.id
    /\ s.stage = r.stage \/ (r.stage = "live" /\ s.stage = "stopping")
    /\ s.mic => r.mic
    /\ r.stopped => s.stopped
    /\ s.stopped => r.stopped \/ r.stage = "live"
    /\ s.stage = "stopping" => s.stopped
    /\ r.mishaps \subseteq s.mishaps

SameInNote(j) == (j \in note'.files <=> j \in note.files) /\ (j \in note'.texts <=> j \in note.texts)

LEMMA Bystander ==
    ASSUME VoiceInv, NEW j \in DOMAIN recs, Quieter(recs[j], recs'[j]), UNCHANGED <<saving, notes>>,
           mounted' => mounted /\ SameInNote(j), recorder' = j => recorder = j
    PROVE  /\ Recorded(j)' /\ Found(j)'
           /\ ~Live(j) \/ recs'[j].mishaps # {} => InPanel(j)'
  <1>1. /\ recs[j] \in Recordings /\ Recorded(j) /\ Found(j) /\ InPanel(j)
    BY RecordingFacts
  <1>2. Recorded(j)'
    <2>1. recs'[j].stage = "asking" => ~recs'[j].mic /\ ~recs'[j].stopped /\ recorder' # j
      BY <1>1 DEF Quieter, Recorded
    <2>2. recs'[j].stage \in {"stopping", "transcribing"} => recs'[j].stopped
      BY <1>1 DEF Quieter, Recorded
    <2>3. recorder' = j => recs'[j].stage = "live" \/ recs'[j].stopped
      BY <1>1 DEF Quieter, Recorded
    <2> QED
      BY <2>1, <2>2, <2>3 DEF Recorded
  <1>3. Found(j)'
    <2> SUFFICES ASSUME mounted', recs'[j].stage = "over", Kept(j)'
                 PROVE  /\ recs'[j].stopped => Held(j)' \/ \E k \in DOMAIN notes' : SavedIn(j, k)'
                        /\ Locked' /\ Held(j)' => Posted(j)'
      BY DEF Found
    <2>1. mounted /\ SameInNote(j) /\ recs[j].stage = "over" /\ Kept(j) /\ (recs'[j].stopped => recs[j].stopped)
      BY <1>1 DEF Quieter, Kept
    <2>2. (recs[j].stopped => Held(j) \/ \E k \in DOMAIN notes : SavedIn(j, k)) /\ (Locked /\ Held(j) => Posted(j))
      BY <1>1, <2>1 DEF Found
    <2>3. (Held(j)' <=> Held(j)) /\ (Posted(j)' <=> Posted(j)) /\ (Locked' <=> Locked)
      BY <2>1 DEF SameInNote, Held, Posted, Locked
    <2>4. \A k : SavedIn(j, k)' <=> SavedIn(j, k)
      BY DEF SavedIn
    <2> QED
      BY <2>1, <2>2, <2>3, <2>4
  <1>4. Live(j)' => Live(j) /\ recs'[j].mishaps = {}
    BY DEF Quieter, Live
  <1>5. ASSUME ~Live(j) \/ recs'[j].mishaps # {} PROVE InPanel(j)'
    <2>1. recs'[j].mic /\ recs'[j].mishaps = {} => recs[j].mic /\ recs[j].mishaps = {}
      BY DEF Quieter
    <2> QED
      BY <1>1, <1>4, <1>5, <2>1 DEF InPanel
  <1> QED
    BY <1>2, <1>3, <1>5

\* A recording that is left alone.
LEMMA SameIsQuieter ==
    ASSUME VoiceInv, NEW j \in DOMAIN recs
    PROVE  Quieter(recs[j], recs[j])
  <1>1. recs[j] \in Recordings /\ Recorded(j)
    BY RecordingFacts
  <1> QED
    BY <1>1 DEF Quieter, Recorded

LEMMA SilencedIsQuieter ==
    ASSUME VoiceInv, NEW j \in DOMAIN recs
    PROVE  /\ Quieter(recs[j], Silenced(recs)[j])
           /\ Silenced(recs)[j].mishaps = recs[j].mishaps
           /\ \A m \in Mishaps : Quieter(recs[j], Struck(Silenced(recs)[j], m)) /\ Struck(Silenced(recs)[j], m).mishaps # {}
  <1>1. recs[j] \in Recordings /\ Recorded(j)
    BY RecordingFacts
  <1>2. Silenced(recs)[j] = IF j # recorder THEN recs[j]
                            ELSE [recs[j] EXCEPT !.mic = FALSE, !.stopped = TRUE,
                                                 !.stage = IF recs[j].stage = "live" THEN "stopping" ELSE recs[j].stage]
    BY DEF Silenced
  <1>3. PICK s : s = Silenced(recs)[j]
    OBVIOUS
  <1>4. Quieter(recs[j], s) /\ s.mishaps = recs[j].mishaps
    <2>1. CASE j # recorder
      BY <1>2, <1>3, <2>1, SameIsQuieter
    <2>2. CASE j = recorder
      BY <1>1, <1>2, <1>3, <2>2, ZenonT(30) DEF Quieter, Recorded, Recordings, Stages
    <2> QED
      BY <2>1, <2>2
  <1>5. ASSUME NEW m \in Mishaps PROVE Quieter(recs[j], Struck(s, m)) /\ Struck(s, m).mishaps # {}
    <2>1. s \in Recordings
      BY <1>4 DEF Quieter
    <2>2. PICK t : t = Struck(s, m)
      OBVIOUS
    <2>3. /\ t \in Recordings /\ t.id = s.id /\ t.stage = s.stage /\ t.mic = s.mic /\ t.stopped = s.stopped
          /\ t.mishaps = s.mishaps \cup {m}
      BY <2>1, <2>2 DEF Struck, Recordings
    <2> QED
      BY <1>4, <2>2, <2>3 DEF Quieter
  <1> QED
    BY <1>3, <1>4, <1>5

LEMMA StruckIsQuieter ==
    ASSUME VoiceInv, NEW j \in DOMAIN recs, NEW m \in Mishaps, NEW s, s = Struck(Silenced(recs)[j], m)
    PROVE  Quieter(recs[j], s) /\ s.mishaps # {}
  <1>1. Quieter(recs[j], Struck(Silenced(recs)[j], m)) /\ Struck(Silenced(recs)[j], m).mishaps # {}
    BY SilencedIsQuieter
  <1> QED
    BY <1>1

\* The parts of the invariant that a step on the recordings leaves alone.
LEMMA RecsStep ==
    ASSUME VoiceInv, recs' \in [DOMAIN recs -> Recordings], \A j \in DOMAIN recs : recs'[j].id = recs[j].id,
           startRequestId' \in Nat, startRequestId' >= startRequestId, recorder' \in {0} \cup DOMAIN recs, note' \in NotesHeld,
           UNCHANGED <<saving, notes>>, mounted' \in BOOLEAN, canTranscribe' \in BOOLEAN,
           \A i \in Nat : Placed(i)', \A i \in DOMAIN recs : Recorded(i)' /\ Found(i)' /\ InPanel(i)'
    PROVE  VoiceInv'
  <1>1. recs' \in Seq(Recordings) /\ DOMAIN recs' = DOMAIN recs
    BY FunctionIsSeq DEF VoiceInv, VoiceTypeOK
  <1>2. VoiceTypeOK'
    BY <1>1 DEF VoiceInv, VoiceTypeOK
  <1>3. \A i \in DOMAIN recs : recs[i].id \in Nat
    BY RecordingFacts DEF Recordings
  <1>4. Requests'
    BY <1>1, <1>3 DEF VoiceInv, VoiceTypeOK, Requests
  <1> QED
    BY <1>1, <1>2, <1>4 DEF VoiceInv

LEMMA PlacedKept ==
    ASSUME VoiceInv, DOMAIN recs' = DOMAIN recs, \A j \in DOMAIN recs : recs[j].stage = "over" => recs'[j].stage = "over",
           UNCHANGED <<saving, notes>>, note'.files \subseteq note.files, note'.texts \subseteq note.texts
    PROVE  \A i \in Nat : Placed(i)'
  <1> SUFFICES ASSUME NEW i \in Nat PROVE Placed(i)'
    OBVIOUS
  <1>1. Placed(i)
    BY DEF VoiceInv
  <1>2. (Held(i)' => Held(i)) /\ (Posted(i)' <=> Posted(i)) /\ \A k : SavedIn(i, k)' <=> SavedIn(i, k)
    BY DEF Held, Posted, SavedIn
  <1> QED
    BY <1>1, <1>2 DEF Placed

\* A recording that ends is put into the note, in which it was not.
LEMMA PlacedAdded ==
    ASSUME VoiceInv, DOMAIN recs' = DOMAIN recs, \A j \in DOMAIN recs : recs[j].stage = "over" => recs'[j].stage = "over",
           UNCHANGED <<saving, notes>>, NEW i \in DOMAIN recs, recs[i].stage # "over", recs'[i].stage = "over",
           note' \in {note, WithFile(i), WithText(i)}
    PROVE  /\ \A j \in Nat : Placed(j)'
           /\ note' \in NotesHeld
           /\ \A j \in DOMAIN recs \ {i} : SameInNote(j)
  <1>1. /\ note' \in NotesHeld
        /\ \/ note'.files = note.files /\ note'.texts = note.texts
           \/ note'.files = note.files \cup {i} /\ note'.texts = note.texts
           \/ note'.files = note.files /\ note'.texts = note.texts \cup {i}
    <2>1. note \in NotesHeld
      BY DEF VoiceInv, VoiceTypeOK
    <2>2. i \in Nat
      BY RecordingFacts
    <2>3. CASE note' = note
      BY <2>1, <2>3
    <2>4. CASE note' = [note EXCEPT !.files = note.files \cup {i}]
      BY <2>1, <2>2, <2>4 DEF NotesHeld
    <2>5. CASE note' = [note EXCEPT !.texts = note.texts \cup {i}]
      BY <2>1, <2>2, <2>5 DEF NotesHeld
    <2> QED
      BY <2>3, <2>4, <2>5 DEF WithFile, WithText
  <1>2. \A j \in DOMAIN recs \ {i} : SameInNote(j)
    BY <1>1 DEF SameInNote
  <1>3. ASSUME NEW j \in Nat PROVE Placed(j)'
    <2>1. Placed(j)
      BY DEF VoiceInv
    <2>2. (Posted(j)' <=> Posted(j)) /\ \A k : SavedIn(j, k)' <=> SavedIn(j, k)
      BY DEF Posted, SavedIn
    <2>3. CASE j = i
      <3>1. ~Held(i) /\ ~Posted(i) /\ \A k \in DOMAIN notes : ~SavedIn(i, k)
        BY <2>1, <2>3 DEF Placed
      <3>2. ~(i \in note'.files /\ i \in note'.texts)
        BY <1>1, <3>1 DEF Held
      <3> QED
        BY <2>2, <2>3, <3>1, <3>2 DEF Placed
    <2>4. CASE j # i
      <3>1. (j \in note'.files <=> j \in note.files) /\ (j \in note'.texts <=> j \in note.texts)
        BY <1>1, <2>4
      <3>2. Held(j)' <=> Held(j)
        BY <3>1 DEF Held
      <3> QED
        BY <2>1, <2>2, <3>1, <3>2 DEF Placed
    <2> QED
      BY <2>3, <2>4
  <1> QED
    BY <1>1, <1>2, <1>3

(***************************************************************************)
(* A step about recording i, in which the others are at most silenced and  *)
(* struck.                                                                 *)
(***************************************************************************)
LEMMA OneStep ==
    ASSUME VoiceInv, NEW i \in DOMAIN recs, NEW r \in Recordings,
           recs' \in [DOMAIN recs -> Recordings], recs'[i] = r, r.id = recs[i].id,
           \A j \in DOMAIN recs \ {i} : /\ Quieter(recs[j], recs'[j])
                                        /\ ~Live(j) \/ recs'[j].mishaps # {}
                                        /\ SameInNote(j),
           UNCHANGED <<mounted, canTranscribe, saving, notes>>, recorder' \in {recorder, 0, i}, note' \in NotesHeld,
           startRequestId' = startRequestId,
           \A j \in Nat : Placed(j)', Recorded(i)', Found(i)', InPanel(i)'
    PROVE  VoiceInv'
  <1>1. \A j \in DOMAIN recs : recs'[j].id = recs[j].id
    BY DEF Quieter
  <1>2. i \in Nat
    BY RecordingFacts
  <1>3. startRequestId \in Nat /\ recorder' \in {0} \cup DOMAIN recs /\ mounted \in BOOLEAN /\ canTranscribe \in BOOLEAN
    BY <1>2 DEF VoiceInv, VoiceTypeOK
  <1>4. 0 \notin DOMAIN recs
    BY DEF VoiceInv, VoiceTypeOK
  <1>5. ASSUME NEW j \in DOMAIN recs, j # i PROVE Recorded(j)' /\ Found(j)' /\ InPanel(j)'
    BY <1>4, <1>5, Bystander
  <1>6. ASSUME NEW j \in DOMAIN recs PROVE Recorded(j)' /\ Found(j)' /\ InPanel(j)'
    BY <1>5
  <1> QED
    BY <1>1, <1>3, <1>6, RecsStep

\* Two requests have two numbers; only the latest can be in the panel.
LEMMA OnlyTheLatest ==
    ASSUME VoiceInv, NEW i \in DOMAIN recs, Granted(i), NEW j \in DOMAIN recs, j # i
    PROVE  ~Live(j)
  <1>1. Live(j) => recs[j].id = startRequestId
    BY RecordingFacts DEF InPanel
  <1> QED
    BY <1>1 DEF Granted, VoiceInv, Requests

\* A request that ends without a recording: refused, or granted too late.
LEMMA NothingRecorded ==
    ASSUME VoiceInv, NEW i \in DOMAIN recs, recs[i].stage = "asking",
           NEW rest \in [DOMAIN recs -> Recordings], rest[i] = recs[i],
           recs' = [rest EXCEPT ![i].stage = "over"],
           \A j \in DOMAIN recs \ {i} : Quieter(recs[j], rest[j]),
           \/ rest = recs /\ UNCHANGED <<recorder, status, panel>>
           \/ recorder' = 0 /\ Granted(i),
           UNCHANGED <<mounted, canTranscribe, startRequestId, note, saving, notes>>
    PROVE  VoiceInv'
  <1>1. recs[i] \in Recordings /\ Recorded(i) /\ InPanel(i)
    BY RecordingFacts
  <1>2. PICK r : r = [recs[i] EXCEPT !.stage = "over"]
    OBVIOUS
  <1>3. /\ r \in Recordings /\ r.stage = "over" /\ r.id = recs[i].id /\ r.mishaps = recs[i].mishaps
        /\ ~r.stopped /\ ~r.mic /\ recs' = [rest EXCEPT ![i] = r]
    BY <1>1, <1>2 DEF Recordings, Stages, Recorded
  <1>4. /\ recs' \in [DOMAIN recs -> Recordings] /\ recs'[i] = r
        /\ \A j \in DOMAIN recs \ {i} : recs'[j] = rest[j]
    BY <1>3
  <1>5. \A j \in DOMAIN recs : recs[j].stage = "over" => recs'[j].stage = "over"
    BY <1>3, <1>4 DEF Quieter
  <1>6. \A j \in Nat : Placed(j)'
    BY <1>4, <1>5, PlacedKept
  <1>7. \A j \in DOMAIN recs : SameInNote(j)
    BY DEF SameInNote
  <1>8. Recorded(i)' /\ Found(i)' /\ InPanel(i)'
    <2>1. recorder' # i
      <3>1. i # 0
        BY RecordingFacts
      <3>2. recorder' = recorder \/ recorder' = 0
        OBVIOUS
      <3>3. recorder # i
        BY <1>1 DEF Recorded
      <3> QED
        BY <3>1, <3>2, <3>3
    <2>2. ~Held(i) /\ ~Held(i)'
      BY RecordingFacts DEF Placed, Held
    <2> QED
      BY <1>3, <1>4, <2>1, <2>2 DEF Recorded, Found, InPanel, Live
  <1>9. note' \in NotesHeld /\ recorder' \in {recorder, 0, i}
    BY DEF VoiceInv, VoiceTypeOK
  <1>10. CASE recorder' = 0 /\ Granted(i)
    BY <1>3, <1>4, <1>6, <1>7, <1>8, <1>9, <1>10, OnlyTheLatest, OneStep
  <1>11. CASE rest = recs /\ UNCHANGED <<recorder, status, panel>>
    <2>1. ASSUME NEW j \in DOMAIN recs, j # i PROVE Recorded(j)' /\ Found(j)' /\ InPanel(j)'
      <3>1. recs'[j] = recs[j] /\ Quieter(recs[j], recs'[j])
        BY <1>4, <1>11, <2>1, SameIsQuieter
      <3>2. InPanel(j)'
        BY <1>11, <3>1, RecordingFacts DEF InPanel, Live, Locked
      <3> QED
        BY <1>7, <1>11, <3>1, <3>2, Bystander
    <2>2. \A j \in DOMAIN recs : recs'[j].id = recs[j].id
      BY <1>3, <1>4, <1>11
    <2>3. startRequestId \in Nat /\ recorder' \in {0} \cup DOMAIN recs /\ mounted \in BOOLEAN /\ canTranscribe \in BOOLEAN
      BY <1>11 DEF VoiceInv, VoiceTypeOK
    <2> QED
      BY <1>4, <1>6, <1>8, <1>9, <2>1, <2>2, <2>3, RecsStep
  <1> QED
    BY <1>10, <1>11

LEMMA TooLateVoice ==
    ASSUME VoiceInv, NEW i \in DOMAIN recs, \/ PermissionGranted(i) /\ ~Granted(i)
                                           \/ PermissionDenied(i)
    PROVE  VoiceInv'
  <1>1. /\ recs[i].stage = "asking"
        /\ UNCHANGED <<mounted, canTranscribe, startRequestId, note, saving, notes>>
    BY DEF PermissionGranted, PermissionDenied
  <1>2. \A j \in DOMAIN recs : Quieter(recs[j], recs[j]) /\ Quieter(recs[j], Silenced(recs)[j])
    BY SameIsQuieter, SilencedIsQuieter
  <1>3. recs \in [DOMAIN recs -> Recordings]
    BY DEF VoiceInv, VoiceTypeOK
  <1>4. CASE recs' = [recs EXCEPT ![i].stage = "over"] /\ UNCHANGED <<recorder, status, panel>>
    BY <1>1, <1>2, <1>3, <1>4, NothingRecorded
  <1>5. CASE Granted(i) /\ recs' = [Silenced(recs) EXCEPT ![i].stage = "over"] /\ recorder' = 0
    <2>1. PICK rest : rest = Silenced(recs)
      OBVIOUS
    <2>2. DOMAIN rest = DOMAIN recs /\ rest = [j \in DOMAIN recs |-> rest[j]]
      BY <2>1 DEF Silenced
    <2>3. rest \in [DOMAIN recs -> Recordings]
      BY <1>2, <2>1, <2>2 DEF Quieter
    <2>4. rest[i] = recs[i]
      BY <1>1, <2>1, RecordingFacts DEF Silenced, Recorded
    <2> QED
      BY <1>1, <1>2, <1>5, <2>1, <2>3, <2>4, NothingRecorded
  <1> QED
    BY <1>4, <1>5 DEF PermissionGranted, PermissionDenied

\* The microphone was given to the latest request, or is given back.
LEMMA GrantedVoice ==
    ASSUME VoiceInv, NEW i \in DOMAIN recs, PermissionGranted(i), Granted(i)
    PROVE  VoiceInv'
  <1>1. /\ recs[i].stage = "asking"
        /\ UNCHANGED <<mounted, canTranscribe, startRequestId, panel, note, saving, notes>>
        /\ recs' = [recs EXCEPT ![i].stage = "live", ![i].mic = TRUE] /\ recorder' = i
        /\ status' = IF mounted THEN "recording" ELSE status
    BY DEF PermissionGranted
  <1>2. recs[i] \in Recordings /\ Recorded(i) /\ InPanel(i)
    BY RecordingFacts
  <1>3. PICK r : r = [recs[i] EXCEPT !.stage = "live", !.mic = TRUE]
    OBVIOUS
  <1>4. /\ r \in Recordings /\ r.stage = "live" /\ r.id = recs[i].id /\ r.mishaps = recs[i].mishaps
        /\ recs' = [recs EXCEPT ![i] = r]
    BY <1>1, <1>2, <1>3 DEF Recordings, Stages
  <1>5. /\ recs' \in [DOMAIN recs -> Recordings] /\ recs'[i] = r
        /\ \A j \in DOMAIN recs \ {i} : recs'[j] = recs[j]
        /\ \A j \in DOMAIN recs : recs[j].stage = "over" => recs'[j].stage = "over"
    BY <1>1, <1>4, RecordingFacts
  <1>6. \A j \in Nat : Placed(j)'
    BY <1>1, <1>5, PlacedKept
  <1>7. \A j \in DOMAIN recs \ {i} : Quieter(recs[j], recs'[j]) /\ ~Live(j) /\ SameInNote(j)
    BY <1>1, <1>5, SameIsQuieter, OnlyTheLatest DEF SameInNote
  <1>8. Recorded(i)' /\ Found(i)'
    BY <1>1, <1>4, <1>5 DEF Recorded, Found
  <1>9. InPanel(i)'
    BY <1>1, <1>2, <1>4, <1>5 DEF InPanel, Live, Granted, Locked
  <1>10. note' \in NotesHeld
    BY <1>1 DEF VoiceInv, VoiceTypeOK
  <1> QED
    BY <1>1, <1>4, <1>5, <1>6, <1>7, <1>8, <1>9, <1>10, OneStep

\* Stopping leaves the recording in its panel until the recorder answers.
LEMMA StopVoice ==
    ASSUME VoiceInv, StopClicked \/ TranscribeClicked
    PROVE  VoiceInv'
  <1>1. /\ recorder # 0 /\ recs[recorder].stage = "live" /\ recorder' = recorder
        /\ recs' = [recs EXCEPT ![recorder].stage = "stopping", ![recorder].stopped = TRUE]
        /\ UNCHANGED <<mounted, canTranscribe, startRequestId, status, panel, note, saving, notes>>
    BY DEF StopClicked, TranscribeClicked, Stop
  <1>2. recorder \in {0} \cup DOMAIN recs
    BY DEF VoiceInv, VoiceTypeOK
  <1>3. CASE recorder \in DOMAIN recs
    <2>1. PICK i \in DOMAIN recs : i = recorder
      BY <1>3
    <2>2. recs[i] \in Recordings /\ Recorded(i) /\ InPanel(i) /\ Placed(i)
      BY RecordingFacts
    <2>3. PICK r : r = [recs[i] EXCEPT !.stage = "stopping", !.stopped = TRUE]
      OBVIOUS
    <2>4. /\ r \in Recordings /\ r.stage = "stopping" /\ r.id = recs[i].id /\ r.mishaps = recs[i].mishaps
          /\ r.stopped /\ r.mic = recs[i].mic /\ recs' = [recs EXCEPT ![i] = r]
      BY <1>1, <2>1, <2>2, <2>3 DEF Recordings, Stages
    <2>5. /\ recs' \in [DOMAIN recs -> Recordings] /\ recs'[i] = r
          /\ \A j \in DOMAIN recs \ {i} : recs'[j] = recs[j]
          /\ \A j \in DOMAIN recs : recs[j].stage = "over" => recs'[j].stage = "over"
      BY <1>1, <2>1, <2>4, RecordingFacts
    <2>6. \A j \in Nat : Placed(j)'
      BY <1>1, <2>5, PlacedKept
    <2>7. ASSUME NEW j \in DOMAIN recs, j # i PROVE Recorded(j)' /\ Found(j)' /\ InPanel(j)'
      <3>1. recs'[j] = recs[j] /\ Quieter(recs[j], recs'[j])
        BY <2>5, <2>7, SameIsQuieter
      <3>2. InPanel(j)'
        BY <1>1, <3>1, RecordingFacts DEF InPanel, Live, Locked
      <3>3. SameInNote(j)
        BY <1>1 DEF SameInNote
      <3> QED
        BY <1>1, <3>1, <3>2, <3>3, Bystander
    <2>8. Recorded(i)' /\ Found(i)'
      BY <1>1, <2>4, <2>5 DEF Recorded, Found
    <2>9. InPanel(i)'
      BY <1>1, <2>1, <2>2, <2>4, <2>5 DEF InPanel, Live, Locked
    <2>10. \A j \in DOMAIN recs : recs'[j].id = recs[j].id
      BY <2>4, <2>5
    <2>11. startRequestId \in Nat /\ note' \in NotesHeld /\ mounted \in BOOLEAN /\ canTranscribe \in BOOLEAN
      BY <1>1 DEF VoiceInv, VoiceTypeOK
    <2>12. \A j \in DOMAIN recs : Recorded(j)' /\ Found(j)' /\ InPanel(j)'
      BY <2>7, <2>8, <2>9
    <2> QED
      BY <1>1, <1>2, <2>5, <2>6, <2>10, <2>11, <2>12, RecsStep
  <1> QED
    BY <1>1, <1>2, <1>3

(***************************************************************************)
(* The steps that strike whatever is under way.                            *)
(***************************************************************************)
LEMMA StrikingStep ==
    ASSUME VoiceInv, recs' \in [DOMAIN recs -> Recordings],
           \A j \in DOMAIN recs : Quieter(recs[j], recs'[j]) /\ (~Live(j) \/ recs'[j].mishaps # {}),
           startRequestId' \in {startRequestId, startRequestId + 1}, recorder' \in {recorder, 0},
           UNCHANGED <<saving, notes>>, note' \in {note, EmptyNote}, note' = EmptyNote => ~mounted' \/ note = EmptyNote,
           mounted' \in BOOLEAN, mounted' => mounted, canTranscribe' \in BOOLEAN
    PROVE  VoiceInv'
  <1>1. note' \in NotesHeld /\ note'.files \subseteq note.files /\ note'.texts \subseteq note.texts
    <2>1. note \in NotesHeld /\ EmptyNote \in NotesHeld /\ EmptyNote.files = {} /\ EmptyNote.texts = {}
      BY DEF VoiceInv, VoiceTypeOK, EmptyNote, NotesHeld
    <2>2. CASE note' = note
      BY <2>1, <2>2
    <2>3. CASE note' = EmptyNote
      BY <2>1, <2>3
    <2> QED
      BY <2>2, <2>3
  <1>2. \A j \in DOMAIN recs : recs[j].stage = "over" => recs'[j].stage = "over"
    BY DEF Quieter
  <1>3. \A j \in Nat : Placed(j)'
    BY <1>1, <1>2, PlacedKept
  <1>4. \A j \in DOMAIN recs : mounted' => SameInNote(j)
    BY DEF SameInNote
  <1>5. ASSUME NEW j \in DOMAIN recs PROVE Recorded(j)' /\ Found(j)' /\ InPanel(j)'
    <2>1. recorder' = j => recorder = j
      BY RecordingFacts
    <2> QED
      BY <1>4, <2>1, Bystander
  <1>6. \A j \in DOMAIN recs : recs'[j].id = recs[j].id
    BY DEF Quieter
  <1>7. startRequestId' \in Nat /\ startRequestId' >= startRequestId /\ recorder' \in {0} \cup DOMAIN recs
    BY DEF VoiceInv, VoiceTypeOK
  <1> QED
    BY <1>1, <1>3, <1>5, <1>6, <1>7, RecsStep

LEMMA CutVoice ==
    ASSUME VoiceInv, AISettingArrives \/ Unmount
    PROVE  VoiceInv'
  <1>1. /\ recs' = Cut /\ recorder' = 0 /\ startRequestId' = startRequestId
        /\ UNCHANGED <<saving, notes>>
        /\ \/ UNCHANGED <<note, mounted>> /\ canTranscribe' = ~canTranscribe
           \/ note' = EmptyNote /\ mounted' = FALSE /\ canTranscribe' = canTranscribe
    BY DEF AISettingArrives, Unmount
  <1>2. ASSUME NEW j \in DOMAIN recs
        PROVE  Quieter(recs[j], recs'[j]) /\ (~Live(j) \/ recs'[j].mishaps # {})
    <2>1. recs'[j] = IF recs[j].stage \in {"asking", "live", "stopping"} THEN Struck(Silenced(recs)[j], "cut") ELSE recs[j]
      BY <1>1 DEF Cut
    <2>2. CASE recs[j].stage \in {"asking", "live", "stopping"}
      <3>1. recs'[j] = Struck(Silenced(recs)[j], "cut")
        BY <2>1, <2>2
      <3>2. "cut" \in Mishaps
        BY DEF Mishaps
      <3> QED
        BY <3>1, <3>2, StruckIsQuieter
    <2>3. CASE recs[j].stage \notin {"asking", "live", "stopping"}
      BY <2>1, <2>3, SameIsQuieter DEF Live
    <2> QED
      BY <2>2, <2>3
  <1>3. recs' \in [DOMAIN recs -> Recordings]
    <2>1. DOMAIN recs' = DOMAIN recs /\ recs' = [j \in DOMAIN recs' |-> recs'[j]]
      BY <1>1 DEF Cut
    <2>2. \A j \in DOMAIN recs : recs'[j] \in Recordings
      BY <1>2 DEF Quieter
    <2> QED
      BY <2>1, <2>2
  <1>4. mounted \in BOOLEAN /\ canTranscribe' \in BOOLEAN
    BY <1>1 DEF VoiceInv, VoiceTypeOK
  <1>5. /\ note' \in {note, EmptyNote} /\ (note' = EmptyNote => ~mounted' \/ note = EmptyNote)
        /\ mounted' \in BOOLEAN /\ (mounted' => mounted)
    <2>1. CASE note' = note /\ mounted' = mounted
      BY <1>4, <2>1
    <2>2. CASE note' = EmptyNote /\ mounted' = FALSE
      BY <2>2
    <2> QED
      BY <1>1, <2>1, <2>2
  <1> QED
    BY <1>1, <1>2, <1>3, <1>4, <1>5, StrikingStep

\* Cancelling strikes the latest request, the only one that can be in the panel.
LEMMA CancelVoice ==
    ASSUME VoiceInv, CancelClicked
    PROVE  VoiceInv'
  <1>1. /\ recorder' = 0 /\ startRequestId' = startRequestId + 1
        /\ UNCHANGED <<mounted, canTranscribe, note, saving, notes>>
        /\ recs' = [i \in DOMAIN recs |->
                      IF recs[i].id = startRequestId /\ recs[i].stage # "over"
                      THEN Struck(Silenced(recs)[i], "cancelled") ELSE recs[i]]
    BY DEF CancelClicked
  <1>2. ASSUME NEW j \in DOMAIN recs
        PROVE  Quieter(recs[j], recs'[j]) /\ (~Live(j) \/ recs'[j].mishaps # {})
    <2>0. recs'[j] = IF recs[j].id = startRequestId /\ recs[j].stage # "over"
                     THEN Struck(Silenced(recs)[j], "cancelled") ELSE recs[j]
      BY <1>1
    <2>1. CASE recs[j].id = startRequestId /\ recs[j].stage # "over"
      <3>1. recs'[j] = Struck(Silenced(recs)[j], "cancelled")
        BY <2>0, <2>1
      <3>2. "cancelled" \in Mishaps
        BY DEF Mishaps
      <3> QED
        BY <3>1, <3>2, StruckIsQuieter
    <2>2. CASE ~(recs[j].id = startRequestId /\ recs[j].stage # "over")
      <3>1. recs'[j] = recs[j]
        BY <2>0, <2>2
      <3>2. ~Live(j)
        BY <2>2, RecordingFacts DEF InPanel, Live
      <3> QED
        BY <3>1, <3>2, SameIsQuieter
    <2> QED
      BY <2>1, <2>2
  <1>3. recs' \in [DOMAIN recs -> Recordings]
    <2>1. DOMAIN recs' = DOMAIN recs /\ recs' = [j \in DOMAIN recs' |-> recs'[j]]
      BY <1>1
    <2>2. \A j \in DOMAIN recs : recs'[j] \in Recordings
      BY <1>2 DEF Quieter
    <2> QED
      BY <2>1, <2>2
  <1>4. mounted \in BOOLEAN /\ canTranscribe \in BOOLEAN
    BY DEF VoiceInv, VoiceTypeOK
  <1> QED
    BY <1>1, <1>2, <1>3, <1>4, StrikingStep

(***************************************************************************)
(* The end of a recording.                                                 *)
(***************************************************************************)
LEMMA QuietPanel ==
    ASSUME VoiceInv, NEW j \in DOMAIN recs, Quieter(recs[j], recs'[j]), ~Live(j) \/ recs'[j].mishaps # {}
    PROVE  InPanel(j)'
  <1>1. InPanel(j)
    BY RecordingFacts
  <1>2. ~Live(j)'
    BY DEF Quieter, Live
  <1>3. recs'[j].mic /\ recs'[j].mishaps = {} => recs[j].mic /\ recs[j].mishaps = {}
    BY DEF Quieter
  <1> QED
    BY <1>1, <1>2, <1>3 DEF InPanel

LEMMA QuietRecorded ==
    ASSUME VoiceInv, NEW j \in DOMAIN recs, Quieter(recs[j], recs'[j]), recorder' = j => recorder = j
    PROVE  Recorded(j)'
  <1>1. recs[j] \in Recordings /\ Recorded(j)
    BY RecordingFacts
  <1>2. recs'[j].stage = "asking" => ~recs'[j].mic /\ ~recs'[j].stopped /\ recorder' # j
    BY <1>1 DEF Quieter, Recorded
  <1>3. recs'[j].stage \in {"stopping", "transcribing"} => recs'[j].stopped
    BY <1>1 DEF Quieter, Recorded
  <1>4. recorder' = j => recs'[j].stage = "live" \/ recs'[j].stopped
    BY <1>1 DEF Quieter, Recorded
  <1> QED
    BY <1>2, <1>3, <1>4 DEF Recorded

\* A recording that ends is in the note, unless it was lost on the way.
LEMMA EndedStep ==
    ASSUME VoiceInv, NEW i \in DOMAIN recs, recs[i].stage # "over",
           NEW r \in Recordings, recs' \in [DOMAIN recs -> Recordings], recs'[i] = r,
           r.id = recs[i].id, r.stage = "over", r.stopped, r.mic => r.mishaps # {},
           \A j \in DOMAIN recs \ {i} : Quieter(recs[j], recs'[j]) /\ InPanel(j)',
           note' \in {note, WithFile(i), WithText(i)},
           mounted /\ r.mishaps \subseteq {"panel", "cut"} => ~Locked /\ note' \in {WithFile(i), WithText(i)},
           recorder' \in {0, recorder},
           UNCHANGED <<mounted, canTranscribe, startRequestId, saving, notes>>
    PROVE  VoiceInv'
  <1>1. \A j \in DOMAIN recs : recs[j].stage = "over" => recs'[j].stage = "over"
    BY DEF Quieter
  <1>2. /\ \A j \in Nat : Placed(j)'
        /\ note' \in NotesHeld
        /\ \A j \in DOMAIN recs \ {i} : SameInNote(j)
    BY <1>1, PlacedAdded
  <1>3. ASSUME NEW j \in DOMAIN recs, j # i PROVE Recorded(j)' /\ Found(j)' /\ InPanel(j)'
    <2>1. recorder' = j => recorder = j
      BY RecordingFacts
    <2> QED
      BY <1>2, <1>3, <2>1, Bystander
  <1>4. Recorded(i)' /\ InPanel(i)'
    BY DEF Recorded, InPanel, Live
  <1>5. Found(i)'
    <2> SUFFICES ASSUME mounted', Kept(i)'
                 PROVE  Held(i)' /\ ~Locked'
      BY DEF Found
    <2>1. mounted /\ r.mishaps \subseteq {"panel", "cut"}
      BY DEF Kept
    <2>2. note' \in {WithFile(i), WithText(i)} /\ ~Locked'
      BY <2>1 DEF Locked
    <2>3. note \in NotesHeld
      BY DEF VoiceInv, VoiceTypeOK
    <2>4. CASE note' = [note EXCEPT !.files = note.files \cup {i}]
      BY <2>2, <2>3, <2>4 DEF NotesHeld, Held
    <2>5. CASE note' = [note EXCEPT !.texts = note.texts \cup {i}]
      BY <2>2, <2>3, <2>5 DEF NotesHeld, Held
    <2> QED
      BY <2>1, <2>2, <2>4, <2>5 DEF WithFile, WithText
  <1>6. \A j \in DOMAIN recs : recs'[j].id = recs[j].id
    BY DEF Quieter
  <1>7. /\ startRequestId' \in Nat /\ startRequestId' >= startRequestId /\ recorder' \in {0} \cup DOMAIN recs
        /\ mounted' \in BOOLEAN /\ canTranscribe' \in BOOLEAN
    BY DEF VoiceInv, VoiceTypeOK
  <1>8. \A j \in DOMAIN recs : Recorded(j)' /\ Found(j)' /\ InPanel(j)'
    BY <1>3, <1>4, <1>5
  <1> QED
    BY <1>2, <1>6, <1>7, <1>8, RecsStep

\* The recorder's stop event, of a request that is not the latest.
LEMMA OvertakenVoice ==
    ASSUME VoiceInv, NEW i \in DOMAIN recs, StopEvent(i), ~Granted(i)
    PROVE  VoiceInv'
  <1>1. /\ recs[i].stage = "stopping"
        /\ recs' = [recs EXCEPT ![i] = [Struck(recs[i], "overtaken") EXCEPT !.stage = "over"]]
        /\ note' = note /\ recorder' = recorder
        /\ UNCHANGED <<mounted, canTranscribe, startRequestId, saving, notes, status, panel>>
    BY DEF StopEvent
  <1>2. recs[i] \in Recordings /\ Recorded(i)
    BY RecordingFacts
  <1>3. PICK r : r = [Struck(recs[i], "overtaken") EXCEPT !.stage = "over"]
    OBVIOUS
  <1>4. /\ r \in Recordings /\ r.stage = "over" /\ r.id = recs[i].id /\ r.mishaps = recs[i].mishaps \cup {"overtaken"}
        /\ r.stopped
    BY <1>1, <1>2, <1>3 DEF Struck, Recordings, Stages, Mishaps, Recorded
  <1>5. /\ recs' \in [DOMAIN recs -> Recordings] /\ recs'[i] = r
        /\ \A j \in DOMAIN recs \ {i} : recs'[j] = recs[j]
    BY <1>1, <1>3, <1>4, RecordingFacts
  <1>6. ASSUME NEW j \in DOMAIN recs \ {i} PROVE Quieter(recs[j], recs'[j]) /\ InPanel(j)'
    <2>1. recs'[j] = recs[j] /\ Quieter(recs[j], recs'[j])
      BY <1>5, SameIsQuieter
    <2> QED
      BY <1>1, <2>1, RecordingFacts DEF InPanel, Live, Locked
  <1>7. ~(r.mishaps \subseteq {"panel", "cut"}) /\ r.mishaps # {}
    BY <1>4
  <1> QED
    BY <1>1, <1>4, <1>5, <1>6, <1>7, EndedStep

LEMMA LateFacts ==
    ASSUME NEW r \in Recordings
    PROVE  /\ Late(r) \in Recordings
           /\ Late(r).id = r.id /\ Late(r).stage = r.stage /\ Late(r).mic = r.mic /\ Late(r).stopped = r.stopped
           /\ r.mishaps \subseteq Late(r).mishaps
           /\ Late(r).mishaps \subseteq {"panel", "cut"} => mounted /\ ~Locked
  <1>1. CASE ~mounted
    <2>1. PICK s : s = [r EXCEPT !.mishaps = r.mishaps \cup {"gone"}]
      OBVIOUS
    <2>2. /\ s \in Recordings /\ s.id = r.id /\ s.stage = r.stage /\ s.mic = r.mic /\ s.stopped = r.stopped
          /\ s.mishaps = r.mishaps \cup {"gone"}
      BY <2>1 DEF Recordings, Mishaps
    <2>3. Late(r) = s
      BY <1>1, <2>1 DEF Late, Struck
    <2> QED
      BY <2>2, <2>3
  <1>2. CASE mounted /\ Locked
    <2>1. PICK s : s = [r EXCEPT !.mishaps = r.mishaps \cup {"saving"}]
      OBVIOUS
    <2>2. /\ s \in Recordings /\ s.id = r.id /\ s.stage = r.stage /\ s.mic = r.mic /\ s.stopped = r.stopped
          /\ s.mishaps = r.mishaps \cup {"saving"}
      BY <2>1 DEF Recordings, Mishaps
    <2>3. Late(r) = s
      BY <1>2, <2>1 DEF Late, Struck
    <2> QED
      BY <2>2, <2>3
  <1>3. CASE mounted /\ ~Locked
    BY <1>3 DEF Late
  <1> QED
    BY <1>1, <1>2, <1>3

\* The recorder's stop event of the latest request: every other one is out of the panel.
LEMMA CompletedVoice ==
    ASSUME VoiceInv, NEW i \in DOMAIN recs, StopEvent(i), Granted(i)
    PROVE  VoiceInv'
  <1>1. /\ recs[i].stage = "stopping" /\ recorder' = 0
        /\ UNCHANGED <<mounted, canTranscribe, startRequestId, saving, notes>>
    BY DEF StopEvent
  <1>2. PICK empty \in BOOLEAN : Completed(i, empty)
    BY DEF StopEvent
  <1>3. recs[i] \in Recordings /\ recs[i].stopped /\ Recorded(i)
    BY <1>1, RecordingFacts DEF Recorded
  <1>4. PICK rest : rest = Silenced(recs)
    OBVIOUS
  <1>5. \A j \in DOMAIN recs : Quieter(recs[j], rest[j])
    BY <1>4, SilencedIsQuieter
  <1>6. rest \in [DOMAIN recs -> Recordings]
    <2>1. DOMAIN rest = DOMAIN recs /\ rest = [j \in DOMAIN recs |-> rest[j]]
      BY <1>4 DEF Silenced
    <2> QED
      BY <1>5, <2>1 DEF Quieter
  <1>7. \A j \in DOMAIN recs \ {i} : ~Live(j)
    BY OnlyTheLatest
  <1>8. CASE mode = "transcribe" /\ ~empty /\ recs[i].can
    <2>1. PICK r : r = [recs[i] EXCEPT !.stage = "transcribing", !.mic = FALSE]
      OBVIOUS
    <2>2. /\ r \in Recordings /\ r.stage = "transcribing" /\ r.id = recs[i].id /\ r.mishaps = recs[i].mishaps
          /\ r.stopped /\ ~r.mic
      BY <1>3, <2>1 DEF Recordings, Stages
    <2>3. recs' = [rest EXCEPT ![i] = r] /\ note' = note
      BY <1>2, <1>4, <1>8, <2>1 DEF Completed
    <2>4. /\ recs' \in [DOMAIN recs -> Recordings] /\ recs'[i] = r
          /\ \A j \in DOMAIN recs \ {i} : recs'[j] = rest[j]
      BY <1>6, <2>2, <2>3
    <2>5. \A j \in DOMAIN recs : recs[j].stage = "over" => recs'[j].stage = "over"
      BY <1>1, <1>5, <2>4 DEF Quieter
    <2>6. \A j \in Nat : Placed(j)'
      BY <1>1, <2>3, <2>4, <2>5, PlacedKept
    <2>7. \A j \in DOMAIN recs \ {i} : Quieter(recs[j], recs'[j]) /\ ~Live(j) /\ SameInNote(j)
      BY <1>5, <1>7, <2>3, <2>4 DEF SameInNote
    <2>8. i # 0
      BY RecordingFacts
    <2>9. Recorded(i)' /\ Found(i)' /\ InPanel(i)'
      BY <1>1, <2>2, <2>4, <2>8 DEF Recorded, Found, InPanel, Live
    <2>10. note' \in NotesHeld
      BY <2>3 DEF VoiceInv, VoiceTypeOK
    <2> QED
      BY <1>1, <2>2, <2>4, <2>6, <2>7, <2>9, <2>10, OneStep
  <1>9. CASE ~(mode = "transcribe" /\ ~empty /\ recs[i].can)
    <2>1. PICK over : over = IF empty THEN Struck(recs[i], "empty") ELSE Late(recs[i])
      OBVIOUS
    <2>2. /\ over \in Recordings /\ over.id = recs[i].id /\ over.stopped
          /\ over.mishaps \subseteq {"panel", "cut"} => ~empty /\ mounted /\ ~Locked
      <3>1. CASE empty
        <4>1. over = [recs[i] EXCEPT !.mishaps = recs[i].mishaps \cup {"empty"}]
          BY <2>1, <3>1 DEF Struck
        <4> QED
          BY <1>3, <3>1, <4>1 DEF Recordings, Mishaps
      <3>2. CASE ~empty
        BY <1>3, <2>1, <3>2, LateFacts
      <3> QED
        BY <3>1, <3>2
    <2>3. PICK r : r = [over EXCEPT !.stage = "over", !.mic = FALSE]
      OBVIOUS
    <2>4. /\ r \in Recordings /\ r.stage = "over" /\ r.id = recs[i].id /\ r.mishaps = over.mishaps
          /\ r.stopped /\ ~r.mic
      BY <2>2, <2>3 DEF Recordings, Stages
    <2>5. recs' = [rest EXCEPT ![i] = r] /\ note' = IF empty THEN note ELSE WithFile(i)
      BY <1>2, <1>4, <1>9, <2>1, <2>3 DEF Completed
    <2>6. /\ recs' \in [DOMAIN recs -> Recordings] /\ recs'[i] = r
          /\ \A j \in DOMAIN recs \ {i} : recs'[j] = rest[j]
      BY <1>6, <2>4, <2>5
    <2>7. ASSUME NEW j \in DOMAIN recs \ {i} PROVE Quieter(recs[j], recs'[j]) /\ InPanel(j)'
      BY <1>5, <1>7, <2>6, QuietPanel
    <2>8. note' \in {note, WithFile(i), WithText(i)} /\ (~empty => note' \in {WithFile(i), WithText(i)})
      BY <2>5
    <2> QED
      BY <1>1, <2>2, <2>4, <2>6, <2>7, <2>8, EndedStep
  <1> QED
    BY <1>8, <1>9

LEMMA StruckAlone ==
    ASSUME VoiceInv, NEW j \in DOMAIN recs, NEW m \in Mishaps, NEW s, s = Struck(recs[j], m)
    PROVE  Quieter(recs[j], s) /\ m \in s.mishaps /\ s.stage = recs[j].stage
  <1>1. recs[j] \in Recordings /\ Recorded(j)
    BY RecordingFacts
  <1>2. /\ s \in Recordings /\ s.id = recs[j].id /\ s.stage = recs[j].stage /\ s.mic = recs[j].mic
        /\ s.stopped = recs[j].stopped /\ s.mishaps = recs[j].mishaps \cup {m}
    BY <1>1 DEF Struck, Recordings
  <1> QED
    BY <1>1, <1>2 DEF Quieter, Recorded

\* The end of a transcription closes the panel of any other recording.
LEMMA TranscriptionVoice ==
    ASSUME VoiceInv, NEW i \in DOMAIN recs, TranscriptionEnds(i)
    PROVE  VoiceInv'
  <1>1. /\ recs[i].stage = "transcribing" /\ recorder' = recorder
        /\ UNCHANGED <<mounted, canTranscribe, startRequestId, saving, notes>>
        /\ note' \in {WithFile(i), WithText(i)}
    BY DEF TranscriptionEnds, NoteAfter
  <1>2. \A j \in DOMAIN recs : recs'[j] =
          CASE j = i -> [Late(recs[i]) EXCEPT !.stage = "over"]
            [] j # i /\ recs[j].stage \in {"asking", "live", "stopping"} -> Struck(recs[j], "panel")
            [] OTHER -> recs[j]
    BY DEF TranscriptionEnds
  <1>3. DOMAIN recs' = DOMAIN recs /\ recs' = [j \in DOMAIN recs |-> recs'[j]]
    BY DEF TranscriptionEnds
  <1>4. recs[i] \in Recordings /\ Recorded(i) /\ InPanel(i)
    BY RecordingFacts
  <1>5. PICK late : late = Late(recs[i])
    OBVIOUS
  <1>6. /\ late \in Recordings /\ late.id = recs[i].id /\ late.mic = recs[i].mic /\ late.stopped = recs[i].stopped
        /\ recs[i].mishaps \subseteq late.mishaps
        /\ late.mishaps \subseteq {"panel", "cut"} => mounted /\ ~Locked
    BY <1>4, <1>5, LateFacts
  <1>7. PICK r : r = [late EXCEPT !.stage = "over"]
    OBVIOUS
  <1>8. /\ r \in Recordings /\ r.stage = "over" /\ r.id = recs[i].id /\ r.mic = recs[i].mic
        /\ r.stopped = recs[i].stopped /\ r.mishaps = late.mishaps
    BY <1>6, <1>7 DEF Recordings, Stages
  <1>9. r.stopped /\ (r.mic => r.mishaps # {})
    BY <1>1, <1>4, <1>6, <1>8 DEF Recorded, InPanel, Live
  <1>10. recs'[i] = r
    BY <1>2, <1>5, <1>7
  <1>11. ASSUME NEW j \in DOMAIN recs \ {i} PROVE Quieter(recs[j], recs'[j]) /\ InPanel(j)'
    <2>1. CASE recs[j].stage \in {"asking", "live", "stopping"}
      <3>1. recs'[j] = Struck(recs[j], "panel")
        BY <1>2, <2>1
      <3>2. Quieter(recs[j], recs'[j]) /\ recs'[j].mishaps # {}
        BY <3>1, StruckAlone DEF Mishaps
      <3> QED
        BY <3>2, QuietPanel
    <2>2. CASE recs[j].stage \notin {"asking", "live", "stopping"}
      <3>1. recs'[j] = recs[j]
        BY <1>2, <2>2
      <3>2. Quieter(recs[j], recs'[j]) /\ ~Live(j)
        BY <2>2, <3>1, SameIsQuieter DEF Live
      <3> QED
        BY <3>2, QuietPanel
    <2> QED
      BY <2>1, <2>2
  <1>12. recs' \in [DOMAIN recs -> Recordings]
    <2>1. \A j \in DOMAIN recs : recs'[j] \in Recordings
      BY <1>8, <1>10, <1>11 DEF Quieter
    <2> QED
      BY <1>3, <2>1
  <1> QED
    BY <1>1, <1>6, <1>8, <1>9, <1>10, <1>11, <1>12, EndedStep

\* A file that is taken out of the note again.
LEMMA RemoveFileVoice ==
    ASSUME VoiceInv, NEW i \in note.files, RemoveFile(i)
    PROVE  VoiceInv'
  <1>1. /\ note' = [note EXCEPT !.files = note.files \ {i}]
        /\ recs' = [recs EXCEPT ![i] = Struck(recs[i], "removed")]
        /\ UNCHANGED <<mounted, canTranscribe, startRequestId, status, panel, recorder, saving, notes>>
    BY DEF RemoveFile
  <1>2. note \in NotesHeld
    BY DEF VoiceInv, VoiceTypeOK
  <1>3. note' \in NotesHeld /\ note'.files = note.files \ {i} /\ note'.texts = note.texts
    BY <1>1, <1>2 DEF NotesHeld
  <1>4. i \in DOMAIN recs /\ recs[i].stage = "over"
    <2>1. i \in Nat /\ Held(i)
      BY <1>2 DEF NotesHeld, Held
    <2> QED
      BY <2>1 DEF VoiceInv, Placed
  <1>5. PICK s : s = Struck(recs[i], "removed")
    OBVIOUS
  <1>6. Quieter(recs[i], s) /\ "removed" \in s.mishaps /\ s.stage = "over"
    BY <1>4, <1>5, StruckAlone DEF Mishaps
  <1>7. recs \in [DOMAIN recs -> Recordings] /\ s \in Recordings
    BY <1>6 DEF VoiceInv, VoiceTypeOK, Quieter
  <1>8. /\ recs' \in [DOMAIN recs -> Recordings] /\ recs'[i] = s
        /\ \A j \in DOMAIN recs \ {i} : recs'[j] = recs[j]
    BY <1>1, <1>4, <1>5, <1>7
  <1>9. \A j \in DOMAIN recs : Quieter(recs[j], recs'[j])
    BY <1>6, <1>8, SameIsQuieter
  <1>10. \A j \in DOMAIN recs : recs[j].stage = "over" => recs'[j].stage = "over"
    BY <1>9 DEF Quieter
  <1>11. \A j \in Nat : Placed(j)'
    BY <1>1, <1>3, <1>8, <1>10, PlacedKept
  <1>12. Recorded(i)' /\ Found(i)' /\ InPanel(i)'
    <2>1. Recorded(i)'
      BY <1>1, <1>4, <1>9, QuietRecorded
    <2>2. InPanel(i)'
      BY <1>4, <1>6, <1>8, QuietPanel
    <2>3. ~(s.mishaps \subseteq {"panel", "cut"})
      BY <1>6
    <2>4. Found(i)'
      BY <1>8, <2>3 DEF Found, Kept
    <2> QED
      BY <2>1, <2>2, <2>4
  <1>13. ASSUME NEW j \in DOMAIN recs, j # i PROVE Recorded(j)' /\ Found(j)' /\ InPanel(j)'
    <2>1. SameInNote(j)
      BY <1>3, <1>13 DEF SameInNote
    <2>2. InPanel(j)'
      BY <1>1, <1>8, <1>13, RecordingFacts DEF InPanel, Live, Locked
    <2> QED
      BY <1>1, <1>9, <1>13, <2>1, <2>2, Bystander
  <1>14. \A j \in DOMAIN recs : recs'[j].id = recs[j].id
    BY <1>9 DEF Quieter
  <1>15. /\ startRequestId' \in Nat /\ startRequestId' >= startRequestId /\ recorder' \in {0} \cup DOMAIN recs
         /\ mounted' \in BOOLEAN /\ canTranscribe' \in BOOLEAN
    BY <1>1 DEF VoiceInv, VoiceTypeOK
  <1>16. \A j \in DOMAIN recs : Recorded(j)' /\ Found(j)' /\ InPanel(j)'
    BY <1>12, <1>13
  <1> QED
    BY <1>1, <1>3, <1>8, <1>11, <1>14, <1>15, <1>16, RecsStep

\* A request is made when nothing is under way in the panel, and has a number of its own.
LEMMA StartVoice ==
    ASSUME VoiceInv, StartRecording
    PROVE  VoiceInv'
  <1>1. /\ mounted /\ ~Locked /\ ~Busy /\ startRequestId' = startRequestId + 1
        /\ UNCHANGED <<mounted, canTranscribe, recorder, note, saving, notes>>
    BY DEF StartRecording
  <1>2. \A j \in DOMAIN recs : ~Live(j)
    BY <1>1, NotBusyNotLive
  <1>3. startRequestId \in Nat
    BY DEF VoiceInv, VoiceTypeOK
  <1>4. CASE recs' = recs
    <2>1. \A j \in DOMAIN recs : Quieter(recs[j], recs'[j])
      BY <1>4, SameIsQuieter
    <2>2. recs' \in [DOMAIN recs -> Recordings]
      BY <1>4 DEF VoiceInv, VoiceTypeOK
    <2>3. mounted \in BOOLEAN /\ canTranscribe \in BOOLEAN
      BY DEF VoiceInv, VoiceTypeOK
    <2>4. note' = EmptyNote => note = EmptyNote
      BY <1>1
    <2> QED
      BY <1>1, <1>2, <2>1, <2>2, <2>3, <2>4, StrikingStep
  <1>5. CASE /\ recs' = Append(recs, Recording(startRequestId + 1, canTranscribe))
             /\ status' = "requesting_permission" /\ panel' = TRUE
    <2>1. PICK n \in Nat : n = Len(recs)
      BY DEF VoiceInv, VoiceTypeOK
    <2>2. PICK r : r = Recording(startRequestId + 1, canTranscribe)
      OBVIOUS
    <2>3. canTranscribe \in BOOLEAN
      BY DEF VoiceInv, VoiceTypeOK
    <2>4. /\ r \in Recordings /\ r.id = startRequestId + 1 /\ r.stage = "asking" /\ ~r.mic /\ ~r.stopped
          /\ r.mishaps = {}
      BY <1>3, <2>2, <2>3 DEF Recording, Recordings, Stages
    <2>5. /\ DOMAIN recs = 1 .. n /\ DOMAIN recs' = 1 .. n + 1
          /\ \A j \in 1 .. n : recs'[j] = recs[j]
          /\ recs'[n + 1] = r /\ recs' \in Seq(Recordings)
      BY <1>5, <2>1, <2>2, <2>4 DEF VoiceInv, VoiceTypeOK
    <2>6. VoiceTypeOK'
      <3>1. recorder \in {0} \cup 1 .. n
        BY <2>5 DEF VoiceInv, VoiceTypeOK
      <3>2. recorder' \in {0} \cup DOMAIN recs'
        BY <1>1, <2>5, <3>1
      <3> QED
        BY <1>1, <1>3, <2>5, <3>2 DEF VoiceInv, VoiceTypeOK
    <2>7. \A j \in 1 .. n : recs[j].id \in Nat /\ recs[j].id <= startRequestId
      BY <2>5, RecordingFacts DEF VoiceInv, Requests, Recordings
    <2>8. \A j \in 1 .. n + 1 : j \in 1 .. n \/ j = n + 1
      OBVIOUS
    <2>9. Requests'
      <3>1. \A j \in 1 .. n + 1 : recs'[j].id <= startRequestId'
        BY <1>1, <1>3, <2>4, <2>5, <2>7, <2>8
      <3>2. \A j \in 1 .. n : recs'[j].id # recs'[n + 1].id
        BY <1>3, <2>4, <2>5, <2>7
      <3>3. \A i, j \in 1 .. n : recs[i].id = recs[j].id => i = j
        BY <2>5 DEF VoiceInv, Requests
      <3>4. \A i, j \in 1 .. n + 1 : recs'[i].id = recs'[j].id => i = j
        BY <2>5, <2>8, <3>2, <3>3
      <3> QED
        BY <2>5, <3>1, <3>4 DEF Requests
    <2>10. ASSUME NEW j \in Nat PROVE Placed(j)'
      <3>1. Placed(j)
        BY DEF VoiceInv
      <3>2. (Held(j)' <=> Held(j)) /\ (Posted(j)' <=> Posted(j)) /\ \A k : SavedIn(j, k)' <=> SavedIn(j, k)
        BY <1>1 DEF Held, Posted, SavedIn
      <3>3. j \in DOMAIN recs /\ recs[j].stage = "over" => j \in DOMAIN recs' /\ recs'[j].stage = "over"
        BY <2>5
      <3> QED
        BY <1>1, <3>1, <3>2, <3>3 DEF Placed
    <2>11. ASSUME NEW j \in 1 .. n PROVE Recorded(j)' /\ Found(j)' /\ InPanel(j)'
      <3>1. j \in DOMAIN recs /\ recs'[j] = recs[j] /\ Quieter(recs[j], recs'[j]) /\ ~Live(j)
        BY <1>2, <2>5, SameIsQuieter
      <3>2. SameInNote(j)
        BY <1>1 DEF SameInNote
      <3> QED
        BY <1>1, <3>1, <3>2, Bystander
    <2>12. recorder # n + 1
      BY <2>5 DEF VoiceInv, VoiceTypeOK
    <2>13. Recorded(n + 1)' /\ Found(n + 1)' /\ InPanel(n + 1)'
      BY <1>1, <1>5, <2>4, <2>5, <2>12 DEF Recorded, Found, InPanel, Live, Locked
    <2>14. \A j \in DOMAIN recs' : Recorded(j)' /\ Found(j)' /\ InPanel(j)'
      BY <2>5, <2>8, <2>11, <2>13
    <2> QED
      BY <2>6, <2>9, <2>10, <2>14 DEF VoiceInv
  <1> QED
    BY <1>4, <1>5 DEF StartRecording

LEMMA StutterVoice ==
    ASSUME VoiceInv, UNCHANGED voiceVars
    PROVE  VoiceInv'
  <1>1. UNCHANGED <<mounted, canTranscribe, startRequestId, status, panel, recorder, recs, note, saving, notes>>
    BY DEF voiceVars
  <1>2. VoiceTypeOK' /\ Requests'
    BY <1>1 DEF VoiceInv, VoiceTypeOK, Requests
  <1>3. \A i \in Nat : Placed(i)'
    BY <1>1 DEF VoiceInv, Placed, Held, Posted, SavedIn
  <1>4. \A i \in DOMAIN recs : Recorded(i)' /\ Found(i)' /\ InPanel(i)'
    BY <1>1 DEF VoiceInv, Recorded, Found, InPanel, Live, Kept, Held, Posted, SavedIn, Locked
  <1> QED
    BY <1>1, <1>2, <1>3, <1>4 DEF VoiceInv

LEMMA NextVoice ==
    ASSUME VoiceInv, [VoiceNext]_voiceVars
    PROVE  VoiceInv'
  <1>1. ASSUME NEW i \in UnderWay, PermissionGranted(i) \/ PermissionDenied(i) \/ StopEvent(i) \/ TranscriptionEnds(i)
        PROVE  VoiceInv'
    <2>1. i \in DOMAIN recs
      BY DEF UnderWay
    <2> QED
      BY <1>1, <2>1, TooLateVoice, GrantedVoice, OvertakenVoice, CompletedVoice, TranscriptionVoice
  <1> QED
    BY <1>1, StartVoice, StopVoice, CancelVoice, CutVoice, TypeTextVoice, RemoveFileVoice, SaveNoteVoice, NoteSavedVoice,
       NoteNotSavedVoice, StutterVoice DEF VoiceNext

\* What the invariant says of the number of copies.
LEMMA CopiesCounted ==
    ASSUME VoiceInv, NEW i \in DOMAIN recs
    PROVE  /\ Copies(i) <= 1
           /\ Held(i) \/ (\E k \in DOMAIN notes : SavedIn(i, k)) => Copies(i) = 1
  <1> DEFINE S == {k \in DOMAIN notes : i \in notes[k].files \union notes[k].texts}
  <1>1. Placed(i)
    BY RecordingFacts
  <1>2. PICK n : n = Cardinality(S)
    OBVIOUS
  <1>3. Copies(i) = n + (IF i \in note.files THEN 1 ELSE 0) + (IF i \in note.texts THEN 1 ELSE 0)
    BY <1>2 DEF Copies
  <1>4. CASE \E k \in DOMAIN notes : SavedIn(i, k)
    <2>1. PICK k \in DOMAIN notes : SavedIn(i, k)
      BY <1>4
    <2>2. S = {k}
      BY <1>1, <2>1 DEF Placed, SavedIn
    <2>3. n = 1
      BY <1>2, <2>2, FS_Singleton
    <2>4. ~Held(i)
      BY <1>1, <2>1 DEF Placed
    <2> QED
      BY <1>3, <2>3, <2>4 DEF Held
  <1>5. CASE ~\E k \in DOMAIN notes : SavedIn(i, k)
    <2>1. S = {}
      BY <1>5 DEF SavedIn
    <2>2. n = 0
      BY <1>2, <2>1, FS_EmptySet
    <2>3. ~(i \in note.files /\ i \in note.texts)
      BY <1>1 DEF Placed
    <2> QED
      BY <1>3, <1>5, <2>2, <2>3 DEF Held
  <1> QED
    BY <1>4, <1>5

\* Every recording that is ended, transcribed or reset is in the note or in one
\* note saved from it, once, and the microphone is on only for the recording
\* whose panel is shown (useAudioRecorder.ts, MemoEditor/index.tsx), for any
\* numbers of requests, notes and changes of the setting.
THEOREM VoiceNotesArrive == VoiceSpec => []RecordingsEndInNote
  <1>1. VoiceInv => RecordingsEndInNote
    <2> SUFFICES ASSUME VoiceInv, NEW i \in DOMAIN recs
                 PROVE  /\ Copies(i) <= 1
                        /\ recs[i].stage = "over" /\ recs[i].stopped /\ recs[i].mishaps \subseteq {"panel", "cut"}
                             => Copies(i) = 1 \/ ~mounted
                        /\ recs[i].mic /\ recs[i].mishaps = {} => recorder = i /\ PanelShown
      BY DEF RecordingsEndInNote, FinishedRecordingKept, MicrophoneHasPanel
    <2>1. Recorded(i) /\ Found(i) /\ InPanel(i)
      BY RecordingFacts
    <2>2. ASSUME recs[i].stage = "over", recs[i].stopped, recs[i].mishaps \subseteq {"panel", "cut"}, mounted
          PROVE  Copies(i) = 1
      <3>1. Held(i) \/ \E k \in DOMAIN notes : SavedIn(i, k)
        BY <2>1, <2>2 DEF Found, Kept
      <3> QED
        BY <3>1, CopiesCounted
    <2>3. ASSUME recs[i].mic, recs[i].mishaps = {}
          PROVE  recorder = i /\ PanelShown
      BY <2>1, <2>3 DEF InPanel, Live, Recorded, PanelShown, Busy
    <2> QED
      BY <2>2, <2>3, CopiesCounted
  <1> QED
    BY <1>1, InitVoice, NextVoice, PTL DEF VoiceSpec
-----------------------------------------------------------------------------
(***************************************************************************)
(* MemoMutations.  A cached query that is neither being fetched nor waits  *)
(* to be fetched when it is shown has what the server would answer, or     *)
(* what the rollback of the only click under way makes into that.          *)
(***************************************************************************)
MemoRows == [Fields -> BOOLEAN]
Patches == UNION {[D -> BOOLEAN] : D \in SUBSET Fields}
PatchOrNone == Patches \union {None}
StoredMemo == MemoRows \union {None}
ShownMemo == StoredMemo \union {Unloaded}
Fetches == [stage : {"idle", "stale", "sent", "served"}, answer : StoredMemo]
Mutations ==
  [kind : {"update", "delete"}, patch : PatchOrNone, prev : ShownMemo, cut : BOOLEAN, from : Queries,
   other : BOOLEAN, stage : {"sent", "ok", "rejected", "done"}, tries : {1, 2}, result : StoredMemo,
   overlapped : BOOLEAN, refreshed : BOOLEAN, disturbed : BOOLEAN]
Reactions == [stage : {"none", "upsert", "delete", "get", "set"}, answer : StoredMemo]

Updates == {i \in Pending : muts[i].kind = "update"}

CardTypeOK ==
    /\ row \in StoredMemo
    /\ page \in Queries
    /\ data \in [Queries -> ShownMemo]
    /\ query \in [Queries -> Fetches]
    /\ muts \in Seq(Mutations)
    /\ \A i \in Updates : muts[i].patch \in Patches
    /\ reaction \in Reactions
    /\ events \in Seq({"update", "delete"})
    /\ behind \in BOOLEAN

\* What is shown without being fetched: the page, or a query that would be.
Settled(q) == query[q].stage = "idle" \/ (q = page /\ query[q].stage = "stale")
Unseen(q) == q # page /\ data[q] = Unloaded
Right(q) == data[q] = Answer(q) \/ Unseen(q)
\* The rollback to the stored memo makes it right.
Revertible(q) ==
    q \in Lists => \/ Unseen(q)
                   \/ data[q] \in MemoRows /\ Answer(q) # None
                   \/ data[q] = None /\ Answer(q) = None

Deletion ==
    row # None => /\ events \in Seq({"update"})
                  /\ \A i \in Pending : muts[i].kind = "delete" => muts[i].stage # "ok"

Overlap == \A i, j \in Pending : i # j => muts[i].overlapped

Fresh ==
    ~behind /\ row # None /\ events = <<>> =>
      /\ \A q \in Queries : query[q].stage = "served" => query[q].answer = Answer(q)
      /\ Updates = {} => \A q \in Queries : Settled(q) => Right(q)
      /\ \A i \in Updates : ~RollbackBehind(muts[i]) =>
           \A q \in Queries : Settled(q) => muts[i].prev = row /\ Revertible(q)

Steady ==
    \A i \in Updates : ~muts[i].overlapped /\ ~muts[i].disturbed =>
      /\ \A q \in Queries : query[q].stage \notin {"sent", "served"}
      /\ Has(data[page]) => \A f \in DOMAIN muts[i].patch : data[page][f] = muts[i].patch[f]

CardInv == CardTypeOK /\ Deletion /\ Overlap /\ Fresh /\ Steady

-----------------------------------------------------------------------------
\* What a copy of the memo is.
LEMMA MemoIsThere ==
    /\ None # Unloaded
    /\ \A m \in MemoRows : m # None /\ m # Unloaded /\ Has(m) /\ DOMAIN m = Fields
    /\ \A d \in ShownMemo : Has(d) <=> d \in MemoRows
  <1>1. DOMAIN None = {} /\ DOMAIN Unloaded = {"unloaded"}
    BY DEF None, Unloaded
  <1>2. ASSUME NEW m \in MemoRows
        PROVE  DOMAIN m = Fields /\ m # None /\ m # Unloaded
    BY <1>1 DEF MemoRows, Fields
  <1> QED
    BY <1>1, <1>2 DEF Has, ShownMemo, StoredMemo

LEMMA PatchIsBoolean ==
    /\ \A p \in Patches : DOMAIN p \subseteq Fields /\ \A f \in DOMAIN p : p[f] \in BOOLEAN
    /\ MemoRows \subseteq Patches
  BY DEF Patches, MemoRows

\* A patch is found in what it patched; a whole memo replaces it.
LEMMA PatchedFacts ==
    ASSUME NEW d \in ShownMemo, NEW p \in Patches
    PROVE  /\ Patched(d, p) \in ShownMemo
           /\ ~Has(d) => Patched(d, p) = d
           /\ Has(d) => Patched(d, p) \in MemoRows /\ \A f \in DOMAIN p : Patched(d, p)[f] = p[f]
           /\ Has(d) /\ p \in MemoRows => Patched(d, p) = p
  <1>1. CASE ~Has(d)
    BY <1>1 DEF Patched
  <1>2. CASE Has(d)
    <2>1. d \in MemoRows
      BY <1>2, MemoIsThere
    <2>2. Patched(d, p) = [f \in Fields |-> IF f \in DOMAIN p THEN p[f] ELSE d[f]]
      BY <1>2, <2>1, MemoIsThere DEF Patched
    <2>3. \A f \in Fields : (IF f \in DOMAIN p THEN p[f] ELSE d[f]) \in BOOLEAN
      BY <2>1, PatchIsBoolean DEF MemoRows
    <2>4. Patched(d, p) \in MemoRows
      BY <2>2, <2>3 DEF MemoRows
    <2>5. \A f \in DOMAIN p : Patched(d, p)[f] = p[f]
      BY <2>2, PatchIsBoolean
    <2>6. p \in MemoRows => Patched(d, p) = p
      <3> SUFFICES ASSUME p \in MemoRows
                   PROVE  Patched(d, p) = p
        OBVIOUS
      <3>1. DOMAIN p = Fields /\ p = [f \in Fields |-> p[f]]
        BY DEF MemoRows
      <3> QED
        BY <2>2, <3>1
    <2> QED
      BY <1>2, <2>4, <2>5, <2>6 DEF ShownMemo, StoredMemo
  <1> QED
    BY <1>1, <1>2

LEMMA AnswerFacts ==
    ASSUME row \in StoredMemo, NEW q \in Queries
    PROVE  /\ Answer(q) \in StoredMemo
           /\ Answer(q) # None => Answer(q) = row
           /\ q = "detail" => Answer(q) = row
  BY DEF Answer, Queries, StoredMemo

-----------------------------------------------------------------------------
\* A mutation, by its position.
Mutation(i) == muts[i] \in Mutations /\ (i \in Updates => muts[i].patch \in Patches)

LEMMA MutationFacts ==
    ASSUME CardTypeOK
    PROVE  /\ DOMAIN muts = 1..Len(muts) /\ Len(muts) \in Nat
           /\ \A i \in DOMAIN muts : Mutation(i)
  BY DEF CardTypeOK, Mutation

\* The clicks under way are the same, and nothing that has happened to one is forgotten.
Tracked(i) ==
    /\ muts'[i].kind = muts[i].kind /\ muts'[i].patch = muts[i].patch /\ muts'[i].prev = muts[i].prev
    /\ muts'[i].cut = muts[i].cut /\ muts'[i].other = muts[i].other
    /\ muts[i].overlapped => muts'[i].overlapped
    /\ muts[i].refreshed => muts'[i].refreshed
    /\ muts[i].disturbed => muts'[i].disturbed


LEMMA ListOfLength ==
    ASSUME NEW S, NEW n \in Nat, NEW f \in [1..n -> S]
    PROVE  f \in Seq(S) /\ Len(f) = n
  OBVIOUS

LEMMA MarkedFacts ==
    ASSUME CardTypeOK, NEW flag \in {"refreshed", "disturbed"}, NEW i \in DOMAIN muts
    PROVE  /\ Marked(flag)[i] \in Mutations
           /\ i \notin Pending => Marked(flag)[i] = muts[i]
           /\ i \in Pending => Marked(flag)[i] = [muts[i] EXCEPT ![flag] = TRUE]
  <1>1. muts[i] \in Mutations
    BY MutationFacts DEF Mutation
  <1>2. [muts[i] EXCEPT !["refreshed"] = TRUE] \in Mutations /\ [muts[i] EXCEPT !["disturbed"] = TRUE] \in Mutations
    BY <1>1 DEF Mutations
  <1> QED
    BY <1>1, <1>2 DEF Marked

\* The history of the clicks under way is extended.
LEMMA MarkMutations ==
    ASSUME CardTypeOK, NEW flag \in {"refreshed", "disturbed"}, muts' = Marked(flag)
    PROVE  /\ muts' \in Seq(Mutations) /\ DOMAIN muts' = DOMAIN muts
           /\ Pending' = Pending /\ Updates' = Updates
           /\ \A i \in Pending : Tracked(i) /\ muts'[i].stage = muts[i].stage
                                   /\ (IF flag = "refreshed" THEN muts'[i].refreshed ELSE muts'[i].disturbed)
  <1>1. \A i \in DOMAIN muts : Marked(flag)[i] \in Mutations
    BY MarkedFacts
  <1>2. muts' = [i \in DOMAIN muts |-> Marked(flag)[i]]
    BY DEF Marked
  <1>3. muts' \in Seq(Mutations) /\ DOMAIN muts' = DOMAIN muts
    BY <1>1, <1>2, MutationFacts
  <1>4. ASSUME NEW i \in DOMAIN muts, i \notin Pending
        PROVE  muts'[i] = muts[i]
    BY <1>2, <1>4, MarkedFacts
  <1>5. ASSUME NEW i \in Pending
        PROVE  Tracked(i) /\ muts'[i].stage = muts[i].stage
                 /\ (IF flag = "refreshed" THEN muts'[i].refreshed ELSE muts'[i].disturbed)
    <2>1. i \in DOMAIN muts /\ muts[i] \in Mutations
      BY MutationFacts DEF Pending, Mutation
    <2>2. muts'[i] = [muts[i] EXCEPT ![flag] = TRUE]
      BY <1>2, <2>1, MarkedFacts
    <2> QED
      BY <2>1, <2>2 DEF Tracked, Mutations
  <1>6. Pending' = Pending
    BY <1>3, <1>4, <1>5 DEF Pending
  <1>7. Updates' = Updates
    BY <1>5, <1>6 DEF Updates, Tracked
  <1> QED
    BY <1>3, <1>5, <1>6, <1>7

\* A request is sent, served or lost.
LEMMA MoveMutation ==
    ASSUME CardTypeOK, NEW i \in Pending, NEW m \in Mutations, muts' = [muts EXCEPT ![i] = m],
           m.stage # "done", m.kind = muts[i].kind, m.patch = muts[i].patch, m.prev = muts[i].prev,
           m.cut = muts[i].cut, m.other = muts[i].other, m.overlapped = muts[i].overlapped,
           m.refreshed = muts[i].refreshed, m.disturbed = muts[i].disturbed
    PROVE  /\ muts' \in Seq(Mutations) /\ muts'[i] = m
           /\ Pending' = Pending /\ Updates' = Updates
           /\ \A j \in Pending : Tracked(j)
           /\ \A j \in Pending : j # i => muts'[j] = muts[j]
  <1>1. i \in DOMAIN muts
    BY DEF Pending
  <1>2. muts' \in Seq(Mutations) /\ DOMAIN muts' = DOMAIN muts /\ muts'[i] = m
    BY <1>1, MutationFacts DEF CardTypeOK
  <1>3. \A j \in DOMAIN muts : j # i => muts'[j] = muts[j]
    BY <1>1
  <1>4. Pending' = Pending
    BY <1>2, <1>3 DEF Pending
  <1>5. \A j \in Pending : Tracked(j) /\ (j # i => muts'[j] = muts[j])
    BY <1>2, <1>3 DEF Pending, Tracked
  <1>6. Updates' = Updates
    BY <1>4, <1>5 DEF Updates, Tracked
  <1> QED
    BY <1>2, <1>4, <1>5, <1>6

\* One is over; the others are marked.
LEMMA EndMutation ==
    ASSUME CardTypeOK, NEW i \in Pending,
           muts' = [j \in DOMAIN muts |-> IF j = i THEN Done ELSE Marked("disturbed")[j]]
    PROVE  /\ muts' \in Seq(Mutations)
           /\ Pending' = Pending \ {i} /\ Updates' = Updates \ {i}
           /\ \A j \in Pending \ {i} : Tracked(j) /\ muts'[j].stage = muts[j].stage /\ muts'[j].disturbed
  <1>1. Done \in Mutations /\ Done.stage = "done"
    BY DEF Done, Mutations, PatchOrNone, ShownMemo, StoredMemo, Queries
  <1>2. muts' \in Seq(Mutations) /\ DOMAIN muts' = DOMAIN muts
    <2>1. \A j \in DOMAIN muts : Marked("disturbed")[j] \in Mutations
      BY MarkedFacts
    <2>2. muts' \in [1..Len(muts) -> Mutations]
      BY <1>1, <2>1, MutationFacts
    <2> QED
      BY <2>2, MutationFacts, ListOfLength
  <1>3. ASSUME NEW j \in DOMAIN muts, j \notin Pending \ {i}
        PROVE  j \notin Pending'
    <2>1. muts'[j].stage = "done"
      BY <1>1, <1>3, MarkedFacts DEF Pending
    <2> QED
      BY <2>1 DEF Pending
  <1>4. ASSUME NEW j \in Pending \ {i}
        PROVE  Tracked(j) /\ muts'[j].stage = muts[j].stage /\ muts'[j].disturbed
    <2>1. j \in DOMAIN muts /\ muts[j] \in Mutations
      BY MutationFacts DEF Pending, Mutation
    <2>2. muts'[j] = [muts[j] EXCEPT !["disturbed"] = TRUE]
      BY <1>4, <2>1, MarkedFacts
    <2> QED
      BY <2>1, <2>2 DEF Tracked, Mutations
  <1>5. Pending' = Pending \ {i}
    BY <1>2, <1>3, <1>4 DEF Pending
  <1>6. Updates' = Updates \ {i}
    BY <1>4, <1>5 DEF Updates, Tracked
  <1> QED
    BY <1>2, <1>4, <1>5, <1>6

\* A new one, beside those under way.
LEMMA StartMutation ==
    ASSUME CardTypeOK, NEW kind \in {"update", "delete"}, NEW patch \in PatchOrNone, NEW prev \in ShownMemo,
           NEW cut \in BOOLEAN, Start(kind, patch, prev, cut), NEW n, n = Len(muts) + 1
    PROVE  /\ muts' \in Seq(Mutations)
           /\ Pending' = Pending \union {n} /\ n \notin Pending
           /\ \A j \in Pending : Tracked(j) /\ muts'[j].stage = muts[j].stage /\ muts'[j].overlapped
           /\ muts'[n].kind = kind /\ muts'[n].patch = patch /\ muts'[n].prev = prev
           /\ muts'[n].cut = cut /\ muts'[n].other = (prev # data[page])
           /\ muts'[n].overlapped = (Pending # {}) /\ muts'[n].stage = "sent"
           /\ Updates' = Updates \union (IF kind = "update" THEN {n} ELSE {})
  <1> DEFINE M == [i \in DOMAIN muts |-> [muts[i] EXCEPT !.overlapped = @ \/ i \in Pending]]
             new == [kind |-> kind, patch |-> patch, prev |-> prev, cut |-> cut, from |-> page,
                     other |-> prev # data[page],
                     stage |-> "sent", tries |-> 1, result |-> None,
                     overlapped |-> Pending # {}, refreshed |-> FALSE,
                     disturbed |-> reaction.stage # "none"]
  <1>1. DOMAIN muts = 1..Len(muts) /\ Len(muts) \in Nat
    BY MutationFacts
  <1>2. new \in Mutations
    BY DEF Mutations, CardTypeOK, StoredMemo
  <1>3. ASSUME NEW i \in DOMAIN muts
        PROVE  /\ M[i] \in Mutations /\ M[i].stage = muts[i].stage /\ M[i].kind = muts[i].kind
               /\ M[i].patch = muts[i].patch /\ M[i].prev = muts[i].prev /\ M[i].cut = muts[i].cut
               /\ M[i].other = muts[i].other /\ M[i].refreshed = muts[i].refreshed
               /\ M[i].disturbed = muts[i].disturbed /\ M[i].overlapped = (muts[i].overlapped \/ i \in Pending)
    BY MutationFacts, ZenonT(30) DEF Mutation, Mutations
  <1>4. M \in Seq(Mutations) /\ Len(M) = Len(muts)
    <2>1. M \in [1..Len(muts) -> Mutations]
      BY <1>1, <1>3
    <2> QED
      BY <1>1, <2>1, ListOfLength
  <1>5. muts' = Append(M, new)
    BY DEF Start
  <1> HIDE DEF M, new
  <1>6. /\ muts' \in Seq(Mutations) /\ DOMAIN muts' = DOMAIN muts \union {n} /\ n \notin DOMAIN muts
        /\ muts'[n] = new /\ \A i \in DOMAIN muts : muts'[i] = M[i]
    BY <1>1, <1>2, <1>4, <1>5
  <1>7. new.stage = "sent" /\ new.kind = kind /\ new.patch = patch /\ new.prev = prev /\ new.cut = cut
        /\ new.other = (prev # data[page]) /\ new.overlapped = (Pending # {})
    BY DEF new
  <1>8. Pending' = Pending \union {n} /\ n \notin Pending
    BY <1>3, <1>6, <1>7 DEF Pending
  <1>9. \A j \in Pending : Tracked(j) /\ muts'[j].stage = muts[j].stage /\ muts'[j].overlapped
    BY <1>3, <1>6, ZenonT(30) DEF Pending, Tracked
  <1>10. Updates' = Updates \union (IF kind = "update" THEN {n} ELSE {})
    BY <1>6, <1>7, <1>8, <1>9 DEF Updates, Tracked
  <1> QED
    BY <1>6, <1>7, <1>8, <1>9, <1>10

-----------------------------------------------------------------------------
LEMMA FetchFacts ==
    /\ Idle \in Fetches /\ Stale \in Fetches /\ Sent \in Fetches
    /\ Idle.stage = "idle" /\ Stale.stage = "stale" /\ Sent.stage = "sent"
    /\ \A a \in StoredMemo : [stage |-> "served", answer |-> a] \in Fetches
    /\ NoReaction \in Reactions
  BY DEF Idle, Stale, Sent, Fetches, StoredMemo, NoReaction, Reactions

\* What is invalidated is fetched at once on the page, and later elsewhere.
LEMMA InvalidatedFacts ==
    ASSUME CardTypeOK, NEW qs, NEW shown
    PROVE  /\ Invalidated(qs, shown) \in [Queries -> Fetches]
           /\ \A q \in Queries :
                 Invalidated(qs, shown)[q] = IF q \notin qs THEN query[q] ELSE IF q = shown THEN Sent ELSE Stale
  BY FetchFacts DEF CardTypeOK, Invalidated

\* The clicks under way.
LEMMA OverlapKept ==
    ASSUME Overlap, Pending' \subseteq Pending, \A i \in Pending' : Tracked(i)
    PROVE  Overlap'
  BY DEF Overlap, Tracked

\* Nothing changes on the page.
LEMMA SteadyKept ==
    ASSUME Steady, UNCHANGED <<page, data, query>>, Updates' \subseteq Updates, \A i \in Updates' : Tracked(i)
    PROVE  Steady'
  <1> SUFFICES ASSUME NEW i \in Updates', ~muts'[i].overlapped, ~muts'[i].disturbed
               PROVE  /\ \A q \in Queries : query'[q].stage \notin {"sent", "served"}
                      /\ Has(data'[page']) => \A f \in DOMAIN muts'[i].patch : data'[page'][f] = muts'[i].patch[f]
    BY DEF Steady, Has
  <1> QED
    BY DEF Steady, Tracked

LEMMA SteadyDisturbed ==
    ASSUME \A i \in Updates' : muts'[i].overlapped \/ muts'[i].disturbed
    PROVE  Steady'
  BY DEF Steady

LEMMA BehindKept ==
    ASSUME NEW i, Tracked(i), RollbackBehind(muts[i])
    PROVE  RollbackBehind(muts'[i])
  BY DEF Tracked, RollbackBehind

LEMMA FreshKept ==
    ASSUME Fresh, UNCHANGED <<row, page, data, query, events>>, behind => behind',
           Updates' = Updates, \A i \in Updates : Tracked(i)
    PROVE  Fresh'
  <1> SUFFICES ASSUME ~behind', row' # None, events' = <<>>
               PROVE  /\ \A q \in Queries : query'[q].stage = "served" => query'[q].answer = Answer(q)'
                      /\ Updates' = {} => \A q \in Queries : Settled(q)' => Right(q)'
                      /\ \A i \in Updates' : ~RollbackBehind(muts'[i]) =>
                           \A q \in Queries : Settled(q)' => muts'[i].prev = row' /\ Revertible(q)'
    BY DEF Fresh, RollbackBehind
  <1>1. \A q \in Queries : Answer(q)' = Answer(q) /\ Settled(q)' = Settled(q) /\ Right(q)' = Right(q)
                             /\ Revertible(q)' = Revertible(q)
    BY DEF Answer, Settled, Right, Unseen, Revertible
  <1>2. \A i \in Updates : ~RollbackBehind(muts'[i]) => ~RollbackBehind(muts[i]) /\ muts'[i].prev = muts[i].prev
    BY BehindKept DEF Tracked
  <1> QED
    BY <1>1, <1>2 DEF Fresh

\* The row is changed: its event is on the way.
LEMMA FreshLater ==
    ASSUME events' # <<>>
    PROVE  Fresh'
  BY DEF Fresh

LEMMA FreshGone ==
    ASSUME row' = None \/ behind'
    PROVE  Fresh'
  BY DEF Fresh

LEMMA EventsAgain ==
    ASSUME NEW S, NEW s \in Seq(S), NEW e \in S
    PROVE  Append(s, e) \in Seq(S) /\ Append(s, e) # <<>>
  <1>1. Append(s, e) \in Seq(S) /\ Len(Append(s, e)) = Len(s) + 1 /\ Len(s) \in Nat
    OBVIOUS
  <1>2. Len(<<>>) = 0
    OBVIOUS
  <1> QED
    BY <1>1, <1>2

LEMMA ServeCard ==
    ASSUME CardInv, NEW i \in Pending, Serve(i)
    PROVE  CardInv'
  <1> DEFINE served == [muts[i] EXCEPT !.stage = "ok", !.result = row']
             refused == [muts[i] EXCEPT !.stage = "rejected"]
  <1>1. Mutation(i) /\ muts[i] \in Mutations /\ i \in DOMAIN muts
    BY MutationFacts DEF CardInv, Mutation, Pending
  <1>2. CASE row = None
    <2>1. /\ muts' = [muts EXCEPT ![i] = refused]
          /\ UNCHANGED <<row, events, page, data, query, reaction, clicks, faults, behind>>
      BY <1>2 DEF Serve
    <2>2. /\ refused \in Mutations /\ refused.stage # "done"
          /\ refused.kind = muts[i].kind /\ refused.patch = muts[i].patch /\ refused.prev = muts[i].prev
          /\ refused.cut = muts[i].cut /\ refused.other = muts[i].other
          /\ refused.overlapped = muts[i].overlapped
          /\ refused.refreshed = muts[i].refreshed /\ refused.disturbed = muts[i].disturbed
      BY <1>1 DEF Mutations
    <2> HIDE DEF refused
    <2>3. /\ muts' \in Seq(Mutations)
          /\ Pending' = Pending /\ Updates' = Updates
          /\ \A j \in Pending : Tracked(j)
      BY <2>1, <2>2, MoveMutation DEF CardInv
    <2>4. CardTypeOK'
      BY <2>1, <2>3 DEF CardInv, CardTypeOK, Updates, Tracked
    <2>5. Deletion' /\ Fresh'
      BY <1>2, <2>1, FreshGone DEF Deletion
    <2>6. Overlap' /\ Steady'
      BY <2>1, <2>3, OverlapKept, SteadyKept DEF CardInv, Updates
    <2> QED
      BY <2>4, <2>5, <2>6 DEF CardInv
  <1>3. CASE row # None
    <2>1. /\ muts' = [muts EXCEPT ![i] = served]
          /\ row' = IF muts[i].kind = "delete" THEN None ELSE Patched(row, muts[i].patch)
          /\ events' = Append(events, muts[i].kind)
          /\ UNCHANGED <<page, data, query, reaction, clicks, faults, behind>>
      BY <1>3 DEF Serve
    <2>2. row \in MemoRows
      BY <1>3 DEF CardInv, CardTypeOK, StoredMemo
    <2>3. muts[i].kind = "delete" => row' = None
      BY <2>1
    <2>4. muts[i].kind # "delete" => row' \in MemoRows /\ i \in Updates
      <3> SUFFICES ASSUME muts[i].kind # "delete"
                   PROVE  row' \in MemoRows /\ i \in Updates
        OBVIOUS
      <3>1. i \in Updates
        BY <1>1 DEF Updates, Mutations
      <3>2. muts[i].patch \in Patches
        BY <1>1, <3>1 DEF Mutation
      <3>3. Patched(row, muts[i].patch) \in MemoRows
        BY <2>2, <3>2, PatchedFacts, MemoIsThere DEF ShownMemo, StoredMemo
      <3> QED
        BY <2>1, <3>1, <3>3
    <2>5. row' \in StoredMemo
      BY <2>3, <2>4 DEF StoredMemo
    <2>6. /\ served \in Mutations /\ served.stage = "ok"
          /\ served.kind = muts[i].kind /\ served.patch = muts[i].patch /\ served.prev = muts[i].prev
          /\ served.cut = muts[i].cut /\ served.other = muts[i].other
          /\ served.overlapped = muts[i].overlapped
          /\ served.refreshed = muts[i].refreshed /\ served.disturbed = muts[i].disturbed
      BY <1>1, <2>5 DEF Mutations
    <2> HIDE DEF served
    <2>7. /\ muts' \in Seq(Mutations) /\ muts'[i] = served
          /\ Pending' = Pending /\ Updates' = Updates
          /\ \A j \in Pending : Tracked(j)
          /\ \A j \in Pending : j # i => muts'[j] = muts[j]
      BY <2>1, <2>6, MoveMutation DEF CardInv
    <2>8. muts[i].kind \in {"update", "delete"} /\ (row' # None => muts[i].kind = "update")
      BY <1>1, <2>3 DEF Mutations
    <2>9. events' \in Seq({"update", "delete"}) /\ events' # <<>>
          /\ (row' # None => events' \in Seq({"update"}))
      BY <1>3, <2>1, <2>8, EventsAgain DEF CardInv, CardTypeOK, Deletion
    <2>10. CardTypeOK'
      BY <2>1, <2>5, <2>7, <2>9 DEF CardInv, CardTypeOK, Updates, Tracked
    <2>11. Deletion'
      BY <1>3, <2>3, <2>6, <2>7, <2>8, <2>9 DEF CardInv, Deletion
    <2>12. Overlap' /\ Steady' /\ Fresh'
      BY <2>1, <2>7, <2>9, OverlapKept, SteadyKept, FreshLater DEF CardInv, Updates
    <2> QED
      BY <2>10, <2>11, <2>12 DEF CardInv
  <1> QED
    BY <1>2, <1>3

\* A request that is lost or sent again.
LEMMA AgainCard ==
    ASSUME CardInv, NEW i \in Pending, RequestLost(i) \/ Retry(i)
    PROVE  CardInv'
  <1> DEFINE lost == [muts[i] EXCEPT !.stage = "rejected"]
             again == [muts[i] EXCEPT !.stage = "sent", !.tries = 2]
  <1>1. muts[i] \in Mutations
    BY MutationFacts DEF CardInv, Mutation, Pending
  <1>2. PICK m \in {lost, again} : muts' = [muts EXCEPT ![i] = m]
    BY DEF RequestLost, Retry
  <1>3. UNCHANGED <<row, page, data, query, reaction, events, behind>>
    BY DEF RequestLost, Retry
  <1>4. /\ m \in Mutations /\ m.stage \in {"sent", "rejected"}
        /\ m.kind = muts[i].kind /\ m.patch = muts[i].patch /\ m.prev = muts[i].prev
        /\ m.cut = muts[i].cut /\ m.other = muts[i].other
        /\ m.overlapped = muts[i].overlapped
        /\ m.refreshed = muts[i].refreshed /\ m.disturbed = muts[i].disturbed
    BY <1>1 DEF Mutations
  <1>5. /\ muts' \in Seq(Mutations) /\ muts'[i] = m
        /\ Pending' = Pending /\ Updates' = Updates
        /\ \A j \in Pending : Tracked(j)
        /\ \A j \in Pending : j # i => muts'[j] = muts[j]
    BY <1>2, <1>4, MoveMutation DEF CardInv
  <1>6. CardTypeOK'
    BY <1>3, <1>5 DEF CardInv, CardTypeOK, Updates, Tracked
  <1>7. Deletion'
    BY <1>3, <1>4, <1>5 DEF CardInv, Deletion
  <1>8. Overlap' /\ Steady' /\ Fresh'
    BY <1>3, <1>5, OverlapKept, SteadyKept, FreshKept DEF CardInv, Updates
  <1> QED
    BY <1>6, <1>7, <1>8 DEF CardInv

\* The copies after an answer or a rollback.
LEMMA SetMemoFacts ==
    ASSUME CardTypeOK, NEW memo \in StoredMemo
    PROVE  /\ SetMemo(data, memo) \in [Queries -> ShownMemo]
           /\ SetMemo(data, memo)["detail"] = memo
           /\ memo \in MemoRows =>
                \A q \in Lists : SetMemo(data, memo)[q] = IF data[q] \in MemoRows THEN memo ELSE data[q]
  <1>1. ASSUME memo \in MemoRows, NEW q \in Lists
        PROVE  Patched(data[q], memo) = IF data[q] \in MemoRows THEN memo ELSE data[q]
    <2>1. data[q] \in ShownMemo /\ memo \in Patches
      BY <1>1, PatchIsBoolean DEF CardTypeOK, Queries, Lists
    <2> QED
      BY <1>1, <2>1, PatchedFacts, MemoIsThere
  <1>2. ASSUME memo = None, NEW q \in Lists
        PROVE  Patched(data[q], memo) \in ShownMemo
    <2>1. data[q] \in ShownMemo
      BY DEF CardTypeOK, Queries, Lists
    <2>2. DOMAIN memo = {}
      BY <1>2 DEF None
    <2>3. CASE Has(data[q])
      <3>1. data[q] \in MemoRows /\ DOMAIN data[q] = Fields
        BY <2>1, <2>3, MemoIsThere
      <3>2. Patched(data[q], memo) = [f \in Fields |-> data[q][f]]
        BY <2>2, <2>3, <3>1 DEF Patched
      <3> QED
        BY <3>1, <3>2 DEF MemoRows, ShownMemo, StoredMemo
    <2>4. CASE ~Has(data[q])
      BY <2>1, <2>4 DEF Patched
    <2> QED
      BY <2>3, <2>4
  <1>3. \A q \in Lists : Patched(data[q], memo) \in ShownMemo
    BY <1>1, <1>2 DEF StoredMemo, ShownMemo, CardTypeOK, Queries, Lists
  <1>4. memo \in ShownMemo
    BY DEF ShownMemo
  <1> QED
    BY <1>1, <1>3, <1>4 DEF SetMemo, Queries, Lists

LEMMA SuccessCard ==
    ASSUME CardInv, NEW i \in Pending, OnSuccess(i)
    PROVE  CardInv'
  <1> USE DEF CardInv
  <1>1. muts[i] \in Mutations /\ muts[i].result \in StoredMemo
    BY MutationFacts DEF Mutation, Mutations, Pending
  <1>2. /\ muts' \in Seq(Mutations)
        /\ Pending' = Pending \ {i} /\ Updates' = Updates \ {i}
        /\ \A j \in Pending \ {i} : Tracked(j) /\ muts'[j].stage = muts[j].stage /\ muts'[j].disturbed
    BY EndMutation DEF OnSuccess
  <1>3. page' = Landing(muts[i]) /\ page' \in Queries /\ (page' # page => page' \in Lists)
    BY DEF OnSuccess, Landing, CardTypeOK, Queries, Lists
  <1>4. UNCHANGED <<row, reaction, events>> /\ behind' = (behind \/ muts[i].result # row)
    BY DEF OnSuccess
  <1>5. data' \in [Queries -> ShownMemo]
    BY <1>1, SetMemoFacts DEF OnSuccess, CardTypeOK, ShownMemo
  <1>6. query' \in [Queries -> Fetches]
    BY InvalidatedFacts, FetchFacts DEF OnSuccess
  <1>7. \A j \in Updates' : muts'[j].patch \in Patches
    BY <1>2 DEF CardTypeOK, Updates, Tracked
  <1>8. CardTypeOK'
    BY <1>2, <1>3, <1>4, <1>5, <1>6, <1>7 DEF CardTypeOK
  <1>9. Deletion'
    BY <1>2, <1>4 DEF Deletion, Tracked
  <1>10. \A j \in Pending' : muts[j].overlapped /\ muts'[j].overlapped
    BY <1>2 DEF Overlap, Tracked
  <1>11. Overlap' /\ Steady'
    BY <1>2, <1>10, OverlapKept, SteadyDisturbed DEF Updates
  <1>12. ASSUME ~behind', row' # None, events' = <<>>
         PROVE  /\ \A q \in Queries : query'[q].stage = "served" => query'[q].answer = Answer(q)'
                /\ \A q \in Queries : Settled(q)' => Right(q)'
    <2>1. muts[i].kind = "update"
      BY <1>1, <1>4, <1>12 DEF Deletion, OnSuccess, Mutations
    <2>2. data' = SetMemo(data, row) /\ query' = Invalidated(Lists, page')
      BY <1>4, <1>12, <2>1 DEF OnSuccess
    <2>3. row \in StoredMemo /\ data'["detail"] = row
      BY <2>2, SetMemoFacts DEF CardTypeOK
    <2>4. \A q \in Lists : query'[q] = IF q = page' THEN Sent ELSE Stale
      BY <2>2, InvalidatedFacts DEF Queries, Lists
    <2>5. query'["detail"] = query["detail"]
      BY <2>2, InvalidatedFacts DEF Queries, Lists
    <2>6. Queries = Lists \union {"detail"} /\ Answer("detail")' = row
      BY <1>4 DEF Queries, Lists, Answer
    <2>7. \A q \in Lists : query'[q].stage # "served" /\ ~Settled(q)'
      BY <2>4, FetchFacts DEF Settled
    <2>8. query'["detail"].stage = "served" => query'["detail"].answer = Answer("detail")'
      BY <1>4, <1>12, <2>5, <2>6 DEF Fresh, Answer, Queries
    <2>9. Right("detail")'
      BY <2>3, <2>6 DEF Right
    <2> QED
      BY <2>6, <2>7, <2>8, <2>9
  <1>13. Fresh'
    BY <1>2, <1>10, <1>12 DEF Fresh, RollbackBehind, Updates
  <1> QED
    BY <1>8, <1>9, <1>11, <1>13

LEMMA ErrorCard ==
    ASSUME CardInv, NEW i \in Pending, OnError(i)
    PROVE  CardInv'
  <1> USE DEF CardInv
  <1>1. muts[i] \in Mutations
    BY MutationFacts DEF Mutation, Mutations, Pending
  <1>2. /\ muts' \in Seq(Mutations)
        /\ Pending' = Pending \ {i} /\ Updates' = Updates \ {i}
        /\ \A j \in Pending \ {i} : Tracked(j) /\ muts'[j].stage = muts[j].stage /\ muts'[j].disturbed
    BY EndMutation DEF OnError
  <1>3. UNCHANGED <<row, page, reaction, events>>
        /\ behind' = (behind \/ (muts[i].kind = "update" /\ RollbackBehind(muts[i])))
    BY DEF OnError
  <1>4. Has(muts[i].prev) => muts[i].prev \in MemoRows
    BY <1>1, MemoIsThere DEF Mutations
  <1>5. data' \in [Queries -> ShownMemo] /\ query' \in [Queries -> Fetches]
    BY <1>4, SetMemoFacts, InvalidatedFacts DEF OnError, CardTypeOK, StoredMemo
  <1>6. behind' \in BOOLEAN
    BY <1>1, <1>3 DEF CardTypeOK, RollbackBehind, Mutations
  <1>7. CardTypeOK'
    BY <1>2, <1>3, <1>5, <1>6 DEF CardTypeOK, Updates, Tracked
  <1>8. Deletion'
    BY <1>2, <1>3 DEF Deletion, Tracked
  <1>9. \A j \in Pending' : muts[j].overlapped /\ muts'[j].overlapped
    BY <1>2 DEF Overlap, Tracked
  <1>10. Overlap' /\ Steady'
    BY <1>2, <1>9, OverlapKept, SteadyDisturbed DEF Updates
  <1>11. ASSUME ~behind', row' # None, events' = <<>>
         PROVE  /\ \A q \in Queries : query'[q].stage = "served" => query'[q].answer = Answer(q)'
                /\ Updates' = {} => \A q \in Queries : Settled(q)' => Right(q)'
    <2>1. \A q \in Queries : Answer(q)' = Answer(q)
      BY <1>3 DEF Answer
    <2>2. CASE muts[i].kind = "delete"
      <3>1. UNCHANGED <<data, query>> /\ Updates' = Updates
        BY <1>2, <2>2 DEF OnError, Updates
      <3>2. \A q \in Queries : Settled(q)' = Settled(q) /\ Right(q)' = Right(q)
        BY <1>3, <2>1, <3>1 DEF Settled, Right, Unseen
      <3> QED
        BY <1>3, <1>11, <2>1, <3>1, <3>2 DEF Fresh
    <2>3. CASE muts[i].kind = "update" /\ Has(muts[i].prev)
      <3>1. data' = SetMemo(data, muts[i].prev) /\ UNCHANGED query
        BY <2>3 DEF OnError
      <3>2. i \in Updates /\ ~RollbackBehind(muts[i]) /\ ~behind
        BY <1>3, <1>11, <2>3 DEF Updates
      <3>3. ASSUME NEW q \in Queries, Settled(q)'
            PROVE  Right(q)'
        <4>1. muts[i].prev = row /\ Revertible(q)
          BY <1>3, <1>11, <3>1, <3>2, <3>3 DEF Fresh, Settled
        <4>2. row \in MemoRows /\ row \in StoredMemo
          BY <1>4, <2>3, <4>1 DEF StoredMemo
        <4>3. CASE q = "detail"
          <5>1. data'[q] = row
            BY <3>1, <4>1, <4>2, <4>3, SetMemoFacts
          <5> QED
            BY <2>1, <4>2, <4>3, <5>1, AnswerFacts DEF Right
        <4>4. CASE q \in Lists
          <5>1. data'[q] = IF data[q] \in MemoRows THEN row ELSE data[q]
            BY <3>1, <4>1, <4>2, <4>4, SetMemoFacts
          <5>2. Unseen(q) => Right(q)'
            BY <1>3, <5>1, MemoIsThere DEF Unseen, Right
          <5>3. data[q] \in MemoRows /\ Answer(q) # None => Right(q)'
            BY <2>1, <4>2, <5>1, AnswerFacts DEF Right
          <5>4. data[q] = None /\ Answer(q) = None => Right(q)'
            BY <2>1, <5>1, MemoIsThere DEF Right
          <5> QED
            BY <4>1, <4>4, <5>2, <5>3, <5>4 DEF Revertible
        <4> QED
          BY <4>3, <4>4 DEF Queries, Lists
      <3> QED
        BY <1>3, <1>11, <2>1, <3>1, <3>2, <3>3 DEF Fresh
    <2>4. CASE muts[i].kind = "update" /\ ~Has(muts[i].prev)
      <3>1. \A q \in Queries : query'[q] = IF q = page' THEN Sent ELSE Stale
        BY <1>3, <2>4, InvalidatedFacts DEF OnError
      <3> QED
        BY <3>1, FetchFacts DEF Settled
    <2> QED
      BY <1>1, <2>2, <2>3, <2>4 DEF Mutations
  <1>12. Fresh'
    BY <1>2, <1>9, <1>11 DEF Fresh, RollbackBehind, Updates
  <1> QED
    BY <1>7, <1>8, <1>10, <1>12

-----------------------------------------------------------------------------
\* Marking the clicks under way says nothing else about them.
LEMMA MarkedKeeps ==
    ASSUME CardInv, NEW flag \in {"refreshed", "disturbed"}, muts' = Marked(flag)
    PROVE  /\ muts' \in Seq(Mutations) /\ \A i \in Updates' : muts'[i].patch \in Patches
           /\ Overlap'
           /\ (row # None => events \in Seq({"update"})) /\ row' = row /\ events' = events => Deletion'
  <1>1. /\ muts' \in Seq(Mutations)
        /\ Pending' = Pending /\ Updates' = Updates
        /\ \A i \in Pending : Tracked(i) /\ muts'[i].stage = muts[i].stage
    BY MarkMutations DEF CardInv
  <1>2. \A i \in Updates' : muts'[i].patch \in Patches
    BY <1>1 DEF CardInv, CardTypeOK, Updates, Tracked
  <1>3. Overlap'
    BY <1>1, OverlapKept DEF CardInv
  <1>4. row' = row /\ events' = events => Deletion'
    BY <1>1 DEF CardInv, Deletion, Tracked
  <1> QED
    BY <1>1, <1>2, <1>3, <1>4

\* Another page: what would be fetched there is fetched.
LEMMA ShowCard ==
    ASSUME CardInv, NEW p \in Queries, Show(p)
    PROVE  CardInv'
  <1> USE DEF CardInv
  <1>1. PICK tooOld \in BOOLEAN :
          query' = IF data[p] = Unloaded \/ query[p].stage = "stale" \/ tooOld
                   THEN [query EXCEPT ![p] = Sent] ELSE query
    BY DEF Show
  <1>2. page' = p /\ muts' = Marked("disturbed") /\ UNCHANGED <<row, data, reaction, events, behind>>
    BY DEF Show
  <1>3. /\ muts' \in Seq(Mutations) /\ \A i \in Updates' : muts'[i].patch \in Patches
        /\ Overlap' /\ Deletion'
    BY <1>2, MarkedKeeps DEF Deletion
  <1>4. /\ Updates' = Updates
        /\ \A i \in Updates : Tracked(i) /\ muts'[i].disturbed
    BY <1>2, MarkMutations DEF Updates
  <1>5. CardTypeOK'
    BY <1>1, <1>2, <1>3, FetchFacts DEF CardTypeOK
  <1>6. Steady'
    BY <1>4, SteadyDisturbed
  <1>7. \A q \in Queries : query'[q] = query[q] \/ query'[q] = Sent
    BY <1>1 DEF CardTypeOK
  <1>8. ASSUME NEW q \in Queries, Settled(q)'
        PROVE  /\ query'[q] = query[q] /\ Settled(q) /\ ~(q = p /\ data[q] = Unloaded)
    <2>1. query'[q] = query[q]
      BY <1>7, <1>8, FetchFacts DEF Settled
    <2>2. q = p => query'[p] # Sent
      BY <1>8, FetchFacts DEF Settled
    <2>3. q = p => data[q] # Unloaded /\ query[q].stage # "stale"
      BY <1>1, <2>2 DEF CardTypeOK
    <2> QED
      BY <1>2, <1>8, <2>1, <2>3 DEF Settled
  <1>9. \A q \in Queries : Answer(q)' = Answer(q)
    BY <1>2 DEF Answer
  <1>10. \A q \in Queries : Settled(q)' /\ Right(q) => Right(q)'
    BY <1>2, <1>8, <1>9 DEF Right, Unseen
  <1>11. \A q \in Queries : Settled(q)' /\ Revertible(q) => Revertible(q)'
    BY <1>2, <1>8, <1>9 DEF Revertible, Unseen
  <1>12. ASSUME NEW i \in Updates, ~RollbackBehind(muts'[i])
         PROVE  ~RollbackBehind(muts[i]) /\ muts'[i].prev = muts[i].prev
    BY <1>4, <1>12, BehindKept DEF Tracked
  <1>13. ASSUME ~behind', row' # None, events' = <<>>
         PROVE  /\ \A q \in Queries : query'[q].stage = "served" => query'[q].answer = Answer(q)'
                /\ Updates' = {} => \A q \in Queries : Settled(q)' => Right(q)'
                /\ \A i \in Updates' : ~RollbackBehind(muts'[i]) =>
                     \A q \in Queries : Settled(q)' => muts'[i].prev = row' /\ Revertible(q)'
    BY <1>2, <1>4, <1>7, <1>8, <1>9, <1>10, <1>11, <1>12, <1>13, FetchFacts DEF Fresh
  <1>14. Fresh'
    BY <1>13 DEF Fresh, RollbackBehind
  <1> QED
    BY <1>3, <1>5, <1>6, <1>14

\* The server answers a query: what it has.
LEMMA ServedCard ==
    ASSUME CardInv, NEW p \in Queries, FetchServed(p)
    PROVE  CardInv'
  <1> USE DEF CardInv
  <1> DEFINE new == [stage |-> "served", answer |-> Answer(p)]
  <1>1. query[p].stage = "sent" /\ query' = [query EXCEPT ![p] = new]
        /\ UNCHANGED <<row, page, data, muts, reaction, events, behind>>
    BY DEF FetchServed
  <1>2. new \in Fetches /\ new.stage = "served" /\ new.answer = Answer(p)
    BY AnswerFacts, FetchFacts DEF CardTypeOK
  <1> HIDE DEF new
  <1>3. query' \in [Queries -> Fetches] /\ query'[p] = new /\ \A q \in Queries : q # p => query'[q] = query[q]
    BY <1>1, <1>2 DEF CardTypeOK
  <1>4. Pending' = Pending /\ Updates' = Updates
    BY <1>1 DEF Pending, Updates
  <1>5. CardTypeOK' /\ Deletion' /\ Overlap'
    BY <1>1, <1>3, <1>4 DEF CardTypeOK, Deletion, Overlap
  <1>6. Steady'
    <2> SUFFICES ASSUME NEW i \in Updates, ~muts[i].overlapped, ~muts[i].disturbed
                 PROVE  FALSE
      BY <1>1, <1>4 DEF Steady
    <2> QED
      BY <1>1 DEF Steady
  <1>7. \A q \in Queries : Answer(q)' = Answer(q)
    BY <1>1 DEF Answer
  <1>8. \A q \in Queries : Settled(q)' => q # p /\ Settled(q) /\ Right(q)' = Right(q) /\ Revertible(q)' = Revertible(q)
    BY <1>1, <1>2, <1>3, <1>7 DEF Settled, Right, Unseen, Revertible
  <1>9. ASSUME ~behind', row' # None, events' = <<>>
        PROVE  /\ \A q \in Queries : query'[q].stage = "served" => query'[q].answer = Answer(q)'
               /\ Updates' = {} => \A q \in Queries : Settled(q)' => Right(q)'
               /\ \A i \in Updates' : ~RollbackBehind(muts'[i]) =>
                    \A q \in Queries : Settled(q)' => muts'[i].prev = row' /\ Revertible(q)'
    BY <1>1, <1>2, <1>3, <1>4, <1>7, <1>8, <1>9 DEF Fresh
  <1>10. Fresh'
    BY <1>9 DEF Fresh, RollbackBehind
  <1> QED
    BY <1>5, <1>6, <1>10

\* The answer of a query replaces its copy, whatever was clicked since it was sent.
LEMMA ReplyCard ==
    ASSUME CardInv, NEW p \in Queries, FetchReply(p)
    PROVE  CardInv'
  <1> USE DEF CardInv
  <1>1. /\ query[p].stage = "served" /\ data' = [data EXCEPT ![p] = query[p].answer]
        /\ query' = [query EXCEPT ![p] = Idle] /\ muts' = Marked("refreshed")
        /\ UNCHANGED <<row, page, reaction, events, behind>>
    BY DEF FetchReply
  <1>2. query[p].answer \in StoredMemo
    BY DEF CardTypeOK, Fetches
  <1>3. /\ query' \in [Queries -> Fetches] /\ data' \in [Queries -> ShownMemo]
        /\ query'[p] = Idle /\ data'[p] = query[p].answer
        /\ \A q \in Queries : q # p => query'[q] = query[q] /\ data'[q] = data[q]
    BY <1>1, <1>2, FetchFacts DEF CardTypeOK, ShownMemo
  <1>4. /\ muts' \in Seq(Mutations) /\ \A i \in Updates' : muts'[i].patch \in Patches
        /\ Overlap' /\ Deletion'
    BY <1>1, MarkedKeeps DEF Deletion
  <1>5. /\ Updates' = Updates
        /\ \A i \in Updates : Tracked(i) /\ muts'[i].refreshed
    BY <1>1, MarkMutations DEF Updates
  <1>6. CardTypeOK'
    BY <1>1, <1>3, <1>4 DEF CardTypeOK
  <1>7. Steady'
    <2> SUFFICES \A i \in Updates' : muts'[i].overlapped \/ muts'[i].disturbed
      BY SteadyDisturbed
    <2> QED
      BY <1>1, <1>5 DEF Steady, Tracked
  <1>8. \A q \in Queries : Answer(q)' = Answer(q)
    BY <1>1 DEF Answer
  <1>9. ASSUME ~behind', row' # None, events' = <<>>
        PROVE  /\ \A q \in Queries : query'[q].stage = "served" => query'[q].answer = Answer(q)'
               /\ Updates' = {} => \A q \in Queries : Settled(q)' => Right(q)'
    <2>1. \A q \in Queries : query'[q].stage = "served" => query'[q].answer = Answer(q)'
      BY <1>1, <1>3, <1>8, <1>9, FetchFacts DEF Fresh
    <2>2. Right(p)'
      BY <1>1, <1>3, <1>8, <1>9 DEF Fresh, Right
    <2>3. \A q \in Queries : q # p /\ Settled(q)' => Settled(q) /\ Right(q)' = Right(q)
      BY <1>1, <1>3, <1>8 DEF Settled, Right, Unseen
    <2> QED
      BY <1>1, <1>5, <1>9, <2>1, <2>2, <2>3 DEF Fresh
  <1>10. \A i \in Updates' : RollbackBehind(muts'[i])
    BY <1>5 DEF RollbackBehind
  <1>11. Fresh'
    BY <1>9, <1>10 DEF Fresh, RollbackBehind
  <1> QED
    BY <1>4, <1>6, <1>7, <1>11

-----------------------------------------------------------------------------
\* A new mutation makes every other one an overlapped one.
LEMMA StartKeeps ==
    ASSUME CardInv, NEW kind \in {"update", "delete"}, NEW patch \in PatchOrNone, NEW prev \in ShownMemo,
           NEW cut \in BOOLEAN, Start(kind, patch, prev, cut), UNCHANGED <<row, events>>,
           kind = "update" => patch \in Patches
    PROVE  /\ muts' \in Seq(Mutations) /\ \A i \in Updates' : muts'[i].patch \in Patches
           /\ Overlap' /\ Deletion'
  <1>1. PICK n : n = Len(muts) + 1
    OBVIOUS
  <1>2. /\ muts' \in Seq(Mutations)
        /\ Pending' = Pending \union {n} /\ n \notin Pending
        /\ \A j \in Pending : Tracked(j) /\ muts'[j].stage = muts[j].stage /\ muts'[j].overlapped
        /\ muts'[n].kind = kind /\ muts'[n].patch = patch
        /\ muts'[n].overlapped = (Pending # {}) /\ muts'[n].stage = "sent"
        /\ Updates' = Updates \union (IF kind = "update" THEN {n} ELSE {})
    BY <1>1, StartMutation DEF CardInv
  <1>3. \A i \in Updates' : muts'[i].patch \in Patches
    BY <1>2 DEF CardInv, CardTypeOK, Updates, Tracked
  <1>4. Overlap'
    BY <1>2 DEF Overlap
  <1>5. Deletion'
    BY <1>2 DEF CardInv, Deletion, Tracked
  <1> QED
    BY <1>2, <1>3, <1>4, <1>5

\* A click that patches the copies: the rollback of it leaves what the copies
\* were, if no fetch was cut and the copy it remembers is the page's.
LEMMA UpdateCard ==
    ASSUME CardInv, NEW patch \in Patches, UpdateMemo(patch)
    PROVE  CardInv'
  <1> USE DEF CardInv
  <1> DEFINE busy == {q \in Queries : query[q].stage \in {"sent", "served"}}
             cut == busy # {}
  <1>1. PICK n : n = Len(muts) + 1
    OBVIOUS
  <1>2. /\ query' = [q \in Queries |-> IF q \in busy THEN Stale ELSE query[q]]
        /\ data' = [q \in Queries |-> IF q = "detail" THEN Patched(Cached, patch) ELSE Patched(data[q], patch)]
        /\ Start("update", patch, Cached, cut)
        /\ Has(data[page]) /\ UNCHANGED <<row, page, reaction, events, behind>>
    BY DEF UpdateMemo, OnMutate
  <1>3. Cached \in ShownMemo /\ (Has(data["detail"]) => Cached = data["detail"])
    <2>1. \A q \in Queries : data[q] \in ShownMemo
      BY DEF CardTypeOK
    <2>2. Unloaded \in ShownMemo /\ "detail" \in Queries /\ Lists \subseteq Queries
      BY DEF ShownMemo, Queries, Lists
    <2> QED
      BY <2>1, <2>2 DEF Cached
  <1>4. patch \in PatchOrNone /\ cut \in BOOLEAN
    BY DEF PatchOrNone
  <1> HIDE DEF cut
  <1>5. /\ Pending' = Pending \union {n} /\ n \notin Pending
        /\ \A j \in Pending : Tracked(j) /\ muts'[j].overlapped
        /\ muts'[n].patch = patch /\ muts'[n].prev = Cached /\ muts'[n].cut = cut
        /\ muts'[n].other = (Cached # data[page]) /\ muts'[n].overlapped = (Pending # {})
        /\ Updates' = Updates \union {n}
    BY <1>1, <1>2, <1>3, <1>4, StartMutation
  <1>6. /\ muts' \in Seq(Mutations) /\ \A i \in Updates' : muts'[i].patch \in Patches
        /\ Overlap' /\ Deletion'
    BY <1>2, <1>3, <1>4, StartKeeps
  <1>7. \A q \in Queries : data[q] \in ShownMemo /\ Patched(data[q], patch) \in ShownMemo
    BY PatchedFacts DEF CardTypeOK
  <1>8. query' \in [Queries -> Fetches] /\ data' \in [Queries -> ShownMemo]
    BY <1>2, <1>3, <1>7, PatchedFacts, FetchFacts DEF CardTypeOK
  <1>9. CardTypeOK'
    BY <1>2, <1>6, <1>8 DEF CardTypeOK
  <1>10. \A q \in Queries : query'[q].stage \notin {"sent", "served"}
    BY <1>2, FetchFacts
  <1>11. page \in Queries /\ data[page] \in ShownMemo /\ data'[page] = Patched(data[page], patch)
    BY <1>2, <1>3 DEF CardTypeOK
  <1>12. \A f \in DOMAIN patch : data'[page][f] = patch[f]
    BY <1>2, <1>11, PatchedFacts
  <1>13. Steady'
    <2>1. \A i \in Updates' : i # n => muts'[i].overlapped
      BY <1>5 DEF Updates
    <2> SUFFICES ASSUME NEW i \in Updates', ~muts'[i].overlapped
                 PROVE  /\ \A q \in Queries : query'[q].stage \notin {"sent", "served"}
                        /\ \A f \in DOMAIN muts'[i].patch : data'[page'][f] = muts'[i].patch[f]
      BY DEF Steady
    <2>2. i = n /\ muts'[i].patch = patch /\ page' = page
      BY <1>2, <1>5, <2>1
    <2> QED
      BY <1>10, <1>12, <2>2
  <1>14. \A q \in Queries : Answer(q)' = Answer(q)
    BY <1>2 DEF Answer
  <1>15. \A i \in Updates : RollbackBehind(muts'[i])
    BY <1>5 DEF RollbackBehind, Updates
  <1>16. ASSUME ~behind, row # None, events = <<>>, ~RollbackBehind(muts'[n]), NEW q \in Queries, Settled(q)'
         PROVE  muts'[n].prev = row /\ Revertible(q)'
    <2>1. Pending = {} /\ ~cut /\ Cached = data[page]
      BY <1>5, <1>16 DEF RollbackBehind
    <2>2. Updates = {} /\ busy = {}
      BY <2>1 DEF Updates, cut
    <2>3. query' = query
      BY <1>2, <2>2 DEF CardTypeOK
    <2>4. \A r \in Queries : Settled(r) => Right(r)
      BY <1>16, <2>2 DEF Fresh
    <2>5. query[page].stage \in {"idle", "stale"}
      BY <1>11, <2>2 DEF CardTypeOK, Fetches
    <2>6. data[page] = Answer(page) /\ Answer(page) # None
      BY <1>2, <1>11, <2>4, <2>5 DEF Settled, Right, Unseen, Has
    <2>7. Cached = row
      BY <1>11, <2>1, <2>6, AnswerFacts DEF CardTypeOK
    <2>8. Right(q)
      BY <1>2, <1>16, <2>3, <2>4 DEF Settled
    <2>9. ASSUME q \in Lists
          PROVE  Revertible(q)'
      <3>1. data'[q] = Patched(data[q], patch) /\ Answer(q) \in StoredMemo
        BY <1>2, <2>9, AnswerFacts DEF CardTypeOK, Lists
      <3>2. CASE data[q] = Unloaded /\ q # page
        <4>1. data'[q] = Unloaded
          BY <1>7, <3>1, <3>2, PatchedFacts DEF Has
        <4> QED
          BY <1>2, <3>2, <4>1 DEF Revertible, Unseen
      <3>3. CASE data[q] = Answer(q) /\ Answer(q) # None
        <4>1. data[q] \in MemoRows /\ Has(data[q])
          BY <3>1, <3>3, MemoIsThere DEF StoredMemo
        <4>2. data'[q] \in MemoRows
          BY <1>7, <3>1, <4>1, PatchedFacts
        <4> QED
          BY <1>14, <3>3, <4>2 DEF Revertible
      <3>4. CASE data[q] = Answer(q) /\ Answer(q) = None
        <4>1. data'[q] = None
          BY <1>7, <3>1, <3>4, PatchedFacts DEF Has
        <4> QED
          BY <1>14, <3>4, <4>1 DEF Revertible
      <3> QED
        BY <2>8, <3>2, <3>3, <3>4 DEF Right, Unseen
    <2> QED
      BY <1>5, <2>7, <2>9 DEF Revertible
  <1>17. ASSUME ~behind', row' # None, events' = <<>>
         PROVE  /\ \A q \in Queries : query'[q].stage # "served"
                /\ Updates' # {}
                /\ \A i \in Updates' : ~RollbackBehind(muts'[i]) =>
                     \A q \in Queries : Settled(q)' => muts'[i].prev = row' /\ Revertible(q)'
    BY <1>2, <1>5, <1>10, <1>15, <1>16, <1>17
  <1>18. Fresh'
    BY <1>17 DEF Fresh, RollbackBehind
  <1> QED
    BY <1>6, <1>9, <1>13, <1>18

LEMMA DeleteCard ==
    ASSUME CardInv, DeleteMemo
    PROVE  CardInv'
  <1> USE DEF CardInv
  <1>1. Start("delete", None, Unloaded, FALSE) /\ UNCHANGED <<row, page, data, query, reaction, events, behind>>
    BY DEF DeleteMemo
  <1>2. None \in PatchOrNone /\ Unloaded \in ShownMemo
    BY DEF PatchOrNone, ShownMemo
  <1>3. /\ muts' \in Seq(Mutations) /\ \A i \in Updates' : muts'[i].patch \in Patches
        /\ Overlap' /\ Deletion'
    BY <1>1, <1>2, StartKeeps
  <1>4. PICK n : n = Len(muts) + 1
    OBVIOUS
  <1>5. Updates' = Updates /\ \A j \in Updates : Tracked(j) /\ muts'[j].overlapped
    <2> DEFINE kind == "delete"
               cut == FALSE
    <2>1. kind \in {"update", "delete"} /\ kind # "update" /\ cut \in BOOLEAN
      OBVIOUS
    <2>2. Start(kind, None, Unloaded, cut)
      BY <1>1
    <2> HIDE DEF kind, cut
    <2>3. /\ \A j \in Pending : Tracked(j) /\ muts'[j].overlapped
          /\ Updates' = Updates \union (IF kind = "update" THEN {n} ELSE {})
      BY <1>2, <1>4, <2>1, <2>2, StartMutation
    <2>4. Updates' = Updates
      BY <2>1, <2>3
    <2> QED
      BY <2>3, <2>4 DEF Updates
  <1>6. CardTypeOK'
    BY <1>1, <1>3 DEF CardTypeOK
  <1>7. Steady' /\ Fresh'
    BY <1>1, <1>5, SteadyDisturbed, FreshKept
  <1> QED
    BY <1>3, <1>6, <1>7

LEMMA PatchOfSome ==
    ASSUME NEW D \in SUBSET Fields
    PROVE  [D -> BOOLEAN] \subseteq Patches
  BY DEF Patches

\* The buttons, the boxes of the tasks and the reaction of a card.
LEMMA ClickCard ==
    ASSUME CardInv, Click
    PROVE  CardInv'
  <1>1. \A checked : Content(checked) \in Patches
    <2> SUFFICES ASSUME NEW checked PROVE Content(checked) \in Patches
      OBVIOUS
    <2>1. Content(checked) \in [Tasks -> BOOLEAN]
      BY DEF Content
    <2> QED
      BY <2>1, PatchOfSome DEF Tasks, Fields
  <1>2. \A b \in BOOLEAN : [f \in {"pinned"} |-> b] \in Patches /\ [f \in {"archived"} |-> b] \in Patches
    <2> SUFFICES ASSUME NEW b \in BOOLEAN
                 PROVE  [f \in {"pinned"} |-> b] \in Patches /\ [f \in {"archived"} |-> b] \in Patches
      OBVIOUS
    <2>1. [f \in {"pinned"} |-> b] \in [{"pinned"} -> BOOLEAN] /\ [f \in {"archived"} |-> b] \in [{"archived"} -> BOOLEAN]
      OBVIOUS
    <2>2. {"pinned"} \subseteq Fields /\ {"archived"} \subseteq Fields
      BY DEF Fields
    <2> QED
      BY <2>1, <2>2, PatchOfSome
  <1>3. CASE \E t \in Tasks : ToggleTask(t)
    BY <1>1, <1>3, UpdateCard DEF ToggleTask
  <1>4. CASE \E all \in BOOLEAN : CheckAll(all)
    BY <1>1, <1>4, UpdateCard DEF CheckAll
  <1>5. CASE TogglePin
    BY <1>2, <1>5, UpdateCard DEF TogglePin
  <1>6. CASE ToggleArchived
    BY <1>2, <1>6, UpdateCard DEF ToggleArchived
  <1>7. CASE ClickReaction
    <2>1. UNCHANGED <<row, page, data, query, muts, events, behind>>
      BY <1>7 DEF ClickReaction
    <2>2. reaction' \in Reactions
      BY <1>7 DEF ClickReaction, Reactions, StoredMemo
    <2>3. Pending' = Pending /\ Updates' = Updates /\ \A i \in Pending : Tracked(i)
      BY <2>1 DEF Pending, Updates, Tracked
    <2>4. CardTypeOK' /\ Deletion' /\ Overlap'
      BY <2>1, <2>2, <2>3, OverlapKept DEF CardInv, CardTypeOK, Deletion
    <2>5. Steady' /\ Fresh'
      BY <2>1, <2>3, SteadyKept, FreshKept DEF CardInv, Updates
    <2> QED
      BY <2>4, <2>5 DEF CardInv
  <1> QED
    BY <1>3, <1>4, <1>5, <1>6, <1>7, DeleteCard DEF Click
-----------------------------------------------------------------------------
\* A step of a reaction's calls that leaves the stored memo and the copies alone.
LEMMA ReactionRests ==
    ASSUME CardInv, UNCHANGED <<row, page, data, query, muts, events, behind>>, reaction' \in Reactions
    PROVE  CardInv'
  <1>1. Pending' = Pending /\ Updates' = Updates /\ \A i \in Pending : Tracked(i)
    BY DEF Pending, Updates, Tracked
  <1>2. CardTypeOK' /\ Deletion' /\ Overlap'
    BY <1>1, OverlapKept DEF CardInv, CardTypeOK, Deletion
  <1>3. Steady' /\ Fresh'
    BY <1>1, SteadyKept, FreshKept DEF CardInv, Updates
  <1> QED
    BY <1>2, <1>3 DEF CardInv

\* The stored memo is changed beside this tab's mutations, and its event is sent.
LEMMA RowChanges ==
    ASSUME CardInv, row # None, row' \in MemoRows, events' = Append(events, "update"), reaction' \in Reactions,
           UNCHANGED <<page, data, query, muts, behind>>
    PROVE  CardInv'
  <1>1. Pending' = Pending /\ Updates' = Updates /\ \A i \in Pending : Tracked(i)
    BY DEF Pending, Updates, Tracked
  <1>2. events' # <<>> /\ events' \in Seq({"update"}) /\ events' \in Seq({"update", "delete"})
    BY EventsAgain DEF CardInv, CardTypeOK, Deletion
  <1>3. CardTypeOK'
    BY <1>1, <1>2 DEF CardInv, CardTypeOK, StoredMemo
  <1>4. Deletion'
    BY <1>1, <1>2 DEF CardInv, Deletion
  <1>5. Overlap' /\ Steady' /\ Fresh'
    BY <1>1, <1>2, OverlapKept, SteadyKept, FreshLater DEF CardInv, Updates
  <1> QED
    BY <1>3, <1>4, <1>5 DEF CardInv

LEMMA ServeReactionCard ==
    ASSUME CardInv, ServeReaction \/ ServeGet \/ ReactionFails
    PROVE  CardInv'
  <1>1. reaction \in Reactions /\ row \in StoredMemo
    BY DEF CardInv, CardTypeOK
  <1>2. CASE ServeReaction /\ row # None
    <2>1. row \in MemoRows
      BY <1>1, <1>2 DEF StoredMemo
    <2>2. [row EXCEPT !["reacted"] = reaction.stage = "upsert"] \in MemoRows
      BY <2>1 DEF MemoRows, Fields
    <2>3. [reaction EXCEPT !.stage = "get"] \in Reactions
      BY <1>1 DEF Reactions
    <2> QED
      BY <1>2, <2>2, <2>3, RowChanges DEF ServeReaction
  <1>3. CASE ServeReaction /\ row = None
    BY <1>3, FetchFacts, ReactionRests DEF ServeReaction
  <1>4. CASE ServeGet
    <2>1. [stage |-> "set", answer |-> row] \in Reactions
      BY <1>1 DEF Reactions
    <2> QED
      BY <1>4, <2>1, FetchFacts, ReactionRests DEF ServeGet
  <1>5. CASE ReactionFails
    BY <1>5, FetchFacts, ReactionRests DEF ReactionFails
  <1> QED
    BY <1>2, <1>3, <1>4, <1>5

LEMMA ForeignCard ==
    ASSUME CardInv, ForeignUpdate
    PROVE  CardInv'
  <1>1. row # None /\ row \in MemoRows
    BY DEF CardInv, CardTypeOK, StoredMemo, ForeignUpdate
  <1>2. [row EXCEPT !["t2"] = ~@] \in MemoRows
    BY <1>1 DEF MemoRows, Fields
  <1>3. reaction \in Reactions
    BY DEF CardInv, CardTypeOK
  <1> QED
    BY <1>1, <1>2, <1>3, RowChanges DEF ForeignUpdate

\* The memo that a reaction has read replaces the detail under every click.
LEMMA ReactionDoneCard ==
    ASSUME CardInv, ReactionDone
    PROVE  CardInv'
  <1> USE DEF CardInv
  <1>1. /\ data' = [data EXCEPT !["detail"] = reaction.answer]
        /\ query' = Invalidated(Lists, page)
        /\ behind' = (behind \/ reaction.answer # row)
        /\ reaction' = NoReaction
        /\ UNCHANGED <<row, page, events>>
    BY DEF ReactionDone
  <1>2. muts' = [i \in DOMAIN muts |-> [Marked("disturbed")[i] EXCEPT !.refreshed = @ \/ i \in Pending]]
    BY DEF ReactionDone
  <1>3. ASSUME NEW i \in DOMAIN muts
        PROVE  /\ muts'[i] \in Mutations
               /\ muts'[i].stage = muts[i].stage
               /\ i \in Pending => Tracked(i) /\ muts'[i].disturbed /\ muts'[i].refreshed
    <2>1. muts[i] \in Mutations
      BY MutationFacts DEF Mutation
    <2>2. PICK m \in Mutations : m = Marked("disturbed")[i]
      BY MarkedFacts
    <2>3. muts'[i] = [m EXCEPT !.refreshed = @ \/ i \in Pending]
      BY <1>2, <2>2
    <2>4. i \notin Pending => m = muts[i]
      BY <2>2, MarkedFacts
    <2>5. i \in Pending => m = [muts[i] EXCEPT !["disturbed"] = TRUE]
      BY <2>2, MarkedFacts
    <2>6. muts'[i] \in Mutations /\ muts'[i].stage = m.stage
      BY <2>2, <2>3 DEF Mutations
    <2>7. ASSUME i \in Pending
          PROVE  Tracked(i) /\ muts'[i].stage = muts[i].stage /\ muts'[i].disturbed /\ muts'[i].refreshed
      BY <2>1, <2>2, <2>3, <2>5, <2>7 DEF Tracked, Mutations
    <2> QED
      BY <2>4, <2>6, <2>7
  <1>4. muts' \in Seq(Mutations) /\ DOMAIN muts' = DOMAIN muts
    <2>1. muts' \in [1..Len(muts) -> Mutations]
      BY <1>2, <1>3, MutationFacts
    <2> QED
      BY <2>1, MutationFacts, ListOfLength
  <1>5. Pending' = Pending
    BY <1>3, <1>4 DEF Pending
  <1>6. \A i \in Pending : Tracked(i) /\ muts'[i].stage = muts[i].stage /\ muts'[i].disturbed /\ muts'[i].refreshed
    BY <1>3 DEF Pending
  <1>7. Updates' = Updates
    BY <1>5, <1>6 DEF Updates, Tracked
  <1>8. reaction.answer \in StoredMemo
    BY DEF CardTypeOK, Reactions
  <1>9. query' \in [Queries -> Fetches] /\ data' \in [Queries -> ShownMemo] /\ data'["detail"] = reaction.answer
    BY <1>1, <1>8, InvalidatedFacts DEF CardTypeOK, ShownMemo, Queries
  <1>10. CardTypeOK'
    BY <1>1, <1>4, <1>6, <1>7, <1>9, FetchFacts DEF CardTypeOK, Updates, Tracked
  <1>11. Deletion' /\ Overlap'
    BY <1>1, <1>5, <1>6, OverlapKept DEF Deletion, Tracked
  <1>12. Steady' /\ \A i \in Updates' : RollbackBehind(muts'[i])
    BY <1>6, <1>7, SteadyDisturbed DEF Updates, RollbackBehind
  <1>13. Queries = Lists \union {"detail"} /\ "detail" \notin Lists
    BY DEF Queries, Lists
  <1>14. \A q \in Lists : ~Settled(q)' /\ query'[q].stage # "served"
    BY <1>1, <1>13, InvalidatedFacts, FetchFacts DEF Settled
  <1>15. query'["detail"] = query["detail"] /\ Answer("detail")' = Answer("detail") /\ Answer("detail") = row
    BY <1>1, <1>13, InvalidatedFacts DEF Answer
  <1>16. ASSUME ~behind', row' # None, events' = <<>>
         PROVE  /\ \A q \in Queries : query'[q].stage = "served" => query'[q].answer = Answer(q)'
                /\ Updates' = {} => \A q \in Queries : Settled(q)' => Right(q)'
    <2>1. query'["detail"].stage = "served" => query'["detail"].answer = Answer("detail")'
      BY <1>1, <1>13, <1>15, <1>16 DEF Fresh
    <2>2. Right("detail")'
      BY <1>1, <1>9, <1>15, <1>16 DEF Right
    <2> QED
      BY <1>13, <1>14, <2>1, <2>2
  <1>17. Fresh'
    BY <1>12, <1>16 DEF Fresh, RollbackBehind
  <1> QED
    BY <1>10, <1>11, <1>12, <1>17

\* An event has every copy fetched again: nothing that was shown before counts.
LEMMA ArrivesCard ==
    ASSUME CardInv, EventArrives
    PROVE  CardInv'
  <1> USE DEF CardInv
  <1>1. /\ events # <<>> /\ events' = Tail(events) /\ muts' = Marked("disturbed")
        /\ UNCHANGED <<row, page, reaction, behind>>
    BY DEF EventArrives
  <1>2. \A S : events \in Seq(S) => Tail(events) \in Seq(S) /\ Head(events) \in S
    BY <1>1
  <1>3. data' \in [Queries -> ShownMemo] /\ query' \in [Queries -> Fetches]
    <2>1. Invalidated(Lists, page) \in [Queries -> Fetches] /\ Invalidated(Queries, page) \in [Queries -> Fetches]
      BY InvalidatedFacts
    <2>2. [Invalidated(Lists, page) EXCEPT !["detail"] = Idle] \in [Queries -> Fetches]
      BY <2>1, FetchFacts
    <2>3. [data EXCEPT !["detail"] = Unloaded] \in [Queries -> ShownMemo] /\ data \in [Queries -> ShownMemo]
      BY DEF CardTypeOK, ShownMemo
    <2>4. CASE Head(events) = "delete"
      BY <2>2, <2>3, <2>4 DEF EventArrives
    <2>5. CASE Head(events) # "delete"
      BY <2>1, <2>3, <2>5 DEF EventArrives
    <2> QED
      BY <2>4, <2>5
  <1>4. /\ muts' \in Seq(Mutations) /\ \A i \in Updates' : muts'[i].patch \in Patches
        /\ Overlap'
    BY <1>1, MarkedKeeps
  <1>5. /\ Pending' = Pending /\ Updates' = Updates
        /\ \A i \in Pending : Tracked(i) /\ muts'[i].stage = muts[i].stage /\ muts'[i].disturbed
    BY <1>1, MarkMutations
  <1>6. CardTypeOK'
    BY <1>1, <1>2, <1>3, <1>4 DEF CardTypeOK
  <1>7. Deletion'
    BY <1>1, <1>2, <1>5 DEF Deletion, Tracked
  <1>8. Steady'
    BY <1>5, SteadyDisturbed DEF Updates
  <1>9. ASSUME row' # None
        PROVE  \A q \in Queries : query'[q].stage # "served" /\ ~Settled(q)'
    <2>1. Head(events) = "update"
      BY <1>1, <1>2, <1>9 DEF Deletion
    <2>2. \A q \in Queries : query'[q] = IF q = page' THEN Sent ELSE Stale
      BY <1>1, <2>1, InvalidatedFacts DEF EventArrives
    <2> QED
      BY <2>2, FetchFacts DEF Settled
  <1>10. Fresh'
    BY <1>9 DEF Fresh
  <1> QED
    BY <1>4, <1>6, <1>7, <1>8, <1>10

LEMMA EventLostCard ==
    ASSUME CardInv, EventLost
    PROVE  CardInv'
  <1>1. events # <<>> /\ events' = Tail(events) /\ behind' = TRUE
        /\ UNCHANGED <<row, page, data, query, muts, reaction>>
    BY DEF EventLost
  <1>2. \A S : events \in Seq(S) => Tail(events) \in Seq(S)
    BY <1>1
  <1>3. Pending' = Pending /\ Updates' = Updates /\ \A i \in Pending : Tracked(i)
    BY <1>1 DEF Pending, Updates, Tracked
  <1>4. CardTypeOK' /\ Deletion' /\ Overlap'
    BY <1>1, <1>2, <1>3, OverlapKept DEF CardInv, CardTypeOK, Deletion
  <1>5. Steady' /\ Fresh'
    BY <1>1, <1>3, SteadyKept, FreshGone DEF CardInv, Updates
  <1> QED
    BY <1>4, <1>5 DEF CardInv
-----------------------------------------------------------------------------
LEMMA InitCard == MutationInit => CardInv
  <1> SUFFICES ASSUME MutationInit
               PROVE  CardInv
    OBVIOUS
  <1>1. row \in MemoRows /\ ~row["archived"]
    BY DEF MutationInit, MemoRows, Fields
  <1>2. page \in {"home", "detail"} /\ page \in Queries
    BY DEF MutationInit, Queries
  <1>3. data = [q \in Queries |-> IF q = "archived" THEN Unloaded ELSE IF q = page THEN row ELSE Unloaded]
    BY DEF MutationInit
  <1>4. data \in [Queries -> ShownMemo] /\ data[page] = row /\ \A q \in Queries : q # page => data[q] = Unloaded
    BY <1>1, <1>2, <1>3 DEF ShownMemo, StoredMemo
  <1>5. query \in [Queries -> Fetches] /\ \A q \in Queries : query[q].stage = "idle"
    BY FetchFacts DEF MutationInit
  <1>6. muts = <<>> /\ muts \in Seq(Mutations) /\ Pending = {} /\ Updates = {}
    BY DEF MutationInit, Pending, Updates
  <1>7. events \in Seq({"update", "delete"}) /\ events \in Seq({"update"})
    BY DEF MutationInit
  <1>8. CardTypeOK
    BY <1>1, <1>2, <1>4, <1>5, <1>6, <1>7, FetchFacts DEF MutationInit, CardTypeOK, StoredMemo
  <1>9. Answer(page) = row
    BY <1>1, <1>2, MemoIsThere DEF Answer
  <1>10. \A q \in Queries : Right(q)
    BY <1>4, <1>9 DEF Right, Unseen
  <1>11. Deletion /\ Overlap /\ Fresh /\ Steady
    BY <1>5, <1>6, <1>7, <1>10 DEF Deletion, Overlap, Fresh, Steady
  <1> QED
    BY <1>8, <1>11 DEF CardInv

LEMMA NextCard == CardInv /\ [MutationNext]_mutationVars => CardInv'
  <1> SUFFICES ASSUME CardInv, [MutationNext]_mutationVars
               PROVE  CardInv'
    OBVIOUS
  <1>1. CASE Click
    BY <1>1, ClickCard
  <1>2. ASSUME NEW i \in Pending, Serve(i) \/ RequestLost(i) \/ Retry(i) \/ OnSuccess(i) \/ OnError(i)
        PROVE  CardInv'
    BY <1>2, ServeCard, AgainCard, SuccessCard, ErrorCard
  <1>3. ASSUME NEW q \in Queries, Show(q) \/ FetchServed(q) \/ FetchReply(q)
        PROVE  CardInv'
    BY <1>3, ShowCard, ServedCard, ReplyCard
  <1>4. CASE ServeReaction \/ ServeGet \/ ReactionDone \/ ReactionFails
    BY <1>4, ServeReactionCard, ReactionDoneCard
  <1>5. CASE ForeignUpdate \/ EventArrives \/ EventLost
    BY <1>5, ForeignCard, ArrivesCard, EventLostCard
  <1>6. CASE UNCHANGED mutationVars
    <2>1. UNCHANGED <<row, page, data, query, muts, events, behind>> /\ reaction' = reaction
      BY <1>6 DEF mutationVars
    <2> QED
      BY <2>1, ReactionRests DEF CardInv, CardTypeOK
  <1> QED
    BY <1>1, <1>2, <1>3, <1>4, <1>5, <1>6 DEF MutationNext

\* A click on a card shows at once and stays while it is the only one under way,
\* and when all is over the page shows the memo as it is stored (useUpdateMemo,
\* useDeleteMemo, useReactionActions), for any number of clicks, failures, lost
\* events and changes elsewhere, the named exceptions aside.
THEOREM CardsSettleAlways == MutationSpec => []CardsSettle
  <1>1. ASSUME CardInv, Quiet, ~behind, row # None
        PROVE  data[page] = Answer(page)
    <2>1. Updates = {} /\ events = <<>> /\ page \in Queries /\ query[page].stage \in {"idle", "stale"}
      BY <1>1 DEF Quiet, Updates, CardInv, CardTypeOK
    <2>2. Settled(page)
      BY <2>1 DEF Settled
    <2> QED
      BY <1>1, <2>1, <2>2 DEF CardInv, Fresh, Right, Unseen
  <1>2. CardInv => OptimisticStays
    BY DEF CardInv, Steady, OptimisticStays, Updates
  <1>3. CardInv => CardsSettle
    BY <1>1, <1>2 DEF CardsSettle, ShownIsStored
  <1> QED
    BY <1>3, InitCard, NextCard, PTL DEF MutationSpec

-----------------------------------------------------------------------------
(***************************************************************************)
(* NoteLinks.  Of the relations in the editor the ones to other notes that *)
(* are no comments are to notes that the user has linked, and every note   *)
(* linked has one, except the note that is commented on; the note itself   *)
(* is never linked, for before it has a name no search shows it, and       *)
(* afterwards the list leaves it out.                                      *)
(***************************************************************************)
RelationType == [memo : Memos \cup {NewMemo}, related : Memos, type : {"REFERENCE", "COMMENT"}]

LinksType ==
  /\ rows \subseteq RelationType /\ IsFiniteSet(rows)
  /\ relations \in Seq(RelationType)
  /\ memoName \in {NewMemo, Own} /\ parent \in {NewMemo} \cup (Memos \ {Own})
  /\ fetchedMemos \subseteq Memos
  /\ searches \in Seq(Texts) /\ searchText \in Texts
  /\ saved \in Nat

(* A stored relation is one of the note, a comment only to its parent, or  *)
(* one of another note to this one.                                        *)
IsRow(r) ==
  \/ r.memo = Own /\ r.related # Own /\ (r.type = "COMMENT" => r.related = parent)
  \/ r.memo # Own /\ r.related = Own

(* What a relation in the editor is.                                       *)
IsChosen(r) ==
  \/ r.related = Own
  \/ r.type = "COMMENT" /\ r.related = parent
  \/ r.type = "REFERENCE" /\ r.related \in linked

LinksInv ==
  /\ LinksType
  /\ memoName = NewMemo => Own \notin fetchedMemos
  /\ Own \notin linked
  /\ \A r \in rows : IsRow(r)
  /\ \A r \in Range(relations) : IsChosen(r)
  /\ \A m \in linked \ {parent} : \E r \in Range(relations) : r.related = m

\* An empty list has been stored for nobody.
LEMMA InitLinks == LinksInit => LinksInv
<1>. SUFFICES ASSUME LinksInit  PROVE LinksInv  OBVIOUS
<1>1. rows = {} /\ relations = <<>> /\ linked = {} /\ fetchedMemos = {}  BY DEF LinksInit
<1>2. IsFiniteSet({}) /\ Range(<<>>) = {}  BY FS_EmptySet DEF Range
<1>3. <<>> \in Seq(Texts) /\ <<>> \in Seq(RelationType)  OBVIOUS
<1>4. LinksType  BY <1>1, <1>2, <1>3, LinksAssumption DEF LinksInit, LinksType
<1>. QED  BY <1>1, <1>2, <1>4 DEF LinksInv

\* The search and its answers touch neither the list nor the rows.
LEMMA SearchLinks ==
  ASSUME LinksInv,
         \/ OpenLinks \/ CloseLinks \/ SearchSent
         \/ \E t \in Texts : TypeSearch(t)
         \/ \E i \in DOMAIN searches : SearchAnswered(i)
  PROVE  LinksInv'
<1>1. UNCHANGED <<rows, memoName, parent, relations, linked, saved>>
  BY DEF OpenLinks, CloseLinks, SearchSent, TypeSearch, SearchAnswered
<1>2. searchText' \in Texts /\ searches' \in Seq(Texts)
  <2>1. searches \in Seq(Texts) /\ searchText \in Texts  BY DEF LinksInv, LinksType
  <2>2. CASE OpenLinks \/ CloseLinks \/ (\E t \in Texts : TypeSearch(t))
    BY <2>1, <2>2, LinksAssumption DEF OpenLinks, CloseLinks, TypeSearch
  <2>3. CASE SearchSent  BY <2>1, <2>3 DEF SearchSent
  <2>4. ASSUME NEW i \in DOMAIN searches, SearchAnswered(i)  PROVE searchText' \in Texts /\ searches' \in Seq(Texts)
    <3>1. searches' = SubSeq(searches, 1, i - 1) \o SubSeq(searches, i + 1, Len(searches)) /\ searchText' = searchText
      BY <2>4 DEF SearchAnswered, RemoveAt
    <3>2. i \in 1..Len(searches) /\ Len(searches) \in Nat /\ \A k \in 1..Len(searches) : searches[k] \in Texts
      BY <2>1, LenProperties, ElementOfSeq
    <3>3. SubSeq(searches, 1, i - 1) \in Seq(Texts)  BY <2>1, <3>2, SubSeqProperties
    <3>4. SubSeq(searches, i + 1, Len(searches)) \in Seq(Texts)  BY <2>1, <3>2, SubSeqProperties
    <3>. QED  BY <2>1, <3>1, <3>3, <3>4, ConcatProperties
  <2>. QED  BY <2>2, <2>3, <2>4
<1>3. fetchedMemos' \subseteq Memos /\ (memoName = NewMemo => Own \notin fetchedMemos')
  <2>1. CASE OpenLinks \/ CloseLinks \/ SearchSent \/ (\E t \in Texts : TypeSearch(t))
    BY <2>1 DEF OpenLinks, CloseLinks, SearchSent, TypeSearch, LinksInv, LinksType
  <2>2. ASSUME NEW i \in DOMAIN searches, SearchAnswered(i)
        PROVE  fetchedMemos' \subseteq Memos /\ (memoName = NewMemo => Own \notin fetchedMemos')
    <3>1. searches[i] \in Texts  BY <2>2, ElementOfSeq, LenProperties DEF LinksInv, LinksType
    <3>. QED  BY <2>2, <3>1, LinksAssumption DEF SearchAnswered, LinksInv, LinksType
  <2>. QED  BY <2>1, <2>2
<1>4. \A r : IsRow(r)' <=> IsRow(r)  BY <1>1 DEF IsRow
<1>5. \A r : IsChosen(r)' <=> IsChosen(r)  BY <1>1 DEF IsChosen
<1>. QED  BY <1>1, <1>2, <1>3, <1>4, <1>5 DEF LinksInv, LinksType

\* Of the relations to a note uniqBy keeps one, and when the note is not the one
\* commented on, it is a link.
LEMMA AddsLink ==
  ASSUME LinksInv, NEW m \in Memos, AddLink(m)
  PROVE  LinksInv'
<1>1. /\ relations \in Seq(RelationType) /\ fetchedMemos \subseteq Memos
      /\ memoName \in {NewMemo, Own}
  BY DEF LinksInv, LinksType
<1>2. /\ m \in fetchedMemos /\ m # memoName /\ linked' = linked \cup {m}
      /\ UNCHANGED <<rows, memoName, parent, searches, searchText, fetchedMemos, saved>>
      /\ relations' = UniqByRelated(Append(relations, Relation(NewMemo, m, "REFERENCE")))
  BY DEF AddLink, Listed
<1>3. m # Own  BY <1>1, <1>2 DEF LinksInv
<1>4. PICK x : x = Relation(NewMemo, m, "REFERENCE")  OBVIOUS
<1>5. x \in RelationType /\ x.related = m /\ x.type = "REFERENCE"  BY <1>4 DEF Relation, RelationType
<1>6. PICK list : list = Append(relations, x)  OBVIOUS
<1>7. /\ list \in Seq(RelationType) /\ Len(relations) \in Nat /\ Len(list) = Len(relations) + 1
      /\ list[Len(relations) + 1] = x /\ \A i \in 1..Len(relations) : list[i] = relations[i]
  BY <1>1, <1>5, <1>6, AppendProperties, LenProperties
<1>8. DOMAIN relations = 1..Len(relations) /\ DOMAIN list = 1..(Len(relations) + 1)  BY <1>1, <1>7, LenProperties
<1>9. \A r \in Range(list) : r \in Range(relations) \/ r = x
  <2>1. ASSUME NEW i \in DOMAIN list  PROVE list[i] \in Range(relations) \/ list[i] = x
    <3>1. i \in 1..Len(relations) \/ i = Len(relations) + 1  BY <1>7, <1>8
    <3>. QED  BY <1>7, <1>8, <3>1 DEF Range
  <2>. QED  BY <2>1 DEF Range
<1>10. Range(relations) \subseteq Range(list) /\ x \in Range(list)
  <2>1. \A i \in DOMAIN relations : i \in DOMAIN list /\ relations[i] = list[i]  BY <1>7, <1>8
  <2>2. Len(relations) + 1 \in DOMAIN list  BY <1>7, <1>8
  <2>. QED  BY <1>7, <2>1, <2>2 DEF Range
<1>11. PICK key : key = [i \in DOMAIN list |-> list[i].related]  OBVIOUS
<1>12. relations' = UniqBy(list, key)  BY <1>2, <1>4, <1>6, <1>11 DEF UniqByRelated
<1>13. /\ relations' \in Seq(RelationType)
       /\ Range(relations') \subseteq Range(list)
       /\ \A i \in DOMAIN list : \E j \in DOMAIN list : key[j] = key[i] /\ list[j] \in Range(relations')
  BY <1>7, <1>12, UniqShows
<1>14. \A r \in Range(relations') : IsChosen(r)'
  <2>1. \A r \in Range(relations) : IsChosen(r)'  BY <1>2 DEF LinksInv, IsChosen
  <2>2. IsChosen(x)'  BY <1>2, <1>5 DEF IsChosen
  <2>. QED  BY <2>1, <2>2, <1>9, <1>13
<1>15. ASSUME NEW n \in linked' \ {parent'}  PROVE \E r \in Range(relations') : r.related = n
  <2>1. PICK r \in Range(list) : r.related = n
    <3>1. CASE n = m  BY <1>5, <1>10, <3>1
    <3>2. CASE n # m
      <4>1. \E r \in Range(relations) : r.related = n  BY <1>2, <1>15, <3>2 DEF LinksInv
      <4>. QED  BY <4>1, <1>10
    <3>. QED  BY <3>1, <3>2
  <2>2. PICK i \in DOMAIN list : list[i] = r  BY <2>1 DEF Range
  <2>3. PICK j \in DOMAIN list : key[j] = key[i] /\ list[j] \in Range(relations')  BY <1>13
  <2>4. list[j].related = n  BY <1>11, <2>1, <2>2, <2>3
  <2>. QED  BY <2>3, <2>4
<1>16. \A r : IsRow(r)' <=> IsRow(r)  BY <1>2 DEF IsRow
<1>17. LinksType'  BY <1>2, <1>13 DEF LinksInv, LinksType
<1>18. \A r \in rows' : IsRow(r)'  BY <1>2, <1>16 DEF LinksInv
<1>19. Own \notin linked' /\ (memoName' = NewMemo => Own \notin fetchedMemos')  BY <1>2, <1>3 DEF LinksInv
<1>. QED  BY <1>14, <1>15, <1>17, <1>18, <1>19 DEF LinksInv

\* Removing a link drops all relations to its note, and the note from the links.
LEMMA RemovesLink ==
  ASSUME LinksInv, NEW i \in EditorReferences, RemoveLink(i)
  PROVE  LinksInv'
<1>1. relations \in Seq(RelationType) /\ i \in DOMAIN relations  BY DEF LinksInv, LinksType, EditorReferences
<1>2. PICK m : m = relations[i].related  OBVIOUS
<1>3. PICK T : T = {r \in ToSet(relations) : r.related # m}  OBVIOUS
<1>4. /\ relations' = FilterBy(relations, T) /\ linked' = linked \ {m}
      /\ UNCHANGED <<rows, memoName, parent, searches, searchText, fetchedMemos, saved>>
  BY <1>2, <1>3 DEF RemoveLink
<1>5. relations' \in Seq(RelationType) /\ Range(relations') = Range(relations) \cap T
  BY <1>1, <1>4, FilterShows
<1>6. \A r : r \in Range(relations') <=> r \in Range(relations) /\ r.related # m
  BY <1>3, <1>5 DEF Range, ToSet
<1>7. \A r \in Range(relations') : IsChosen(r)'  BY <1>4, <1>6 DEF LinksInv, IsChosen
<1>8. \A n \in linked' \ {parent'} : \E r \in Range(relations') : r.related = n
  BY <1>4, <1>6 DEF LinksInv
<1>9. \A r : IsRow(r)' <=> IsRow(r)  BY <1>4 DEF IsRow
<1>10. LinksType'  BY <1>4, <1>5 DEF LinksInv, LinksType
<1>. QED  BY <1>4, <1>7, <1>8, <1>9, <1>10 DEF LinksInv

\* Another note's relation to this one is no link of it.
LEMMA OthersLinks ==
  ASSUME LinksInv, NEW m \in Memos, NEW type \in {"REFERENCE", "COMMENT"}, OthersLink(m, type)
  PROVE  LinksInv'
<1>1. /\ m # Own /\ rows' = rows \cup {Relation(m, Own, type)}
      /\ UNCHANGED <<memoName, parent, relations, linked, searches, searchText, fetchedMemos, saved>>
  BY DEF OthersLink
<1>2. PICK x : x = Relation(m, Own, type)  OBVIOUS
<1>3. x \in RelationType /\ x.memo = m /\ x.related = Own  BY <1>2, LinksAssumption DEF Relation, RelationType
<1>4. IsFiniteSet(rows')  BY <1>1, FS_AddElement DEF LinksInv, LinksType
<1>5. LinksType'  BY <1>1, <1>2, <1>3, <1>4 DEF LinksInv, LinksType
<1>6. \A r \in rows' : IsRow(r)'  BY <1>1, <1>2, <1>3 DEF LinksInv, IsRow
<1>7. \A r : IsChosen(r)' <=> IsChosen(r)  BY <1>1 DEF IsChosen
<1>. QED  BY <1>1, <1>5, <1>6, <1>7 DEF LinksInv

\* The rows after a save.
KeptRows == {r \in rows : r.memo # Own \/ r.type # "REFERENCE"}
SentLinks == {j \in DOMAIN relations : relations[j].related # Own /\ relations[j].type # "COMMENT"}
MadeRows == {Relation(Own, relations[j].related, "REFERENCE") : j \in SentLinks}
OfComment == IF memoName = NewMemo /\ parent # NewMemo THEN {Relation(Own, parent, "COMMENT")} ELSE {}

\* The rows of relations a save writes, by what was chosen.
LEMMA SavedRows ==
  ASSUME LinksInv, SaveLinks
  PROVE  /\ rows' = (KeptRows \cup MadeRows) \cup OfComment
         /\ rows' \subseteq RelationType /\ IsFiniteSet(rows')
         /\ \A r \in rows' : IsRow(r)
         /\ \A r \in MadeRows : r.memo = Own /\ r.type = "REFERENCE" /\ r.related \in linked
         /\ \A m \in linked \ {parent} : \E r \in MadeRows : r.related = m
<1>1. rows' = (KeptRows \cup MadeRows) \cup OfComment  BY DEF SaveLinks, SetMemoRelations, KeptRows, MadeRows, SentLinks, OfComment
<1>2. /\ rows \subseteq RelationType /\ IsFiniteSet(rows) /\ relations \in Seq(RelationType)
      /\ parent \in {NewMemo} \cup (Memos \ {Own})
  BY DEF LinksInv, LinksType
<1>3. DOMAIN relations = 1..Len(relations) /\ Len(relations) \in Nat  BY <1>2, LenProperties
<1>4. ASSUME NEW j \in SentLinks
      PROVE  /\ relations[j] \in RelationType /\ relations[j].related \in linked
             /\ relations[j].related # Own
  <2>1. j \in DOMAIN relations /\ relations[j] \in RelationType  BY <1>2, <1>3, ElementOfSeq DEF SentLinks
  <2>2. relations[j] \in Range(relations)  BY <2>1 DEF Range
  <2>3. IsChosen(relations[j])  BY <2>2 DEF LinksInv
  <2>. QED  BY <2>1, <2>3 DEF SentLinks, IsChosen
<1>5. ASSUME NEW r \in MadeRows
      PROVE  r \in RelationType /\ r.memo = Own /\ r.type = "REFERENCE" /\ r.related \in linked /\ r.related # Own
  <2>1. PICK j \in SentLinks : r = Relation(Own, relations[j].related, "REFERENCE")  BY DEF MadeRows
  <2>. QED  BY <2>1, <1>4, LinksAssumption DEF Relation, RelationType
<1>6. ASSUME NEW r \in OfComment
      PROVE  r \in RelationType /\ r.memo = Own /\ r.type = "COMMENT" /\ r.related = parent /\ r.related # Own
  <2>1. r = Relation(Own, parent, "COMMENT") /\ parent # NewMemo  BY DEF OfComment
  <2>. QED  BY <2>1, <1>2, LinksAssumption DEF Relation, RelationType
<1>7. IsFiniteSet(rows')
  <2>1. IsFiniteSet(KeptRows)  BY <1>2, FS_Subset DEF KeptRows
  <2>2. IsFiniteSet(OfComment)  BY FS_EmptySet, FS_Singleton DEF OfComment
  <2>3. IsFiniteSet(SentLinks)
    <3>1. IsFiniteSet(1..Len(relations))  BY <1>3, FS_Interval
    <3>. QED  BY <1>3, <3>1, FS_Subset DEF SentLinks
  <2>4. IsFiniteSet(MadeRows)
    <3>1. PICK f : f = [j \in SentLinks |-> Relation(Own, relations[j].related, "REFERENCE")]  OBVIOUS
    <3>2. f \in Surjection(SentLinks, MadeRows)  BY <3>1 DEF Surjection, MadeRows
    <3>. QED  BY <2>3, <3>2, FS_Surjection
  <2>. QED  BY <1>1, <2>1, <2>2, <2>4, FS_Union
<1>8. rows' \subseteq RelationType  BY <1>1, <1>2, <1>5, <1>6 DEF KeptRows
<1>9. \A r \in rows' : IsRow(r)
  <2>1. \A r \in KeptRows : IsRow(r)  BY DEF KeptRows, LinksInv
  <2>2. \A r \in MadeRows : IsRow(r)  BY <1>5 DEF IsRow
  <2>3. \A r \in OfComment : IsRow(r)  BY <1>6 DEF IsRow
  <2>. QED  BY <1>1, <2>1, <2>2, <2>3
<1>10. ASSUME NEW m \in linked \ {parent}  PROVE \E r \in MadeRows : r.related = m
  <2>1. PICK q \in Range(relations) : q.related = m  BY DEF LinksInv
  <2>2. PICK j \in DOMAIN relations : relations[j] = q  BY <2>1 DEF Range
  <2>3. IsChosen(q) /\ q.related # Own /\ q.related # parent  BY <2>1 DEF LinksInv
  <2>4. j \in SentLinks  BY <2>2, <2>3 DEF SentLinks, IsChosen
  <2>5. PICK r : r = Relation(Own, relations[j].related, "REFERENCE")  OBVIOUS
  <2>6. r \in MadeRows /\ r.related = m  BY <2>1, <2>2, <2>4, <2>5 DEF MadeRows, Relation
  <2>. QED  BY <2>6
<1>. QED  BY <1>1, <1>5, <1>7, <1>8, <1>9, <1>10

\* The list that is loaded has every row.
LEMMA LoadsAll ==
  ASSUME NEW rs, rs \subseteq RelationType, IsFiniteSet(rs)
  PROVE  LoadRelations(rs) \in Seq(RelationType) /\ Range(LoadRelations(rs)) = rs
<1>. DEFINE Some(own, type) == {r \in rs : (r.memo = Own) = own /\ r.type = type}
<1>1. ASSUME NEW own \in BOOLEAN, NEW type
      PROVE  SetToSeq(Some(own, type)) \in Seq(RelationType) /\ Range(SetToSeq(Some(own, type))) = Some(own, type)
  <2>1. PICK A : A = Some(own, type)  OBVIOUS
  <2>2. A \subseteq RelationType /\ IsFiniteSet(A)  BY <2>1, FS_Subset
  <2>3. SetToSeq(A) \in Seq(A) /\ Range(SetToSeq(A)) = A  BY <2>2, SetToSeqShows
  <2>. QED  BY <2>1, <2>2, <2>3
<1>2. PICK a : a = SetToSeq(Some(TRUE, "COMMENT"))  OBVIOUS
<1>3. PICK b : b = SetToSeq(Some(TRUE, "REFERENCE"))  OBVIOUS
<1>4. PICK c : c = SetToSeq(Some(FALSE, "COMMENT"))  OBVIOUS
<1>5. PICK d : d = SetToSeq(Some(FALSE, "REFERENCE"))  OBVIOUS
<1>6. LoadRelations(rs) = ((a \o b) \o c) \o d  BY <1>2, <1>3, <1>4, <1>5 DEF LoadRelations
<1>7. /\ a \in Seq(RelationType) /\ b \in Seq(RelationType) /\ c \in Seq(RelationType) /\ d \in Seq(RelationType)
      /\ Range(a) = Some(TRUE, "COMMENT") /\ Range(b) = Some(TRUE, "REFERENCE")
      /\ Range(c) = Some(FALSE, "COMMENT") /\ Range(d) = Some(FALSE, "REFERENCE")
  BY <1>1, <1>2, <1>3, <1>4, <1>5
<1>8. ASSUME NEW p \in Seq(RelationType), NEW q \in Seq(RelationType)
      PROVE  p \o q \in Seq(RelationType) /\ Range(p \o q) = Range(p) \cup Range(q)
  <2>1. p \o q \in Seq(RelationType)  BY ConcatProperties
  <2>. QED  BY <2>1, ConcatShows
<1>9. PICK ab : ab = a \o b  OBVIOUS
<1>10. PICK abc : abc = ab \o c  OBVIOUS
<1>11. ab \in Seq(RelationType) /\ Range(ab) = Range(a) \cup Range(b)  BY <1>7, <1>8, <1>9
<1>12. abc \in Seq(RelationType) /\ Range(abc) = Range(ab) \cup Range(c)  BY <1>7, <1>8, <1>10, <1>11
<1>13. abc \o d \in Seq(RelationType) /\ Range(abc \o d) = Range(abc) \cup Range(d)  BY <1>7, <1>8, <1>12
<1>14. LoadRelations(rs) = abc \o d  BY <1>6, <1>9, <1>10
<1>15. rs = ((Some(TRUE, "COMMENT") \cup Some(TRUE, "REFERENCE")) \cup Some(FALSE, "COMMENT")) \cup Some(FALSE, "REFERENCE")
  BY DEF RelationType
<1>. QED  BY <1>7, <1>11, <1>12, <1>13, <1>14, <1>15

\* A save, after which the editor loads what is stored.
LEMMA SavesLinks ==
  ASSUME LinksInv, SaveLinks
  PROVE  LinksInv'
<1>1. /\ memoName' = Own /\ saved' = saved + 1 /\ relations' = LoadRelations(rows')
      /\ UNCHANGED <<parent, linked, searches, searchText, fetchedMemos>>
  BY DEF SaveLinks
<1>2. /\ rows' = (KeptRows \cup MadeRows) \cup OfComment
      /\ rows' \subseteq RelationType /\ IsFiniteSet(rows')
      /\ \A r \in rows' : IsRow(r)
      /\ \A r \in MadeRows : r.memo = Own /\ r.type = "REFERENCE" /\ r.related \in linked
      /\ \A m \in linked \ {parent} : \E r \in MadeRows : r.related = m
  BY SavedRows
<1>3. relations' \in Seq(RelationType) /\ Range(relations') = rows'
  <2>1. PICK rs : rs = rows'  OBVIOUS
  <2>. QED  BY <1>1, <1>2, <2>1, LoadsAll
<1>4. \A r : (IsRow(r)' <=> IsRow(r)) /\ (IsChosen(r)' <=> IsChosen(r))  BY <1>1 DEF IsRow, IsChosen
<1>5. ASSUME NEW r \in Range(relations')  PROVE IsChosen(r)'
  <2>1. r \in rows' /\ IsRow(r) /\ r \in RelationType  BY <1>2, <1>3
  <2>2. CASE r \in MadeRows  BY <1>2, <1>4, <2>2 DEF IsChosen
  <2>3. CASE r \in KeptRows  BY <1>4, <2>1, <2>3 DEF IsChosen, IsRow, KeptRows, RelationType
  <2>4. CASE r \in OfComment  BY <1>4, <2>4 DEF IsChosen, OfComment, Relation
  <2>. QED  BY <1>2, <2>1, <2>2, <2>3, <2>4
<1>6. \A m \in linked' \ {parent'} : \E r \in Range(relations') : r.related = m
  BY <1>1, <1>2, <1>3
<1>7. LinksType'  BY <1>1, <1>2, <1>3 DEF LinksInv, LinksType
<1>8. memoName' # NewMemo  BY <1>1, LinksAssumption
<1>. QED  BY <1>1, <1>2, <1>3, <1>4, <1>5, <1>6, <1>7, <1>8 DEF LinksInv

\* Every step of the link picker keeps its invariant.
LEMMA NextLinks == LinksInv /\ [LinksNext]_linkVars => LinksInv'
<1>. SUFFICES ASSUME LinksInv, [LinksNext]_linkVars  PROVE LinksInv'  OBVIOUS
<1>1. CASE UNCHANGED linkVars
  <2>1. \A r : (IsRow(r)' <=> IsRow(r)) /\ (IsChosen(r)' <=> IsChosen(r))
    BY <1>1 DEF linkVars, IsRow, IsChosen
  <2>. QED  BY <1>1, <2>1 DEF linkVars, LinksInv, LinksType
<1>. QED  BY <1>1, SearchLinks, AddsLink, RemovesLink, OthersLinks, SavesLinks DEF LinksNext

\* A save stores the links of the user and no link to the note itself, and leaves
\* other notes' relations as they are (useLinkMemo.ts, RelationListV2.tsx,
\* setMemoRelationsInternal), for any notes, searches and numbers of links and
\* saves; the one exception is a comment's link to the note it comments on.
THEOREM SavesTheChosenLinks == LinksSpec => SavesChosenLinks
<1>. DEFINE Stores == saved' > saved => /\ References(rows') \subseteq linked
                                        /\ linked \subseteq References(rows') \cup {parent}
                                        /\ Own \notin References(rows')
                                        /\ {r \in rows' : r.memo # Own} = {r \in rows : r.memo # Own}
<1>1. ASSUME LinksInv, LinksNext, saved' > saved  PROVE SaveLinks
  <2>1. saved \in Nat  BY <1>1 DEF LinksInv, LinksType
  <2>2. saved' # saved  BY <1>1, <2>1
  <2>. QED
    BY <1>1, <2>2 DEF LinksNext, OpenLinks, CloseLinks, SearchSent, TypeSearch, SearchAnswered, AddLink, OthersLink,
                      RemoveLink
<1>2. ASSUME LinksInv, SaveLinks  PROVE Stores
  <2>1. /\ rows' = (KeptRows \cup MadeRows) \cup OfComment
        /\ \A r \in MadeRows : r.memo = Own /\ r.type = "REFERENCE" /\ r.related \in linked
        /\ \A m \in linked \ {parent} : \E r \in MadeRows : r.related = m
    BY <1>2, SavedRows
  <2>2. \A r \in OfComment : r.memo = Own /\ r.type = "COMMENT"  BY DEF OfComment, Relation
  <2>3. \A r : r \in rows' /\ r.memo = Own /\ r.type = "REFERENCE" <=> r \in MadeRows
    BY <2>1, <2>2 DEF KeptRows
  <2>4. \A m : m \in References(rows') <=> \E r \in MadeRows : r.related = m
    <3>1. \A m : m \in References(rows') <=> \E r \in rows' : r.memo = Own /\ r.type = "REFERENCE" /\ r.related = m
      BY DEF References
    <3>. QED  BY <2>3, <3>1
  <2>5. References(rows') \subseteq linked /\ linked \subseteq References(rows') \cup {parent}
    BY <2>1, <2>4
  <2>6. Own \notin References(rows')  BY <2>5, <1>2 DEF LinksInv
  <2>7. {r \in rows' : r.memo # Own} = {r \in rows : r.memo # Own}  BY <2>1, <2>2 DEF KeptRows
  <2>. QED  BY <2>5, <2>6, <2>7
<1>3. LinksInv /\ [LinksNext]_linkVars => [Stores]_linkVars  BY <1>1, <1>2
<1>. QED  BY <1>3, InitLinks, NextLinks, PTL DEF LinksSpec, SavesChosenLinks

(***************************************************************************)
(* EditorAttachments.  How files become items is the same for any list of  *)
(* files: each place of the list contributes its share to the items, and   *)
(* the shares are a partition of what is in the list.                      *)
(***************************************************************************)

(* Lists of one element each have what the list has.                       *)
LEMMA SinglesShow ==
  ASSUME NEW S, NEW s \in Seq(S), IsInjective(s)
  PROVE  Singles(s) \in Seq(Seq(S)) /\ Apart(Singles(s)) /\ Within(Singles(s)) = Range(s)
<1>1. PICK ss : ss = Singles(s)  OBVIOUS
<1>2. DOMAIN s = 1..Len(s) /\ Len(s) \in Nat /\ \A i \in DOMAIN s : s[i] \in S  BY LenProperties, ElementOfSeq
<1>3. DOMAIN ss = DOMAIN s /\ \A i \in DOMAIN s : ss[i] = <<s[i]>> /\ ss[i] \in Seq(S)  BY <1>1, <1>2 DEF Singles
<1>4. ss = [i \in 1..Len(s) |-> <<s[i]>>]  BY <1>1, <1>2 DEF Singles
<1>5. ss \in Seq(Seq(S))  BY <1>2, <1>3, <1>4
<1>6. \A x : IsInjective(<<x>>) /\ Range(<<x>>) = {x}  BY DEF IsInjective, Range
<1>7. \A i \in DOMAIN s : IsInjective(ss[i]) /\ Range(ss[i]) = {s[i]}  BY <1>3, <1>6
<1>8. Apart(ss)
  <2>1. \A i, j \in DOMAIN s : i # j => s[i] # s[j]  BY DEF IsInjective
  <2>. QED  BY <1>3, <1>7, <2>1 DEF Apart
<1>9. Within(ss) = Range(s)
  <2>1. \A x : x \in Within(ss) <=> \E i \in DOMAIN s : x \in Range(ss[i])  BY <1>3 DEF Within
  <2>2. \A x : x \in Range(s) <=> \E i \in DOMAIN s : x = s[i]  BY DEF Range
  <2>3. \A x, i : i \in DOMAIN s => (x \in Range(ss[i]) <=> x = s[i])  BY <1>7
  <2>4. \A x : x \in Within(ss) <=> x \in Range(s)  BY <2>1, <2>2, <2>3
  <2>. QED  BY <2>4
<1>. QED  BY <1>1, <1>5, <1>8, <1>9

(* One list by itself, and none.                                           *)
LEMMA OneShows ==
  ASSUME NEW S, NEW s \in Seq(S), IsInjective(s)
  PROVE  <<s>> \in Seq(Seq(S)) /\ Apart(<<s>>) /\ Within(<<s>>) = Range(s)
<1>1. PICK ss : ss = <<s>>  OBVIOUS
<1>2. DOMAIN ss = {1} /\ ss[1] = s /\ ss \in Seq(Seq(S))  BY <1>1
<1>3. Apart(ss)  BY <1>2 DEF Apart
<1>4. Within(ss) = Range(s)  BY <1>2 DEF Within
<1>. QED  BY <1>1, <1>2, <1>3, <1>4

LEMMA NoneShows ==
  ASSUME NEW S
  PROVE  <<>> \in Seq(Seq(S)) /\ Apart(<<>>) /\ Within(<<>>) = {}
<1>1. DOMAIN <<>> = {}  OBVIOUS
<1>. QED  BY <1>1 DEF Apart, Within

(* A complete live photo is its two files.                                 *)
LEMMA PairShows ==
  ASSUME NEW fs, NEW S \in SUBSET (DOMAIN fs), NEW group \in Seq(S), IsInjective(group), IsPair(fs, group)
  PROVE  Pair(fs, group) \in Seq(S) /\ IsInjective(Pair(fs, group)) /\ Range(Pair(fs, group)) = Range(group)
<1>1. PICK stills, clips : /\ stills = {f \in DOMAIN fs : fs[f].role = "still"}
                           /\ clips = {f \in DOMAIN fs : fs[f].role = "clip"}
  OBVIOUS
<1>2. PICK a, b : a = With(fs, group, "still") /\ b = With(fs, group, "clip")  OBVIOUS
<1>3. a = FilterBy(group, stills) /\ b = FilterBy(group, clips)  BY <1>1, <1>2 DEF With
<1>4. a \in Seq(S) /\ Range(a) = Range(group) \cap stills  BY <1>3, FilterShows
<1>5. b \in Seq(S) /\ Range(b) = Range(group) \cap clips  BY <1>3, FilterShows
<1>6. Len(group) = 2 /\ Len(a) = 1 /\ Len(b) = 1  BY <1>2 DEF IsPair
<1>7. stills \cap clips = {}  BY <1>1
<1>8. a \o b \in Seq(S) /\ Range(a \o b) = Range(a) \cup Range(b)  BY <1>4, <1>5, ConcatShows
<1>9. IsInjective(a) /\ IsInjective(b)
  <2>1. DOMAIN a = 1..1 /\ DOMAIN b = 1..1  BY <1>4, <1>5, <1>6, LenProperties
  <2>. QED  BY <2>1 DEF IsInjective
<1>10. IsInjective(a \o b)  BY <1>4, <1>5, <1>7, <1>9, ConcatShows
<1>11. Range(a) \cup Range(b) = Range(group)
  <2>1. DOMAIN a = 1..1 /\ DOMAIN b = 1..1 /\ DOMAIN group = 1..2  BY <1>4, <1>5, <1>6, LenProperties
  <2>2. a[1] \in Range(group) \cap stills /\ b[1] \in Range(group) \cap clips  BY <1>4, <1>5, <2>1 DEF Range
  <2>3. Range(group) = {group[1], group[2]}  BY <2>1 DEF Range
  <2>4. a[1] # b[1]  BY <1>7, <2>2
  <2>5. Range(group) = {a[1], b[1]}  BY <2>2, <2>3, <2>4
  <2>6. a[1] \in Range(a) /\ b[1] \in Range(b)  BY <2>1 DEF Range
  <2>. QED  BY <1>4, <1>5, <2>5, <2>6
<1>. QED  BY <1>2, <1>8, <1>10, <1>11 DEF Pair

(* The members of a group in a list.                                       *)
LEMMA InGroupShows ==
  ASSUME NEW fs, NEW S \in SUBSET (DOMAIN fs), NEW s \in Seq(S), IsInjective(s), NEW g
  PROVE  /\ InGroup(fs, s, g) \in Seq(S) /\ IsInjective(InGroup(fs, s, g))
         /\ Range(InGroup(fs, s, g)) = {f \in Range(s) : fs[f].group = g}
<1>1. PICK T : T = {f \in DOMAIN fs : fs[f].group = g}  OBVIOUS
<1>2. InGroup(fs, s, g) = FilterBy(s, T)  BY <1>1 DEF InGroup
<1>3. Range(s) \subseteq S  BY LenProperties, ElementOfSeq DEF Range
<1>4. Range(s) \cap T = {f \in Range(s) : fs[f].group = g}  BY <1>1, <1>3
<1>. QED  BY <1>2, <1>4, FilterShows

(* What a place of the list contributes to the items: its group where the  *)
(* group begins, itself when it has none.                                  *)
Share(fs, s, i) ==
  IF fs[s[i]].group = 0 THEN {s[i]}
  ELSE IF FirstOfGroup(fs, s, i) THEN {f \in Range(s) : fs[f].group = fs[s[i]].group} ELSE {}

(* No two places contribute the same, and together they contribute all.    *)
LEMMA SharesPartition ==
  ASSUME NEW fs, NEW S, NEW s \in Seq(S), IsInjective(s)
  PROVE  /\ \A i, j \in DOMAIN s : i # j => Share(fs, s, i) \cap Share(fs, s, j) = {}
         /\ UNION {Share(fs, s, i) : i \in DOMAIN s} = Range(s)
<1>1. DOMAIN s = 1..Len(s) /\ Len(s) \in Nat  BY LenProperties
<1>2. ASSUME NEW i \in DOMAIN s, NEW j \in DOMAIN s, i < j  PROVE Share(fs, s, i) \cap Share(fs, s, j) = {}
  <2>1. s[i] # s[j]  BY <1>1, <1>2 DEF IsInjective
  <2>2. CASE fs[s[i]].group = fs[s[j]].group
    <3>1. i \in 1..(j - 1)  BY <1>1, <1>2
    <3>2. ~FirstOfGroup(fs, s, j)  BY <2>2, <3>1 DEF FirstOfGroup
    <3>. QED  BY <2>1, <2>2, <3>2 DEF Share
  <2>3. CASE fs[s[i]].group # fs[s[j]].group
    <3>1. \A f \in Share(fs, s, i) : fs[f].group = fs[s[i]].group  BY DEF Share
    <3>2. \A f \in Share(fs, s, j) : fs[f].group = fs[s[j]].group  BY DEF Share
    <3>. QED  BY <2>3, <3>1, <3>2
  <2>. QED  BY <2>2, <2>3
<1>3. \A i, j \in DOMAIN s : i # j => i < j \/ j < i  BY <1>1
<1>4. ASSUME NEW i \in DOMAIN s  PROVE \E j \in DOMAIN s : s[i] \in Share(fs, s, j)
  <2>1. CASE fs[s[i]].group = 0  BY <2>1 DEF Share
  <2>2. CASE fs[s[i]].group # 0
    <3>1. PICK key : key = [j \in DOMAIN s |-> fs[s[j]].group]  OBVIOUS
    <3>2. PICK j \in 1..Len(s) : key[j] = key[i] /\ FirstAt(key, j)  BY <1>1, FirstWithKey
    <3>3. \A k \in 1..(j - 1) : k \in DOMAIN s  BY <1>1
    <3>4. FirstOfGroup(fs, s, j)  BY <1>1, <3>1, <3>2, <3>3 DEF FirstOfGroup, FirstAt
    <3>5. fs[s[i]].group = fs[s[j]].group /\ s[i] \in Range(s)  BY <1>1, <3>1, <3>2 DEF Range
    <3>. QED  BY <1>1, <2>2, <3>4, <3>5 DEF Share
  <2>. QED  BY <2>1, <2>2
<1>5. \A i \in DOMAIN s : Share(fs, s, i) \subseteq Range(s)  BY DEF Share, Range
<1>6. UNION {Share(fs, s, i) : i \in DOMAIN s} = Range(s)  BY <1>4, <1>5 DEF Range
<1>. QED  BY <1>2, <1>3, <1>6

(* What is shown at a place is what the place contributes.                 *)
LEMMA VisualItemsAtShow ==
  ASSUME NEW fs, NEW S \in SUBSET (DOMAIN fs), NEW s \in Seq(S), IsInjective(s), NEW i \in DOMAIN s
  PROVE  /\ VisualItemsAt(fs, s, i) \in Seq(Seq(S)) /\ Apart(VisualItemsAt(fs, s, i))
         /\ Within(VisualItemsAt(fs, s, i)) = Share(fs, s, i)
<1>1. PICK x, g : x = s[i] /\ g = fs[s[i]].group  OBVIOUS
<1>2. x \in S /\ x \in Range(s) /\ <<x>> \in Seq(S)  BY <1>1, LenProperties, ElementOfSeq DEF Range
<1>3. PICK group : group = InGroup(fs, s, g)  OBVIOUS
<1>4. group \in Seq(S) /\ IsInjective(group) /\ Range(group) = {f \in Range(s) : fs[f].group = g}
  BY <1>3, InGroupShows
<1>5. PICK others : others = FilterBy(group, ToSet(group) \ {x})  OBVIOUS
<1>6. others \in Seq(S) /\ IsInjective(others) /\ Range(others) = Range(group) \ {x}
  <2>1. ToSet(group) = Range(group)  BY DEF ToSet, Range
  <2>. QED  BY <1>4, <1>5, <2>1, FilterShows
<1>7. VisualItemsAt(fs, s, i) =
        IF g = 0 THEN <<<<x>>>> ELSE IF ~FirstOfGroup(fs, s, i) THEN <<>>
        ELSE IF IsPair(fs, group) THEN <<Pair(fs, group)>> ELSE <<<<x>>>> \o Singles(others)
  BY <1>1, <1>3, <1>5 DEF VisualItemsAt
<1>8. Share(fs, s, i) = IF g = 0 THEN {x} ELSE IF FirstOfGroup(fs, s, i) THEN Range(group) ELSE {}
  BY <1>1, <1>4 DEF Share
<1>9. IsInjective(<<x>>) /\ Range(<<x>>) = {x}  BY DEF IsInjective, Range
<1>10. <<<<x>>>> \in Seq(Seq(S)) /\ Apart(<<<<x>>>>) /\ Within(<<<<x>>>>) = {x}  BY <1>2, <1>9, OneShows
<1>11. CASE g = 0  BY <1>7, <1>8, <1>10, <1>11
<1>12. CASE g # 0 /\ ~FirstOfGroup(fs, s, i)  BY <1>7, <1>8, <1>12, NoneShows
<1>13. CASE g # 0 /\ FirstOfGroup(fs, s, i) /\ IsPair(fs, group)
  <2>1. PICK p : p = Pair(fs, group)  OBVIOUS
  <2>2. p \in Seq(S) /\ IsInjective(p) /\ Range(p) = Range(group)  BY <1>4, <1>13, <2>1, PairShows
  <2>3. <<p>> \in Seq(Seq(S)) /\ Apart(<<p>>) /\ Within(<<p>>) = Range(group)  BY <2>2, OneShows
  <2>. QED  BY <1>7, <1>8, <1>13, <2>1, <2>3
<1>14. CASE g # 0 /\ FirstOfGroup(fs, s, i) /\ ~IsPair(fs, group)
  <2>1. PICK p, q : p = <<<<x>>>> /\ q = Singles(others)  OBVIOUS
  <2>2. q \in Seq(Seq(S)) /\ Apart(q) /\ Within(q) = Range(group) \ {x}  BY <1>6, <2>1, SinglesShow
  <2>3. p \in Seq(Seq(S)) /\ Apart(p) /\ Within(p) = {x}  BY <1>10, <2>1
  <2>4. /\ Within(p \o q) = Within(p) \cup Within(q)
        /\ Apart(p) /\ Apart(q) /\ Within(p) \cap Within(q) = {} => Apart(p \o q)
    BY <2>2, <2>3, ConcatWithin
  <2>5. p \o q \in Seq(Seq(S))  BY <2>2, <2>3, ConcatProperties
  <2>6. x \in Range(group)  BY <1>1, <1>2, <1>4
  <2>7. Within(p \o q) = Range(group) /\ Apart(p \o q)  BY <2>2, <2>3, <2>4, <2>6
  <2>. QED  BY <1>7, <1>8, <1>14, <2>1, <2>5, <2>7
<1>. QED  BY <1>11, <1>12, <1>13, <1>14

(* The items of a list of files show each of them once.                    *)
LEMMA VisualItemsShow ==
  ASSUME NEW fs, NEW S \in SUBSET (DOMAIN fs), NEW s \in Seq(S), IsInjective(s)
  PROVE  /\ VisualItems(fs, s) \in Seq(Seq(S)) /\ Apart(VisualItems(fs, s))
         /\ Within(VisualItems(fs, s)) = Range(s)
<1>1. PICK sss : sss = [i \in DOMAIN s |-> VisualItemsAt(fs, s, i)]  OBVIOUS
<1>2. DOMAIN s = 1..Len(s) /\ Len(s) \in Nat  BY LenProperties
<1>3. \A i \in DOMAIN s : sss[i] \in Seq(Seq(S)) /\ Apart(sss[i]) /\ Within(sss[i]) = Share(fs, s, i)
  BY <1>1, VisualItemsAtShow
<1>4. sss \in Seq(Seq(Seq(S))) /\ DOMAIN sss = DOMAIN s  BY <1>1, <1>2, <1>3
<1>5. VisualItems(fs, s) = FlattenSeq(sss)  BY <1>1 DEF VisualItems
<1>6. /\ FlattenSeq(sss) \in Seq(Seq(S))
      /\ Within(FlattenSeq(sss)) = UNION {Within(sss[i]) : i \in DOMAIN sss}
      /\ /\ \A i \in DOMAIN sss : Apart(sss[i])
         /\ \A i, j \in DOMAIN sss : i # j => Within(sss[i]) \cap Within(sss[j]) = {}
         => Apart(FlattenSeq(sss))
  BY <1>4, FlattenApart
<1>7. /\ \A i, j \in DOMAIN s : i # j => Share(fs, s, i) \cap Share(fs, s, j) = {}
      /\ UNION {Share(fs, s, i) : i \in DOMAIN s} = Range(s)
  BY SharesPartition
<1>8. UNION {Within(sss[i]) : i \in DOMAIN sss} = Range(s)
  <2>1. {Within(sss[i]) : i \in DOMAIN sss} = {Share(fs, s, i) : i \in DOMAIN s}  BY <1>3, <1>4
  <2>. QED  BY <1>7, <2>1
<1>9. \A i, j \in DOMAIN sss : i # j => Within(sss[i]) \cap Within(sss[j]) = {}  BY <1>3, <1>4, <1>7
<1>. QED  BY <1>3, <1>4, <1>5, <1>6, <1>8, <1>9

----------------------------------------------------------------------------
(* The list of the editor.                                                 *)

(* Items that change places show what they showed.                         *)
LEMMA SwappedShows ==
  ASSUME NEW S, NEW items \in Seq(Seq(S)), Apart(items), NEW i \in DOMAIN items, NEW j \in DOMAIN items
  PROVE  /\ Rewritten(Swapped(items, i, j)) \in Seq(S) /\ IsInjective(Rewritten(Swapped(items, i, j)))
         /\ Range(Rewritten(Swapped(items, i, j))) = Within(items)
<1>1. PICK swapped : swapped = Swapped(items, i, j)  OBVIOUS
<1>2. DOMAIN items = 1..Len(items) /\ Len(items) \in Nat /\ \A k \in DOMAIN items : items[k] \in Seq(S)
  BY LenProperties, ElementOfSeq
<1>3. DOMAIN swapped = DOMAIN items
      /\ \A k \in DOMAIN items : swapped[k] = IF k = j THEN items[i] ELSE IF k = i THEN items[j] ELSE items[k]
  BY <1>1 DEF Swapped
<1>4. PICK to : to = [k \in DOMAIN items |-> IF k = j THEN i ELSE IF k = i THEN j ELSE k]  OBVIOUS
<1>5. /\ \A k \in DOMAIN items : to[k] \in DOMAIN items /\ swapped[k] = items[to[k]] /\ to[to[k]] = k
      /\ \A k, l \in DOMAIN items : k # l => to[k] # to[l]
  BY <1>3, <1>4
<1>6. swapped \in Seq(Seq(S))
  <2>1. swapped = [k \in 1..Len(items) |-> swapped[k]]  BY <1>1, <1>2 DEF Swapped
  <2>2. \A k \in 1..Len(items) : swapped[k] \in Seq(S)  BY <1>2, <1>5
  <2>. QED  BY <1>2, <2>1, <2>2
<1>7. Apart(swapped)
  <2>1. \A k \in DOMAIN items : IsInjective(items[k])  BY DEF Apart
  <2>2. \A k, l \in DOMAIN items : k # l => Range(items[k]) \cap Range(items[l]) = {}  BY DEF Apart
  <2>3. \A k \in DOMAIN items : IsInjective(swapped[k])  BY <1>5, <2>1
  <2>4. ASSUME NEW k \in DOMAIN items, NEW l \in DOMAIN items, k # l
        PROVE  Range(swapped[k]) \cap Range(swapped[l]) = {}
    <3>0. to[k] \in DOMAIN items /\ to[l] \in DOMAIN items /\ to[k] # to[l]  BY <1>5, <2>4
    <3>1. PICK a \in DOMAIN items, b \in DOMAIN items : a = to[k] /\ b = to[l] /\ a # b  BY <3>0
    <3>2. swapped[k] = items[a] /\ swapped[l] = items[b]  BY <1>5, <3>1
    <3>. QED  BY <2>2, <3>1, <3>2
  <2>. QED  BY <1>3, <2>3, <2>4 DEF Apart
<1>8. Within(swapped) = Within(items)
  <2>1. \A x : x \in Within(swapped) <=> \E k \in DOMAIN items : x \in Range(swapped[k])  BY <1>3 DEF Within
  <2>2. \A x : x \in Within(items) <=> \E k \in DOMAIN items : x \in Range(items[k])  BY DEF Within
  <2>3. ASSUME NEW x, x \in Within(swapped)  PROVE x \in Within(items)
    <3>1. PICK k \in DOMAIN items : x \in Range(swapped[k])  BY <2>1, <2>3
    <3>2. to[k] \in DOMAIN items /\ swapped[k] = items[to[k]]  BY <1>5
    <3>. QED  BY <2>2, <3>1, <3>2
  <2>4. ASSUME NEW x, x \in Within(items)  PROVE x \in Within(swapped)
    <3>1. PICK k \in DOMAIN items : x \in Range(items[k])  BY <2>2, <2>4
    <3>2. to[k] \in DOMAIN items /\ swapped[to[k]] = items[k]  BY <1>5
    <3>. QED  BY <2>1, <3>1, <3>2
  <2>. QED  BY <2>3, <2>4
<1>9. Rewritten(swapped) = FlattenSeq(swapped)
  <2>1. [k \in DOMAIN swapped |-> Members(swapped[k])] = [k \in 1..Len(items) |-> swapped[k]]
    BY <1>2, <1>3 DEF Members
  <2>2. swapped = [k \in 1..Len(items) |-> swapped[k]]  BY <1>1, <1>2 DEF Swapped
  <2>. QED  BY <2>1, <2>2 DEF Rewritten
<1>10. /\ FlattenSeq(swapped) \in Seq(S) /\ Range(FlattenSeq(swapped)) = Within(swapped)
       /\ Apart(swapped) => IsInjective(FlattenSeq(swapped))
  BY <1>6, FlattenShows, FlattenType
<1>. QED  BY <1>1, <1>7, <1>8, <1>9, <1>10

FileType == [kind : {"image", "psd", "video", "audio", "document"}, stem : Nat, group : Nat,
             role : {"none", "still", "clip", "container"}]

(* The files are those of the pool and those picked, in the order they     *)
(* came; each is in one place of the note, attached or local, unless the   *)
(* user removed it or a move dropped it.  While the dialog of the preview  *)
(* is open nothing is saved, and it shows what was clicked.                *)
MediaInv ==
  /\ files \in Seq(FileType)
  /\ attachments \in Seq(DOMAIN files) /\ IsInjective(attachments)
  /\ localFiles \in Seq(DOMAIN files) /\ IsInjective(localFiles)
  /\ Range(attachments) \cap Range(localFiles) = {}
  /\ wanted \subseteq DOMAIN files
  /\ InNote \subseteq wanted
  /\ \A f \in wanted \ InNote : files[f].kind = "psd"
  /\ preview \in [open : BOOLEAN, index : Nat] /\ upload \in [on : BOOLEAN, done : Nat]
  /\ preview.open => ~upload.on
  /\ PreviewShowsClicked

(* The items of the attachments show all of them but Photoshop files.      *)
LEMMA AttachmentItemsShow ==
  ASSUME MediaInv
  PROVE  /\ AttachmentItems \in Seq(Seq(DOMAIN files)) /\ Apart(AttachmentItems)
         /\ Within(AttachmentItems) \subseteq Range(attachments)
         /\ \A f \in Range(attachments) \ Within(AttachmentItems) : files[f].kind = "psd"
<1>1. PICK F, V, O : /\ F = DOMAIN files /\ V = Visuals(files)
                     /\ O = OfKind(files, {"audio", "document"}) \ Visuals(files)
  OBVIOUS
<1>2. PICK s \in Seq(F) : s = attachments /\ IsInjective(s)  BY <1>1 DEF MediaInv
<1>3. PICK v, o : v = FilterBy(s, V) /\ o = FilterBy(s, O)  OBVIOUS
<1>4. v \in Seq(F) /\ Range(v) = Range(s) \cap V /\ IsInjective(v)  BY <1>2, <1>3, FilterShows
<1>5. o \in Seq(F) /\ Range(o) = Range(s) \cap O /\ IsInjective(o)  BY <1>2, <1>3, FilterShows
<1>6. F \in SUBSET (DOMAIN files)  BY <1>1
<1>7. PICK p : p = VisualItems(files, v)  OBVIOUS
<1>8. p \in Seq(Seq(F)) /\ Apart(p) /\ Within(p) = Range(v)  BY <1>4, <1>6, <1>7, VisualItemsShow
<1>9. PICK q : q = Singles(o)  OBVIOUS
<1>10. q \in Seq(Seq(F)) /\ Apart(q) /\ Within(q) = Range(o)  BY <1>5, <1>9, SinglesShow
<1>11. AttachmentItems = p \o q  BY <1>1, <1>2, <1>3, <1>7, <1>9 DEF AttachmentItems
<1>12. Within(p) \cap Within(q) = {}  BY <1>1, <1>4, <1>5, <1>8, <1>10
<1>13. /\ Within(p \o q) = Within(p) \cup Within(q)
       /\ Apart(p) /\ Apart(q) /\ Within(p) \cap Within(q) = {} => Apart(p \o q)
  BY <1>8, <1>10, ConcatWithin
<1>14. p \o q \in Seq(Seq(F))  BY <1>8, <1>10, ConcatProperties
<1>15. \A f \in Range(s) : f \in F
  BY <1>2, LenProperties, ElementOfSeq DEF Range
<1>16. ASSUME NEW f \in F, f \notin V, f \notin O  PROVE files[f].kind = "psd"
  <2>1. files[f] \in FileType  BY <1>1, LenProperties, ElementOfSeq DEF MediaInv
  <2>2. files[f].kind \notin {"image", "video", "audio", "document"}  BY <1>1, <1>16 DEF Visuals, OfKind
  <2>. QED  BY <2>1, <2>2 DEF FileType
<1>17. Within(p \o q) = Range(s) \cap (V \cup O)  BY <1>4, <1>5, <1>8, <1>10, <1>13
<1>. QED  BY <1>1, <1>2, <1>8, <1>10, <1>11, <1>12, <1>13, <1>14, <1>15, <1>16, <1>17

(* What a place of the local files contributes to the first part of their  *)
(* items.                                                                  *)
LEMMA LocalItemsAtShow ==
  ASSUME NEW S \in SUBSET (DOMAIN files), NEW s \in Seq(S), IsInjective(s), NEW i \in DOMAIN s
  PROVE  /\ LocalItemsAt(s, i) \in Seq(Seq(S)) /\ Apart(LocalItemsAt(s, i))
         /\ Within(LocalItemsAt(s, i)) = {f \in Share(files, s, i) : files[f].group # 0}
<1>1. PICK g : g = files[s[i]].group  OBVIOUS
<1>2. PICK fs : fs = files /\ S \in SUBSET (DOMAIN fs)  OBVIOUS
<1>3. PICK group : group = InGroup(fs, s, g)  OBVIOUS
<1>4. group \in Seq(S) /\ IsInjective(group) /\ Range(group) = {f \in Range(s) : fs[f].group = g}
  BY <1>2, <1>3, InGroupShows
<1>5. LocalItemsAt(s, i) =
        IF g = 0 \/ ~FirstOfGroup(fs, s, i) THEN <<>>
        ELSE IF IsPair(fs, group) THEN <<Pair(fs, group)>> ELSE Singles(group)
  BY <1>1, <1>2, <1>3 DEF LocalItemsAt
<1>6. {f \in Share(fs, s, i) : fs[f].group # 0} =
        IF g = 0 \/ ~FirstOfGroup(fs, s, i) THEN {} ELSE Range(group)
  BY <1>1, <1>2, <1>4 DEF Share
<1>7. CASE g = 0 \/ ~FirstOfGroup(fs, s, i)  BY <1>2, <1>5, <1>6, <1>7, NoneShows
<1>8. CASE g # 0 /\ FirstOfGroup(fs, s, i) /\ IsPair(fs, group)
  <2>1. PICK p : p = Pair(fs, group)  OBVIOUS
  <2>2. p \in Seq(S) /\ IsInjective(p) /\ Range(p) = Range(group)  BY <1>2, <1>4, <1>8, <2>1, PairShows
  <2>3. <<p>> \in Seq(Seq(S)) /\ Apart(<<p>>) /\ Within(<<p>>) = Range(group)  BY <2>2, OneShows
  <2>. QED  BY <1>2, <1>5, <1>6, <1>8, <2>1, <2>3
<1>9. CASE g # 0 /\ FirstOfGroup(fs, s, i) /\ ~IsPair(fs, group)
  <2>1. Singles(group) \in Seq(Seq(S)) /\ Apart(Singles(group)) /\ Within(Singles(group)) = Range(group)
    BY <1>4, SinglesShow
  <2>. QED  BY <1>2, <1>5, <1>6, <1>9, <2>1
<1>. QED  BY <1>7, <1>8, <1>9

(* The items of the local files show all of them.                          *)
LEMMA LocalItemsShow ==
  ASSUME MediaInv
  PROVE  /\ LocalItems \in Seq(Seq(DOMAIN files)) /\ Apart(LocalItems)
         /\ Within(LocalItems) = Range(localFiles)
<1>1. PICK F : F = DOMAIN files /\ F \in SUBSET (DOMAIN files)  OBVIOUS
<1>2. PICK s \in Seq(F) : s = localFiles /\ IsInjective(s)  BY <1>1 DEF MediaInv
<1>3. PICK sss : sss = [i \in DOMAIN s |-> LocalItemsAt(s, i)]  OBVIOUS
<1>. DEFINE Part(i) == {f \in Share(files, s, i) : files[f].group # 0}
<1>4. DOMAIN s = 1..Len(s) /\ Len(s) \in Nat  BY LenProperties
<1>5. \A i \in DOMAIN s : sss[i] \in Seq(Seq(F)) /\ Apart(sss[i]) /\ Within(sss[i]) = Part(i)
  BY <1>1, <1>2, <1>3, LocalItemsAtShow
<1>6. sss \in Seq(Seq(Seq(F))) /\ DOMAIN sss = DOMAIN s  BY <1>3, <1>4, <1>5
<1>7. PICK p : p = FlattenSeq(sss)  OBVIOUS
<1>8. /\ p \in Seq(Seq(F)) /\ Within(p) = UNION {Within(sss[i]) : i \in DOMAIN sss}
      /\ /\ \A i \in DOMAIN sss : Apart(sss[i])
         /\ \A i, j \in DOMAIN sss : i # j => Within(sss[i]) \cap Within(sss[j]) = {}
         => Apart(p)
  BY <1>6, <1>7, FlattenApart
<1>9. /\ \A i, j \in DOMAIN s : i # j => Share(files, s, i) \cap Share(files, s, j) = {}
      /\ UNION {Share(files, s, i) : i \in DOMAIN s} = Range(s)
  BY <1>2, SharesPartition
<1>10. Apart(p)
  <2>1. \A i, j \in DOMAIN s : i # j => Part(i) \cap Part(j) = {}  BY <1>9
  <2>. HIDE DEF Part
  <2>. QED  BY <1>5, <1>6, <1>8, <2>1
<1>11. Within(p) = {f \in Range(s) : files[f].group # 0}
  <2>1. \A f : f \in Within(p) <=> \E i \in DOMAIN s : f \in Within(sss[i])  BY <1>6, <1>8
  <2>2. \A f : f \in Range(s) <=> \E i \in DOMAIN s : f \in Share(files, s, i)  BY <1>9
  <2>3. \A f, i : i \in DOMAIN s => (f \in Within(sss[i]) <=> f \in Share(files, s, i) /\ files[f].group # 0)
    BY <1>5
  <2>. QED  BY <2>1, <2>2, <2>3
<1>12. PICK rest : rest = InGroup(files, s, 0)  OBVIOUS
<1>13. rest \in Seq(F) /\ IsInjective(rest) /\ Range(rest) = {f \in Range(s) : files[f].group = 0}
  BY <1>1, <1>2, <1>12, InGroupShows
<1>14. PICK q : q = Singles(rest)  OBVIOUS
<1>15. q \in Seq(Seq(F)) /\ Apart(q) /\ Within(q) = Range(rest)  BY <1>13, <1>14, SinglesShow
<1>16. Within(p) \cap Within(q) = {} /\ Within(p) \cup Within(q) = Range(s)  BY <1>11, <1>13, <1>15
<1>17. Within(p \o q) = Within(p) \cup Within(q)
       /\ (Apart(p) /\ Apart(q) /\ Within(p) \cap Within(q) = {} => Apart(p \o q))
  BY <1>8, <1>15, ConcatWithin
<1>18. p \o q \in Seq(Seq(F))  BY <1>8, <1>15, ConcatProperties
<1>19. LocalItems = p \o q  BY <1>2, <1>3, <1>7, <1>12, <1>14 DEF LocalItems
<1>. QED  BY <1>1, <1>2, <1>10, <1>15, <1>16, <1>17, <1>18, <1>19

----------------------------------------------------------------------------
(* Steps.                                                                  *)

LEMMA InitMedia == MediaInit => MediaInv
<1>. SUFFICES ASSUME MediaInit  PROVE MediaInv  OBVIOUS
<1>1. /\ files = StoredPool /\ localFiles = <<>> /\ preview = Closed /\ upload = NoUpload
      /\ wanted = ToSet(attachments)
  BY DEF MediaInit
<1>2. StoredPool \in Seq(FileType) /\ DOMAIN StoredPool = 1..6
  BY DEF StoredPool, FileType, File
<1>3. PICK S : attachments = Pick([f \in DOMAIN StoredPool |-> f], S)  BY DEF MediaInit
<1>4. PICK all : all = [f \in 1..6 |-> f]  OBVIOUS
<1>5. all \in Seq(1..6) /\ DOMAIN all = 1..6 /\ \A i \in 1..6 : all[i] = i  BY <1>4
<1>6. attachments = Pick(all, S)  BY <1>2, <1>3, <1>4
<1>7. /\ attachments \in Seq(1..6) /\ Range(attachments) = {all[i] : i \in (DOMAIN all) \cap S}
      /\ (\A i, j \in (DOMAIN all) \cap S : all[i] = all[j] => i = j) => IsInjective(attachments)
  <2>1. PICK F, s : F = 1..6 /\ s = all /\ s \in Seq(F)  BY <1>5
  <2>2. /\ Pick(s, S) \in Seq(F) /\ Range(Pick(s, S)) = {s[i] : i \in (DOMAIN s) \cap S}
        /\ (\A i, j \in (DOMAIN s) \cap S : s[i] = s[j] => i = j) => IsInjective(Pick(s, S))
    BY <2>1, PickShows
  <2>. QED  BY <1>6, <2>1, <2>2
<1>8. IsInjective(attachments) /\ Range(attachments) \subseteq 1..6  BY <1>5, <1>7
<1>9. localFiles \in Seq(DOMAIN files) /\ IsInjective(localFiles) /\ Range(localFiles) = {} /\ ToSet(localFiles) = {}
  BY <1>1 DEF IsInjective, Range, ToSet
<1>10. ToSet(attachments) = Range(attachments)  BY DEF ToSet, Range
<1>11. InNote = wanted  BY <1>1, <1>9 DEF InNote
<1>12. preview \in [open : BOOLEAN, index : Nat] /\ upload \in [on : BOOLEAN, done : Nat] /\ ~preview.open
  BY <1>1 DEF Closed, NoUpload
<1>. QED  BY <1>1, <1>2, <1>7, <1>8, <1>9, <1>10, <1>11, <1>12 DEF MediaInv, PreviewShowsClicked

(* A step that leaves files and lists as they are.                         *)
LEMMA ListsStay ==
  ASSUME MediaInv, UNCHANGED <<files, attachments, localFiles, wanted>>,
         (preview \in [open : BOOLEAN, index : Nat])', (upload \in [on : BOOLEAN, done : Nat])',
         (preview.open => ~upload.on)', PreviewShowsClicked'
  PROVE  MediaInv'
<1>1. InNote' = InNote  BY DEF InNote
<1>. QED  BY <1>1 DEF MediaInv

(* A step that changes them while no preview is open.                      *)
LEMMA ListsChange ==
  ASSUME MediaInv, preview' = preview, ~preview.open, (upload \in [on : BOOLEAN, done : Nat])',
         files' \in Seq(FileType),
         attachments' \in Seq(DOMAIN files'), IsInjective(attachments'),
         localFiles' \in Seq(DOMAIN files'), IsInjective(localFiles'),
         Range(attachments') \cap Range(localFiles') = {},
         wanted' \subseteq DOMAIN files',
         Range(attachments') \cup Range(localFiles') \subseteq wanted',
         \A f \in wanted' \ (Range(attachments') \cup Range(localFiles')) : files'[f].kind = "psd"
  PROVE  MediaInv'
<1>1. InNote' = Range(attachments') \cup Range(localFiles')  BY DEF InNote, ToSet, Range
<1>2. ~preview'.open /\ preview' \in [open : BOOLEAN, index : Nat]  BY DEF MediaInv
<1>. QED  BY <1>1, <1>2 DEF MediaInv, PreviewShowsClicked

LEMMA NoteIs == InNote = Range(attachments) \cup Range(localFiles)
BY DEF InNote, ToSet, Range

(* Files come after those there are, and all of them are wanted.           *)
LEMMA AddsFiles ==
  ASSUME MediaInv, NEW n \in Nat, NEW batch, DOMAIN batch = 1..n, NEW new \in Seq(FileType), Len(new) = n,
         AddFiles(batch, new)
  PROVE  MediaInv'
<1>1. PICK l \in Nat : l = Len(files)  BY LenProperties DEF MediaInv
<1>2. PICK ids : ids = NewIds(batch)  OBVIOUS
<1>3. ids = [i \in 1..n |-> l + i]  BY <1>1, <1>2 DEF NewIds
<1>4. /\ files' = files \o new /\ localFiles' = localFiles \o ids /\ attachments' = attachments
      /\ wanted' = wanted \cup ToSet(ids) /\ UNCHANGED <<preview, upload>> /\ ~preview.open
  BY <1>2 DEF AddFiles
<1>5. /\ files' \in Seq(FileType) /\ Len(files') = l + n
      /\ \A i \in 1..(l + n) : files'[i] = IF i <= l THEN files[i] ELSE new[i - l]
  <2>1. PICK fs \in Seq(FileType) : fs = files  BY DEF MediaInv
  <2>2. /\ fs \o new \in Seq(FileType) /\ Len(fs \o new) = Len(fs) + Len(new)
        /\ \A i \in 1..(Len(fs) + Len(new)) : (fs \o new)[i] = IF i <= Len(fs) THEN fs[i] ELSE new[i - Len(fs)]
    BY ConcatProperties
  <2>. QED  BY <1>1, <1>4, <2>1, <2>2
<1>6. DOMAIN files = 1..l /\ DOMAIN files' = 1..(l + n)  BY <1>1, <1>5, LenProperties DEF MediaInv
<1>7. PICK F, G : F = DOMAIN files /\ G = DOMAIN files' /\ F \subseteq G  BY <1>6
<1>8. PICK a, s : a = attachments /\ s = localFiles  OBVIOUS
<1>9. /\ a \in Seq(F) /\ IsInjective(a) /\ s \in Seq(F) /\ IsInjective(s) /\ Range(a) \cap Range(s) = {}
      /\ Range(a) \subseteq F /\ Range(s) \subseteq F
  <2>1. /\ a \in Seq(F) /\ IsInjective(a) /\ s \in Seq(F) /\ IsInjective(s) /\ Range(a) \cap Range(s) = {}
    BY <1>7, <1>8 DEF MediaInv
  <2>. QED  BY <2>1, RangeOfSeq
<1>10. a \in Seq(G) /\ s \in Seq(G)  BY <1>7, <1>9, SeqWidens
<1>11. ids \in Seq(G) /\ IsInjective(ids) /\ Range(ids) \cap F = {} /\ Range(ids) \subseteq G
  <2>1. \A i \in 1..n : l + i \in G /\ l + i \notin F  BY <1>6, <1>7
  <2>2. IsInjective(ids)
    <3>1. DOMAIN ids = 1..n /\ \A i \in 1..n : ids[i] = l + i  BY <1>3
    <3>2. \A i, j \in 1..n : l + i = l + j => i = j  OBVIOUS
    <3>. QED  BY <3>1, <3>2 DEF IsInjective
  <2>3. ids \in Seq(G)
    <3>1. PICK num : num = [i \in 1..n |-> l + i]  OBVIOUS
    <3>2. \A i \in 1..n : num[i] \in G  BY <2>1, <3>1
    <3>3. num = [i \in 1..n |-> num[i]]  BY <3>1
    <3>. QED  BY <1>3, <3>1, <3>2, <3>3
  <2>4. Range(ids) = {l + i : i \in 1..n}  BY <1>3 DEF Range
  <2>. QED  BY <2>1, <2>2, <2>3, <2>4
<1>12. s \o ids \in Seq(G) /\ Range(s \o ids) = Range(s) \cup Range(ids) /\ IsInjective(s \o ids)
  <2>1. s \o ids \in Seq(G)  BY <1>10, <1>11, ConcatProperties
  <2>2. Range(s) \cap Range(ids) = {}  BY <1>9, <1>11
  <2>. QED  BY <1>9, <1>10, <1>11, <2>1, <2>2, ConcatShows
<1>13. Range(a) \cap Range(s \o ids) = {}  BY <1>9, <1>11, <1>12
<1>14. ToSet(ids) = Range(ids)  BY DEF ToSet, Range
<1>15. /\ wanted \subseteq F /\ Range(a) \cup Range(s) \subseteq wanted
       /\ \A f \in wanted \ (Range(a) \cup Range(s)) : files[f].kind = "psd"
  BY <1>7, <1>8, NoteIs DEF MediaInv
<1>16. wanted' \subseteq G  BY <1>4, <1>7, <1>11, <1>14, <1>15
<1>17. Range(a) \cup Range(s \o ids) \subseteq wanted'  BY <1>4, <1>12, <1>14, <1>15
<1>18. \A f \in wanted' \ (Range(a) \cup Range(s \o ids)) : files'[f].kind = "psd"
  <2>1. ASSUME NEW f \in wanted', f \notin Range(a) \cup Range(s \o ids)  PROVE files'[f].kind = "psd"
    <3>1. f \in wanted \ (Range(a) \cup Range(s))  BY <1>4, <1>12, <1>14, <2>1
    <3>2. f \in 1..l  BY <1>6, <1>7, <1>15, <3>1
    <3>3. files'[f] = files[f]  BY <1>5, <3>2
    <3>. QED  BY <1>15, <3>1, <3>3
  <2>. QED  BY <2>1
<1>19. upload' \in [on : BOOLEAN, done : Nat]  BY <1>4 DEF MediaInv
<1>20. /\ attachments' \in Seq(DOMAIN files') /\ IsInjective(attachments')
       /\ localFiles' \in Seq(DOMAIN files') /\ IsInjective(localFiles')
       /\ Range(attachments') \cap Range(localFiles') = {}
  BY <1>4, <1>7, <1>8, <1>9, <1>10, <1>12, <1>13
<1>21. /\ wanted' \subseteq DOMAIN files'
       /\ Range(attachments') \cup Range(localFiles') \subseteq wanted'
       /\ \A f \in wanted' \ (Range(attachments') \cup Range(localFiles')) : files'[f].kind = "psd"
  BY <1>4, <1>7, <1>8, <1>16, <1>17, <1>18
<1>. QED  BY <1>4, <1>5, <1>19, <1>20, <1>21, ListsChange

\* Chosen files are paired, pasted ones are not.
LEMMA AddsBatch ==
  ASSUME MediaInv, NEW batch \in Batches, SelectFiles(batch) \/ PasteFiles(batch)
  PROVE  MediaInv'
<1>1. PICK n \in Nat : batch \in [1..n -> Picks]  BY MediaAssumption DEF Batches
<1>2. DOMAIN batch = 1..n /\ \A i \in 1..n : batch[i] \in Picks  BY <1>1
<1>3. PICK l \in Nat : l = Len(files)  BY LenProperties DEF MediaInv
<1>4. \A i \in 1..n : /\ batch[i].kind \in {"image", "psd", "video", "audio", "document"}
                      /\ batch[i].stem \in Nat
  BY <1>2, MediaAssumption
<1>5. ASSUME NEW i \in 1..n, NEW g \in Nat, NEW r \in {"none", "still", "clip", "container"}
      PROVE  File(batch[i].kind, batch[i].stem, g, r) \in FileType
  BY <1>4 DEF File, FileType
<1>6. CASE PasteFiles(batch)
  <2>1. PICK new : new = Unpaired(batch)  OBVIOUS
  <2>2. new = [i \in 1..n |-> File(batch[i].kind, batch[i].stem, 0, "none")]  BY <1>2, <2>1 DEF Unpaired
  <2>3. \A i \in 1..n : File(batch[i].kind, batch[i].stem, 0, "none") \in FileType  BY <1>5
  <2>4. new \in Seq(FileType) /\ Len(new) = n  BY <2>2, <2>3
  <2>5. AddFiles(batch, new)  BY <1>6, <2>1 DEF PasteFiles
  <2>. QED  BY <1>2, <2>4, <2>5, AddsFiles
<1>7. CASE SelectFiles(batch)
  <2>1. PICK new : new = Paired(batch)  OBVIOUS
  <2>. DEFINE images(i) == OfStem(batch, batch[i].stem, {"image", "psd"})
              videos(i) == OfStem(batch, batch[i].stem, {"video"})
              pair(i) == Cardinality(images(i)) = 1 /\ Cardinality(videos(i)) = 1
              group(i) == CHOOSE j \in images(i) : TRUE
              Row(i) == IF pair(i) /\ i \in images(i)
                        THEN File(batch[i].kind, batch[i].stem, l + group(i), "still")
                        ELSE IF pair(i) /\ i \in videos(i)
                        THEN File(batch[i].kind, batch[i].stem, l + group(i), "clip")
                        ELSE File(batch[i].kind, batch[i].stem, 0, "none")
  <2>2. new = [i \in 1..n |-> Row(i)]  BY <1>2, <1>3, <2>1 DEF Paired
  <2>3. ASSUME NEW i \in 1..n  PROVE Row(i) \in FileType
    <3>1. CASE pair(i)
      <4>1. images(i) # {}  BY <3>1, FS_EmptySet
      <4>2. group(i) \in images(i)  BY <4>1
      <4>3. group(i) \in Nat  BY <1>2, <4>2 DEF OfStem
      <4>4. l + group(i) \in Nat  BY <4>3
      <4>. HIDE DEF group, images, videos
      <4>. QED  BY <1>5, <4>4
    <3>2. CASE ~pair(i)
      <4>. HIDE DEF pair
      <4>. QED  BY <1>5, <3>2
    <3>. QED  BY <3>1, <3>2
  <2>. HIDE DEF Row
  <2>4. new \in Seq(FileType) /\ Len(new) = n  BY <2>2, <2>3
  <2>5. AddFiles(batch, new)  BY <1>7, <2>1 DEF SelectFiles
  <2>. QED  BY <1>2, <2>4, <2>5, AddsFiles
<1>. QED  BY <1>6, <1>7

(* A move rewrites its list from the items.                                *)
LEMMA MovesAttachment ==
  ASSUME MediaInv, NEW p \in Neighbours(AttachmentItems), MoveAttachment(p[1], p[2])
  PROVE  MediaInv'
<1>1. PICK items : items = AttachmentItems  OBVIOUS
<1>2. PICK i \in DOMAIN items, j \in DOMAIN items : p[1] = i /\ p[2] = j  BY <1>1 DEF Neighbours
<1>3. PICK F : F = DOMAIN files  OBVIOUS
<1>4. /\ items \in Seq(Seq(F)) /\ Apart(items) /\ Within(items) \subseteq Range(attachments)
      /\ \A f \in Range(attachments) \ Within(items) : files[f].kind = "psd"
  BY <1>1, <1>3, AttachmentItemsShow
<1>5. PICK moved : moved = Rewritten(Swapped(items, i, j))  OBVIOUS
<1>6. moved \in Seq(F) /\ IsInjective(moved) /\ Range(moved) = Within(items)  BY <1>4, <1>5, SwappedShows
<1>7. /\ attachments' = moved /\ UNCHANGED <<files, localFiles, preview, upload, wanted>> /\ ~preview.open
  BY <1>1, <1>2, <1>5 DEF MoveAttachment, Touch
<1>8. /\ Range(attachments) \cap Range(localFiles) = {} /\ wanted \subseteq F
      /\ Range(attachments) \cup Range(localFiles) \subseteq wanted
      /\ \A f \in wanted \ (Range(attachments) \cup Range(localFiles)) : files[f].kind = "psd"
      /\ localFiles \in Seq(F) /\ IsInjective(localFiles) /\ files \in Seq(FileType)
      /\ upload \in [on : BOOLEAN, done : Nat]
  BY <1>3, NoteIs DEF MediaInv
<1>9. /\ Range(moved) \cap Range(localFiles) = {} /\ Range(moved) \cup Range(localFiles) \subseteq wanted
      /\ \A f \in wanted \ (Range(moved) \cup Range(localFiles)) : files[f].kind = "psd"
  BY <1>4, <1>6, <1>8
<1>. QED  BY <1>3, <1>6, <1>7, <1>8, <1>9, ListsChange

LEMMA MovesLocalFile ==
  ASSUME MediaInv, NEW p \in Neighbours(LocalItems), MoveLocalFile(p[1], p[2])
  PROVE  MediaInv'
<1>1. PICK items : items = LocalItems  OBVIOUS
<1>2. PICK i \in DOMAIN items, j \in DOMAIN items : p[1] = i /\ p[2] = j  BY <1>1 DEF Neighbours
<1>3. PICK F : F = DOMAIN files  OBVIOUS
<1>4. items \in Seq(Seq(F)) /\ Apart(items) /\ Within(items) = Range(localFiles)
  BY <1>1, <1>3, LocalItemsShow
<1>5. PICK moved : moved = Rewritten(Swapped(items, i, j))  OBVIOUS
<1>6. moved \in Seq(F) /\ IsInjective(moved) /\ Range(moved) = Within(items)  BY <1>4, <1>5, SwappedShows
<1>7. /\ localFiles' = moved /\ UNCHANGED <<files, attachments, preview, upload, wanted>> /\ ~preview.open
  BY <1>1, <1>2, <1>5 DEF MoveLocalFile, Touch
<1>8. /\ Range(attachments) \cap Range(localFiles) = {} /\ wanted \subseteq F
      /\ Range(attachments) \cup Range(localFiles) \subseteq wanted
      /\ \A f \in wanted \ (Range(attachments) \cup Range(localFiles)) : files[f].kind = "psd"
      /\ attachments \in Seq(F) /\ IsInjective(attachments) /\ files \in Seq(FileType)
      /\ upload \in [on : BOOLEAN, done : Nat]
  BY <1>3, NoteIs DEF MediaInv
<1>. QED  BY <1>3, <1>4, <1>6, <1>7, <1>8, ListsChange

(* What is removed is no longer wanted.                                    *)
LEMMA RemovesItem ==
  ASSUME MediaInv, NEW i \in DOMAIN Items, RemoveItem(i)
  PROVE  MediaInv'
<1>1. PICK item : item = Items[i]  OBVIOUS
<1>2. PICK F : F = DOMAIN files  OBVIOUS
<1>3. PICK a, s, w : a = attachments /\ s = localFiles /\ w = wanted  OBVIOUS
<1>4. PICK b, t : b = Without(a, item) /\ t = Without(s, item)  OBVIOUS
<1>5. /\ attachments' = b /\ localFiles' = t /\ wanted' = w \ ToSet(item)
      /\ UNCHANGED <<files, preview, upload>> /\ ~preview.open
  BY <1>1, <1>3, <1>4 DEF RemoveItem, Touch
<1>6. /\ Range(a) \cap Range(s) = {} /\ w \subseteq F /\ Range(a) \cup Range(s) \subseteq w
      /\ \A f \in w \ (Range(a) \cup Range(s)) : files[f].kind = "psd"
      /\ a \in Seq(F) /\ IsInjective(a) /\ s \in Seq(F) /\ IsInjective(s) /\ files \in Seq(FileType)
      /\ upload \in [on : BOOLEAN, done : Nat]
  BY <1>2, <1>3, NoteIs DEF MediaInv
<1>7. ToSet(a) = Range(a) /\ ToSet(s) = Range(s)  BY DEF ToSet, Range
<1>8. b \in Seq(F) /\ IsInjective(b) /\ Range(b) = Range(a) \ ToSet(item)
  <2>1. b = FilterBy(a, Range(a) \ ToSet(item))  BY <1>4, <1>7 DEF Without
  <2>2. Range(a) \cap (Range(a) \ ToSet(item)) = Range(a) \ ToSet(item)  OBVIOUS
  <2>. QED  BY <1>6, <2>1, <2>2, FilterShows
<1>9. t \in Seq(F) /\ IsInjective(t) /\ Range(t) = Range(s) \ ToSet(item)
  <2>1. t = FilterBy(s, Range(s) \ ToSet(item))  BY <1>4, <1>7 DEF Without
  <2>2. Range(s) \cap (Range(s) \ ToSet(item)) = Range(s) \ ToSet(item)  OBVIOUS
  <2>. QED  BY <1>6, <2>1, <2>2, FilterShows
<1>10. /\ Range(b) \cap Range(t) = {} /\ wanted' \subseteq F /\ Range(b) \cup Range(t) \subseteq wanted'
       /\ \A f \in wanted' \ (Range(b) \cup Range(t)) : files[f].kind = "psd"
  BY <1>5, <1>6, <1>8, <1>9
<1>. QED  BY <1>2, <1>5, <1>6, <1>8, <1>9, <1>10, ListsChange

(* The saved note has the local files after its own.                       *)
LEMMA SavesMemo ==
  ASSUME MediaInv, MemoSaved
  PROVE  MediaInv'
<1>1. PICK F : F = DOMAIN files  OBVIOUS
<1>2. PICK a, s, w : a = attachments /\ s = localFiles /\ w = wanted  OBVIOUS
<1>3. /\ Range(a) \cap Range(s) = {} /\ w \subseteq F /\ Range(a) \cup Range(s) \subseteq w
      /\ \A f \in w \ (Range(a) \cup Range(s)) : files[f].kind = "psd"
      /\ a \in Seq(F) /\ IsInjective(a) /\ s \in Seq(F) /\ IsInjective(s) /\ files \in Seq(FileType)
  BY <1>1, <1>2, NoteIs DEF MediaInv
<1>4. /\ attachments' = a \o s /\ localFiles' = <<>> /\ upload' = NoUpload
      /\ UNCHANGED <<files, preview, wanted>> /\ upload.on
  BY <1>2 DEF MemoSaved
<1>5. ~preview.open /\ upload' \in [on : BOOLEAN, done : Nat]  BY <1>4 DEF MediaInv, NoUpload
<1>6. a \o s \in Seq(F) /\ Range(a \o s) = Range(a) \cup Range(s) /\ IsInjective(a \o s)
  <2>1. a \o s \in Seq(F)  BY <1>3, ConcatProperties
  <2>. QED  BY <1>3, <2>1, ConcatShows
<1>7. <<>> \in Seq(F) /\ IsInjective(<<>>) /\ Range(<<>>) = {}  BY DEF IsInjective, Range
<1>8. /\ Range(attachments') = Range(a) \cup Range(s) /\ Range(localFiles') = {}
      /\ attachments' \in Seq(DOMAIN files') /\ IsInjective(attachments')
      /\ localFiles' \in Seq(DOMAIN files') /\ IsInjective(localFiles')
  BY <1>1, <1>4, <1>6, <1>7
<1>9. /\ wanted' \subseteq DOMAIN files' /\ Range(attachments') \cup Range(localFiles') \subseteq wanted'
      /\ \A f \in wanted' \ (Range(attachments') \cup Range(localFiles')) : files'[f].kind = "psd"
      /\ Range(attachments') \cap Range(localFiles') = {}
  BY <1>1, <1>2, <1>3, <1>4, <1>8
<1>. QED  BY <1>3, <1>4, <1>5, <1>8, <1>9, ListsChange

(* The preview opens at the item that was clicked: it is among those the   *)
(* dialog gets.                                                            *)
LEMMA OpensPreview ==
  ASSUME MediaInv, NEW i \in DOMAIN Items, OpenPreview(i)
  PROVE  MediaInv'
<1>1. PICK F : F = DOMAIN files  OBVIOUS
<1>2. Items \in Seq(Seq(F))
  <2>1. AttachmentItems \in Seq(Seq(F)) /\ LocalItems \in Seq(Seq(F))
    BY <1>1, AttachmentItemsShow, LocalItemsShow
  <2>. QED  BY <2>1, ConcatProperties DEF Items
<1>3. PICK items, item : items = Items /\ item = Items[i]  OBVIOUS
<1>4. PICK T : T = {x \in ToSet(Items) : IsPreviewable(x)}  OBVIOUS
<1>5. item \in Range(items) /\ item \in T  BY <1>3, <1>4 DEF OpenPreview, ToSet, Range
<1>6. PICK q : q = PreviewItems  OBVIOUS
<1>7. q \in Seq(Seq(F)) /\ Range(q) = Range(items) \cap T
  <2>1. q = FilterBy(items, T)  BY <1>3, <1>4, <1>6 DEF PreviewItems
  <2>2. items \in Seq(Seq(F))  BY <1>2, <1>3
  <2>. QED  BY <2>1, <2>2, FilterShows
<1>8. \E k \in DOMAIN q : q[k] = item  BY <1>5, <1>7 DEF Range
<1>9. PICK k : k = PreviewIndex(item)  OBVIOUS
<1>10. k \in DOMAIN q /\ q[k] = item  BY <1>6, <1>8, <1>9 DEF PreviewIndex
<1>11. k \in Nat  BY <1>7, <1>10, LenProperties
<1>12. /\ preview' = [open |-> TRUE, index |-> k] /\ clicked' = item /\ ~upload.on
       /\ UNCHANGED <<files, attachments, localFiles, upload, wanted>>
  BY <1>3, <1>9 DEF OpenPreview, Touch
<1>13. PreviewItems' = q
  BY <1>6, <1>12 DEF PreviewItems, Items, AttachmentItems, LocalItems, LocalItemsAt, IsPreviewable
<1>14. PreviewShowsClicked'  BY <1>10, <1>12, <1>13 DEF PreviewShowsClicked
<1>15. /\ preview' \in [open : BOOLEAN, index : Nat] /\ upload' \in [on : BOOLEAN, done : Nat]
       /\ (preview.open => ~upload.on)'
  BY <1>11, <1>12 DEF MediaInv
<1>. QED  BY <1>12, <1>14, <1>15, ListsStay

(* Next and Previous.                                                      *)
LEMMA StepsPreview ==
  ASSUME MediaInv, NEW d, StepPreview(d)
  PROVE  MediaInv'
<1>1. PICK q : q = PreviewItems  OBVIOUS
<1>2. PICK to : to = IF d = "next" THEN preview.index + 1 ELSE preview.index - 1  OBVIOUS
<1>3. /\ preview.open /\ to \in DOMAIN q /\ preview' = [preview EXCEPT !.index = to] /\ clicked' = q[to]
      /\ UNCHANGED <<files, attachments, localFiles, upload, wanted>>
  BY <1>1, <1>2 DEF StepPreview
<1>4. PICK F : F = DOMAIN files  OBVIOUS
<1>5. DOMAIN q \subseteq Nat
  <2>1. AttachmentItems \in Seq(Seq(F)) /\ LocalItems \in Seq(Seq(F))
    BY <1>4, AttachmentItemsShow, LocalItemsShow
  <2>2. Items \in Seq(Seq(F))  BY <2>1, ConcatProperties DEF Items
  <2>3. q \in Seq(Seq(F))  BY <1>1, <2>2, FilterShows DEF PreviewItems
  <2>. QED  BY <2>3, LenProperties
<1>6. PreviewItems' = q
  BY <1>1, <1>3 DEF PreviewItems, Items, AttachmentItems, LocalItems, LocalItemsAt, IsPreviewable
<1>7. preview'.open /\ preview'.index = to /\ preview' \in [open : BOOLEAN, index : Nat]
  BY <1>3, <1>5 DEF MediaInv
<1>8. PreviewShowsClicked'  BY <1>3, <1>6, <1>7 DEF PreviewShowsClicked
<1>9. upload' \in [on : BOOLEAN, done : Nat] /\ (preview.open => ~upload.on)'  BY <1>3 DEF MediaInv
<1>. QED  BY <1>3, <1>7, <1>8, <1>9, ListsStay

(* The steps of a save before its end, and the end of a preview.           *)
LEMMA QuietSteps ==
  ASSUME MediaInv, ClosePreview \/ StartSave \/ UploadFile \/ UploadFails
  PROVE  MediaInv'
<1>1. UNCHANGED <<files, attachments, localFiles, wanted>>
  BY DEF ClosePreview, StartSave, UploadFile, UploadFails
<1>2. preview \in [open : BOOLEAN, index : Nat] /\ upload \in [on : BOOLEAN, done : Nat]
      /\ (preview.open => ~upload.on)
  BY DEF MediaInv
<1>3. /\ preview' \in [open : BOOLEAN, index : Nat] /\ upload' \in [on : BOOLEAN, done : Nat] /\ ~preview'.open
  <2>1. CASE ClosePreview  BY <1>2, <2>1 DEF ClosePreview, Closed
  <2>2. CASE StartSave  BY <1>2, <2>2 DEF StartSave
  <2>3. CASE UploadFile
    <3>1. upload'.done = upload.done + 1 /\ upload' = [upload EXCEPT !.done = upload.done + 1]
      BY <1>2, <2>3 DEF UploadFile
    <3>2. upload.done + 1 \in Nat  BY <1>2
    <3>. QED  BY <1>2, <2>3, <3>1, <3>2 DEF UploadFile
  <2>4. CASE UploadFails  BY <1>2, <2>4 DEF UploadFails, NoUpload
  <2>. QED  BY <2>1, <2>2, <2>3, <2>4
<1>. QED  BY <1>1, <1>3, ListsStay DEF PreviewShowsClicked

LEMMA StutterMedia ==
  ASSUME MediaInv, UNCHANGED mediaVars
  PROVE  MediaInv'
<1>1. UNCHANGED <<files, attachments, localFiles, preview, upload, wanted, clicked>>  BY DEF mediaVars
<1>2. PreviewItems' = PreviewItems
  BY <1>1 DEF PreviewItems, Items, AttachmentItems, LocalItems, LocalItemsAt, IsPreviewable
<1>3. PreviewShowsClicked'  BY <1>1, <1>2 DEF PreviewShowsClicked, MediaInv
<1>. QED  BY <1>1, <1>3, ListsStay DEF MediaInv

LEMMA NextMedia == MediaInv /\ [MediaNext]_mediaVars => MediaInv'
<1>. SUFFICES ASSUME MediaInv, [MediaNext]_mediaVars  PROVE MediaInv'  OBVIOUS
<1>1. CASE UNCHANGED mediaVars  BY <1>1, StutterMedia
<1>2. CASE \E b \in Batches : SelectFiles(b) \/ PasteFiles(b)  BY <1>2, AddsBatch
<1>3. CASE \E p \in Neighbours(AttachmentItems) : MoveAttachment(p[1], p[2])  BY <1>3, MovesAttachment
<1>4. CASE \E p \in Neighbours(LocalItems) : MoveLocalFile(p[1], p[2])  BY <1>4, MovesLocalFile
<1>5. CASE \E i \in DOMAIN Items : RemoveItem(i) \/ OpenPreview(i)  BY <1>5, RemovesItem, OpensPreview
<1>6. CASE (\E d \in {"next", "previous"} : StepPreview(d)) \/ ClosePreview
  BY <1>6, StepsPreview, QuietSteps
<1>7. CASE StartSave \/ UploadFile \/ UploadFails \/ MemoSaved  BY <1>7, QuietSteps, SavesMemo
<1>. QED  BY <1>1, <1>2, <1>3, <1>4, <1>5, <1>6, <1>7 DEF MediaNext

\* Each file the user added and did not remove is in the note exactly once, and
\* no other is, but for Photoshop files that a move drops; and the preview shows
\* what was clicked (AttachmentListEditor.tsx), for any files and any number of
\* batches, moves, removals and failed uploads.
THEOREM ListsAreWhatTheyShow == MediaSpec => []ListIsWhatItShows
<1>1. MediaInv => ListIsWhatItShows
  <2>. SUFFICES ASSUME MediaInv  PROVE ListIsWhatItShows  OBVIOUS
  <2>1. PICK F : F = DOMAIN files  OBVIOUS
  <2>2. PICK a \in Seq(F), s \in Seq(F) : /\ a = attachments /\ s = localFiles /\ IsInjective(a) /\ IsInjective(s)
                                         /\ Range(a) \cap Range(s) = {}
    BY <2>1 DEF MediaInv
  <2>3. IsInjective(a \o s)  BY <2>2, ConcatShows
  <2>. QED  BY <2>2, <2>3 DEF MediaInv, ListIsWhatItShows, FilesKept
<1>. QED  BY <1>1, InitMedia, NextMedia, PTL DEF MediaSpec

----------------------------------------------------------------------------
(* AttachmentLibrary, the attachments shown.  A page is a section of the   *)
(* table, as long as the table is at rest.                                 *)

RowOf(a) == [id |-> a, attached |-> a \in attached]
RowType == [id : DOMAIN Catalog, attached : BOOLEAN]
FetchType == [on : BOOLEAN, built : Seq(Seq(RowType)), until : Nat]
PagesRight(p) == \A i \in DOMAIN p : p[i] = PageNow(i - 1)

(* A row is in the table once, and only files that were uploaded are.      *)
TableInv ==
  /\ uploaded \in Nat /\ uploaded <= Len(Catalog)
  /\ table \in Seq(1..uploaded) /\ IsInjective(table)

(* Pages that were read while the table was at rest are its sections.      *)
PagesInv ==
  /\ pages \in Seq(Seq(RowType)) /\ fetch \in FetchType
  /\ fresh \in [pages : BOOLEAN, fetch : BOOLEAN]
  /\ fresh.pages => pages # <<>> /\ PagesRight(pages)
  /\ fresh.fetch => PagesRight(fetch.built)

\* The sections of the pages are next to each other.
LEMMA Offsets ==
  /\ \A n \in Nat : Offset(n) \in Nat /\ Offset(n + 1) = Offset(n) + PageSize
  /\ Offset(0) = 0
  /\ \A n \in Nat : \A m \in 0..n : Offset(m) <= Offset(n)
<1>1. PICK P \in Nat : P = PageSize  BY LibraryAssumption
<1>2. \A n \in Nat : n * P \in Nat /\ (n + 1) * P = n * P + P  OBVIOUS
<1>3. 0 * P = 0  OBVIOUS
<1>4. \A n \in Nat : Offset(n) \in Nat /\ Offset(n + 1) = Offset(n) + PageSize  BY <1>1, <1>2 DEF Offset
<1>. DEFINE N == {n \in Nat : \A m \in 0..n : Offset(m) <= Offset(n)}
<1>5. 0 \in N  BY <1>4
<1>6. ASSUME NEW n \in Nat, n \in N  PROVE n + 1 \in N
  <2>1. ASSUME NEW m \in 0..(n + 1)  PROVE Offset(m) <= Offset(n + 1)
    <3>1. m \in Nat /\ Offset(m) \in Nat /\ Offset(n) \in Nat /\ Offset(n + 1) = Offset(n) + P  BY <1>1, <1>4
    <3>2. CASE m = n + 1  BY <3>1, <3>2
    <3>3. CASE m \in 0..n
      <4>1. Offset(m) <= Offset(n)  BY <1>6, <3>3
      <4>. QED  BY <3>1, <4>1
    <3>. QED  BY <3>2, <3>3
  <2>. QED  BY <2>1
<1>7. \A n \in Nat : n \in N
  <2>. HIDE DEF N
  <2>. QED  BY <1>5, <1>6, NatSetInduction
<1>. QED  BY <1>1, <1>3, <1>4, <1>7 DEF Offset

\* What a page shows of the table.
LEMMA PageShows ==
  ASSUME TableInv, NEW n \in Nat
  PROVE  /\ PageNow(n) \in Seq(RowType) /\ Len(PageNow(n)) <= PageSize
         /\ \A i \in 1..Len(PageNow(n)) : /\ Offset(n) + i \in 1..Len(table)
                                          /\ PageNow(n)[i] = RowOf(table[Offset(n) + i])
         /\ \A k \in 1..Len(table) :
              Offset(n) < k /\ k <= Offset(n + 1) => \E i \in 1..Len(PageNow(n)) : k = Offset(n) + i
         /\ IsLast(PageNow(n)) => Len(table) < Offset(n + 1)
<1>1. PICK o \in Nat, P \in Nat, L \in Nat : o = Offset(n) /\ P = PageSize /\ P # 0 /\ L = Len(table)
  BY Offsets, LibraryAssumption, LenProperties DEF TableInv
<1>2. Offset(n + 1) = o + P  BY <1>1, Offsets
<1>3. PICK b \in Nat : b = IF o + P < L THEN o + P ELSE L  BY <1>1
<1>4. PICK s : s = Slice(table, Offset(n), PageSize)  OBVIOUS
<1>5. s = SubSeq(table, o + 1, b)  BY <1>1, <1>3, <1>4 DEF Slice
<1>6. table \in Seq(1..uploaded) /\ \A i \in 1..L : table[i] \in 1..uploaded /\ table[i] \in DOMAIN Catalog
  <2>1. uploaded \in Nat /\ uploaded <= Len(Catalog) /\ table \in Seq(1..uploaded)  BY DEF TableInv
  <2>2. DOMAIN Catalog = 1..Len(Catalog) /\ Len(Catalog) \in Nat  BY LibraryAssumption, LenProperties
  <2>3. \A i \in 1..L : table[i] \in 1..uploaded  BY <1>1, <2>1, ElementOfSeq
  <2>. QED  BY <2>1, <2>2, <2>3
<1>7. /\ s \in Seq(1..uploaded) /\ Len(s) = IF o + 1 <= b THEN b - (o + 1) + 1 ELSE 0
      /\ \A i \in 1..(b - (o + 1) + 1) : s[i] = table[o + 1 + i - 1]
  <2>1. o + 1 \in Int /\ b \in Int /\ \A i \in (o + 1)..b : table[i] \in 1..uploaded  BY <1>1, <1>3, <1>6
  <2>. QED  BY <1>5, <1>6, <2>1, SubSeqProperties
<1>8. DOMAIN s = 1..Len(s) /\ Len(s) \in Nat  BY <1>7, LenProperties
<1>9. PICK l \in Nat : l = Len(s) /\ l = IF o < b THEN b - o ELSE 0
  <2>1. PICK l \in Nat : l = Len(s)  BY <1>8
  <2>2. (IF o + 1 <= b THEN b - (o + 1) + 1 ELSE 0) = IF o < b THEN b - o ELSE 0  OBVIOUS
  <2>3. l = IF o < b THEN b - o ELSE 0  BY <1>7, <2>1, <2>2
  <2>. QED  BY <2>1, <2>3
<1>10. ASSUME NEW i \in 1..l  PROVE o + i \in 1..L /\ s[i] = table[o + i]
  <2>1. i \in 1..(b - (o + 1) + 1) /\ o + 1 + i - 1 = o + i  BY <1>9
  <2>2. o + i \in 1..L  BY <1>3, <1>9
  <2>. QED  BY <1>7, <2>1, <2>2
<1>11. PICK section : section = PageNow(n)  OBVIOUS
<1>12. section = [i \in 1..l |-> RowOf(s[i])]  BY <1>4, <1>8, <1>9, <1>11 DEF PageNow, RowOf
<1>13. \A i \in 1..l : RowOf(s[i]) \in RowType  BY <1>6, <1>10 DEF RowOf, RowType
<1>14. section \in Seq(RowType) /\ Len(section) = l  BY <1>12, <1>13
<1>15. l <= P  BY <1>3, <1>9
<1>16. \A i \in 1..l : o + i \in 1..L /\ section[i] = RowOf(table[o + i])  BY <1>10, <1>12
<1>17. ASSUME NEW k \in 1..L, o < k, k <= o + P  PROVE \E i \in 1..l : k = o + i
  <2>1. k <= b  BY <1>3, <1>17
  <2>2. k - o \in 1..l /\ k = o + (k - o)  BY <1>9, <1>17, <2>1
  <2>. QED  BY <2>2
<1>18. l < P => L < o + P  BY <1>1, <1>3, <1>9
<1>. QED  BY <1>1, <1>2, <1>11, <1>14, <1>15, <1>16, <1>17, <1>18 DEF IsLast

\* The pages before an offset cover what is before it.
LEMMA PagesCover ==
  \A n \in Nat : \A k \in Nat : 0 < k /\ k <= Offset(n) => \E m \in 0..(n - 1) : Offset(m) < k /\ k <= Offset(m + 1)
<1>. DEFINE Covers(n, k) == \E m \in 0..(n - 1) : Offset(m) < k /\ k <= Offset(m + 1)
            N == {n \in Nat : \A k \in Nat : 0 < k /\ k <= Offset(n) => Covers(n, k)}
<1>1. 0 \in N
  <2>1. Offset(0) = 0  BY Offsets
  <2>. QED  BY <2>1
<1>2. ASSUME NEW n \in Nat, n \in N  PROVE n + 1 \in N
  <2>1. ASSUME NEW k \in Nat, 0 < k, k <= Offset(n + 1)  PROVE Covers(n + 1, k)
    <3>0. Offset(n) \in Nat  BY Offsets
    <3>1. CASE k <= Offset(n)
      <4>1. PICK m \in 0..(n - 1) : Offset(m) < k /\ k <= Offset(m + 1)  BY <1>2, <2>1, <3>1
      <4>2. m \in 0..((n + 1) - 1)  OBVIOUS
      <4>. QED  BY <4>1, <4>2
    <3>2. CASE Offset(n) < k
      <4>1. n \in 0..((n + 1) - 1)  OBVIOUS
      <4>. QED  BY <2>1, <3>2, <4>1
    <3>. QED  BY <3>0, <3>1, <3>2
  <2>. QED  BY <2>1
<1>3. \A n \in Nat : n \in N
  <2>. HIDE DEF N
  <2>. QED  BY <1>1, <1>2, NatSetInduction
<1>. QED  BY <1>3

(* The pages up to the last one have every row once.                       *)
LEMMA LoadedShows ==
  ASSUME TableInv, PagesInv, fresh.pages, IsLast(Last(pages))
  PROVE  /\ Loaded \in Seq(RowType) /\ IsInjective(Loaded)
         /\ Range(Loaded) = {RowOf(a) : a \in Range(table)}
<1>1. PICK n \in Nat : n = Len(pages) /\ DOMAIN pages = 1..n  BY LenProperties DEF PagesInv
<1>2. PICK L \in Nat : L = Len(table) /\ DOMAIN table = 1..L  BY LenProperties DEF TableInv
<1>3. pages \in Seq(Seq(RowType)) /\ pages # <<>> /\ \A i \in 1..n : pages[i] = PageNow(i - 1)
  BY <1>1 DEF PagesInv, PagesRight
<1>4. n # 0  BY <1>1, <1>3, EmptySeq
<1>5. \A i \in 1..n : i - 1 \in Nat /\ (i - 1) + 1 = i  OBVIOUS
<1>6. ASSUME NEW i \in 1..n
      PROVE  /\ pages[i] \in Seq(RowType) /\ DOMAIN pages[i] = 1..Len(pages[i]) /\ Len(pages[i]) \in Nat
             /\ Len(pages[i]) <= PageSize /\ Offset(i - 1) \in Nat /\ Offset(i) = Offset(i - 1) + PageSize
             /\ \A u \in 1..Len(pages[i]) : /\ Offset(i - 1) + u \in 1..L
                                            /\ pages[i][u] = RowOf(table[Offset(i - 1) + u])
             /\ \A k \in 1..L : Offset(i - 1) < k /\ k <= Offset(i) => \E u \in 1..Len(pages[i]) : k = Offset(i - 1) + u
             /\ IsLast(pages[i]) => L < Offset(i)
  <2>1. PICK m \in Nat : m = i - 1 /\ i = m + 1  BY <1>5
  <2>2. pages[i] = PageNow(m)  BY <1>3, <2>1
  <2>3. pages[i] \in Seq(RowType)  BY <2>2, PageShows
  <2>4. DOMAIN pages[i] = 1..Len(pages[i]) /\ Len(pages[i]) \in Nat  BY <2>3, LenProperties
  <2>5. Offset(m) \in Nat /\ Offset(m + 1) = Offset(m) + PageSize  BY Offsets
  <2>6. PICK p : p = PageNow(m)  OBVIOUS
  <2>7. /\ Len(p) <= PageSize
        /\ \A u \in 1..Len(p) : Offset(m) + u \in 1..Len(table) /\ p[u] = RowOf(table[Offset(m) + u])
        /\ \A k \in 1..Len(table) :
             Offset(m) < k /\ k <= Offset(m + 1) => \E u \in 1..Len(p) : k = Offset(m) + u
        /\ IsLast(p) => Len(table) < Offset(m + 1)
    BY <2>6, PageShows
  <2>8. pages[i] = p /\ i - 1 = m /\ i = m + 1 /\ L = Len(table)  BY <1>2, <2>1, <2>2, <2>6
  <2>. QED  BY <2>3, <2>4, <2>5, <2>7, <2>8
<1>7. \A k, l \in 1..L : RowOf(table[k]) = RowOf(table[l]) => k = l
  <2>1. \A a, b : RowOf(a) = RowOf(b) => a = b  BY DEF RowOf
  <2>. QED  BY <1>2, <2>1 DEF TableInv, IsInjective
<1>8. \A i \in 1..n : IsInjective(pages[i])
  <2>1. ASSUME NEW i \in 1..n, NEW u \in 1..Len(pages[i]), NEW v \in 1..Len(pages[i]), pages[i][u] = pages[i][v]
        PROVE  u = v
    <3>1. PICK o \in Nat : o = Offset(i - 1)  BY <1>6
    <3>2. o + u \in 1..L /\ o + v \in 1..L /\ RowOf(table[o + u]) = RowOf(table[o + v])  BY <1>6, <2>1, <3>1
    <3>3. o + u = o + v  BY <1>7, <3>2
    <3>. QED  BY <3>3
  <2>2. \A i \in 1..n : DOMAIN pages[i] = 1..Len(pages[i])  BY <1>6
  <2>. QED  BY <2>1, <2>2 DEF IsInjective
<1>9. ASSUME NEW i \in 1..n, NEW j \in 1..n, i < j  PROVE Range(pages[i]) \cap Range(pages[j]) = {}
  <2>1. SUFFICES ASSUME NEW r, r \in Range(pages[i]), r \in Range(pages[j])  PROVE FALSE  OBVIOUS
  <2>2. DOMAIN pages[i] = 1..Len(pages[i]) /\ DOMAIN pages[j] = 1..Len(pages[j])  BY <1>6
  <2>3. PICK u \in 1..Len(pages[i]) : r = pages[i][u]  BY <2>1, <2>2 DEF Range
  <2>4. PICK v \in 1..Len(pages[j]) : r = pages[j][v]  BY <2>1, <2>2 DEF Range
  <2>5. PICK o \in Nat, q \in Nat : o = Offset(i - 1) /\ q = Offset(j - 1)  BY <1>6
  <2>6. o + u \in 1..L /\ r = RowOf(table[o + u])  BY <1>6, <2>3, <2>5
  <2>7. q + v \in 1..L /\ r = RowOf(table[q + v])  BY <1>6, <2>4, <2>5
  <2>8. o + u = q + v  BY <1>7, <2>6, <2>7
  <2>9. PICK P \in Nat, a \in Nat : P = PageSize /\ a = Len(pages[i])  BY <1>6, LibraryAssumption
  <2>10. u <= P /\ Offset(i) = o + P
    <3>1. a <= P /\ u <= a /\ u \in Nat  BY <1>6, <2>3, <2>9
    <3>2. u <= P  BY <3>1
    <3>. QED  BY <1>6, <2>5, <2>9, <3>2
  <2>11. Offset(i) <= q
    <3>1. j - 1 \in Nat /\ i \in 0..(j - 1)  BY <1>9
    <3>. QED  BY <2>5, <3>1, Offsets
  <2>12. v \in Nat /\ v >= 1 /\ u \in Nat  BY <2>3, <2>4
  <2>. QED  BY <2>8, <2>10, <2>11, <2>12
<1>10. Apart(pages)
  <2>1. ASSUME NEW i \in 1..n, NEW j \in 1..n, i # j  PROVE Range(pages[i]) \cap Range(pages[j]) = {}
    <3>1. i < j \/ j < i  BY <2>1
    <3>2. CASE i < j  BY <1>9, <3>2
    <3>3. CASE j < i
      <4>1. Range(pages[j]) \cap Range(pages[i]) = {}  BY <1>9, <3>3
      <4>. QED  BY <4>1
    <3>. QED  BY <3>1, <3>2, <3>3
  <2>. QED  BY <1>1, <1>8, <2>1 DEF Apart
<1>11. Within(pages) = {RowOf(a) : a \in Range(table)}
  <2>1. ASSUME NEW r, r \in Within(pages)  PROVE \E a \in Range(table) : r = RowOf(a)
    <3>1. PICK i \in 1..n : r \in Range(pages[i])  BY <1>1, <2>1 DEF Within
    <3>2. DOMAIN pages[i] = 1..Len(pages[i])  BY <1>6
    <3>3. PICK u \in 1..Len(pages[i]) : r = pages[i][u]  BY <3>1, <3>2 DEF Range
    <3>4. PICK k \in 1..L : r = RowOf(table[k])  BY <1>6, <3>3
    <3>. QED  BY <1>2, <3>4 DEF Range
  <2>2. ASSUME NEW a \in Range(table)  PROVE RowOf(a) \in Within(pages)
    <3>1. PICK k \in 1..L : a = table[k]  BY <1>2 DEF Range
    <3>2. L < Offset(n)
      <4>1. Last(pages) = pages[n]  BY <1>1 DEF Last
      <4>2. n \in 1..n  BY <1>4
      <4>. QED  BY <1>6, <4>1, <4>2
    <3>3. Offset(n) \in Nat  BY Offsets
    <3>4. k \in Nat /\ 0 < k /\ k <= Offset(n)  BY <3>2, <3>3
    <3>5. PICK m \in 0..(n - 1) : Offset(m) < k /\ k <= Offset(m + 1)  BY <3>4, PagesCover
    <3>6. PICK i \in 1..n : i = m + 1 /\ i - 1 = m  OBVIOUS
    <3>7. PICK u \in 1..Len(pages[i]) : k = Offset(i - 1) + u  BY <1>6, <3>5, <3>6
    <3>8. pages[i][u] = RowOf(a)  BY <1>6, <3>1, <3>7
    <3>9. RowOf(a) \in Range(pages[i])  BY <1>6, <3>7, <3>8 DEF Range
    <3>. QED  BY <1>1, <3>9 DEF Within
  <2>. QED  BY <2>1, <2>2
<1>12. Loaded \in Seq(RowType) /\ Range(Loaded) = Within(pages) /\ IsInjective(Loaded)
  BY <1>3, <1>10, FlattenShows, FlattenType DEF Loaded
<1>. QED  BY <1>11, <1>12

\* The files of rows of the table, and those of one kind of them.
LEMMA IdsShow ==
  ASSUME NEW q \in Seq(RowType), IsInjective(q), NEW A, Range(q) = {RowOf(a) : a \in A}
  PROVE  Ids(q) \in Seq(DOMAIN Catalog) /\ IsInjective(Ids(q)) /\ Range(Ids(q)) = A
<1>1. PICK n \in Nat : n = Len(q) /\ DOMAIN q = 1..n  BY LenProperties
<1>2. \A i \in 1..n : q[i] \in RowType /\ q[i].id \in DOMAIN Catalog
  <2>1. \A i \in 1..n : q[i] \in RowType  BY <1>1, ElementOfSeq
  <2>2. \A r \in RowType : r.id \in DOMAIN Catalog  BY DEF RowType
  <2>. QED  BY <2>1, <2>2
<1>3. PICK d : d = Ids(q)  OBVIOUS
<1>4. d = [i \in 1..n |-> q[i].id]  BY <1>1, <1>3 DEF Ids
<1>5. d \in Seq(DOMAIN Catalog) /\ DOMAIN d = 1..n  BY <1>2, <1>4
<1>6. ASSUME NEW i \in 1..n  PROVE d[i] \in A /\ q[i] = RowOf(d[i])
  <2>1. q[i] \in Range(q)  BY <1>1 DEF Range
  <2>2. PICK a \in A : q[i] = RowOf(a)  BY <2>1
  <2>3. q[i].id = a  BY <2>2 DEF RowOf
  <2>. QED  BY <1>4, <2>2, <2>3
<1>7. ASSUME NEW a \in A  PROVE \E i \in 1..n : d[i] = a
  <2>1. RowOf(a) \in Range(q)  OBVIOUS
  <2>2. PICK i \in 1..n : q[i] = RowOf(a)  BY <1>1, <2>1 DEF Range
  <2>3. RowOf(a).id = a  BY DEF RowOf
  <2>. QED  BY <1>4, <2>2, <2>3
<1>8. Range(d) = A  BY <1>5, <1>6, <1>7 DEF Range
<1>9. IsInjective(d)
  <2>1. \A i, j \in 1..n : d[i] = d[j] => q[i] = q[j]  BY <1>6
  <2>2. \A i, j \in 1..n : q[i] = q[j] => i = j  BY <1>1 DEF IsInjective
  <2>. QED  BY <1>5, <2>1, <2>2 DEF IsInjective
<1>. QED  BY <1>3, <1>5, <1>8, <1>9

LEMMA NewestShows ==
  ASSUME NEW d \in Seq(DOMAIN Catalog), IsInjective(d)
  PROVE  Newest(d) \in Seq(DOMAIN Catalog) /\ IsInjective(Newest(d)) /\ Range(Newest(d)) = Range(d)
<1>1. DOMAIN Catalog = 1..Len(Catalog) /\ Len(Catalog) \in Nat  BY LibraryAssumption, LenProperties
<1>2. \A i \in DOMAIN d : d[i] \in Nat
  <2>1. DOMAIN d = 1..Len(d) /\ \A i \in 1..Len(d) : d[i] \in DOMAIN Catalog  BY LenProperties, ElementOfSeq
  <2>. QED  BY <1>1, <2>1
<1>. QED  BY <1>2, DescendingShows DEF Newest

(* The linked rows and the others are all there are.                       *)
LEMMA FilesShow ==
  ASSUME TableInv, PagesInv, fresh.pages, IsLast(Last(pages))
  PROVE  /\ LinkedFiles \in Seq(DOMAIN Catalog) /\ IsInjective(LinkedFiles)
         /\ Range(LinkedFiles) = Range(table) \cap attached
         /\ UnusedItems \in Seq(DOMAIN Catalog) /\ IsInjective(UnusedItems)
         /\ Range(UnusedItems) = Range(table) \ attached
<1>1. PICK r \in Seq(RowType) : r = Loaded /\ IsInjective(r) /\ Range(r) = {RowOf(a) : a \in Range(table)}
  BY LoadedShows
<1>2. ToSet(r) = Range(r)  BY DEF ToSet, Range
<1>3. PICK f : f = FilterBy(r, {entry \in ToSet(r) : entry.attached})  OBVIOUS
<1>4. PICK g : g = FilterBy(r, {entry \in ToSet(r) : ~entry.attached})  OBVIOUS
<1>5. \A a : RowOf(a).attached <=> a \in attached  BY DEF RowOf
<1>6. f \in Seq(RowType) /\ IsInjective(f) /\ Range(f) = {RowOf(a) : a \in Range(table) \cap attached}
  <2>1. {entry \in Range(r) : entry.attached} = {RowOf(a) : a \in Range(table) \cap attached}  BY <1>1, <1>5
  <2>2. f \in Seq(RowType) /\ IsInjective(f) /\ Range(f) = Range(r) \cap {entry \in ToSet(r) : entry.attached}
    BY <1>1, <1>3, FilterShows
  <2>. QED  BY <1>2, <2>1, <2>2
<1>7. g \in Seq(RowType) /\ IsInjective(g) /\ Range(g) = {RowOf(a) : a \in Range(table) \ attached}
  <2>1. {entry \in Range(r) : ~entry.attached} = {RowOf(a) : a \in Range(table) \ attached}  BY <1>1, <1>5
  <2>2. g \in Seq(RowType) /\ IsInjective(g) /\ Range(g) = Range(r) \cap {entry \in ToSet(r) : ~entry.attached}
    BY <1>1, <1>4, FilterShows
  <2>. QED  BY <1>2, <2>1, <2>2
<1>8. /\ Ids(f) \in Seq(DOMAIN Catalog) /\ IsInjective(Ids(f)) /\ Range(Ids(f)) = Range(table) \cap attached
      /\ Ids(g) \in Seq(DOMAIN Catalog) /\ IsInjective(Ids(g)) /\ Range(Ids(g)) = Range(table) \ attached
  BY <1>6, <1>7, IdsShow
<1>9. LinkedFiles = Newest(Ids(f)) /\ UnusedItems = Newest(Ids(g))
  BY <1>1, <1>3, <1>4 DEF LinkedFiles, UnusedItems
<1>. QED  BY <1>8, <1>9, NewestShows

\* An item has at least one file.
LEMMA VisualItemsFull ==
  ASSUME NEW fs, NEW S \in SUBSET (DOMAIN fs), NEW s \in Seq(S), IsInjective(s)
  PROVE  \A k \in DOMAIN VisualItems(fs, s) : VisualItems(fs, s)[k] # <<>>
<1>. DEFINE F == Seq(S) \ {<<>>}
<1>1. PICK sss : sss = [i \in DOMAIN s |-> VisualItemsAt(fs, s, i)]  OBVIOUS
<1>2. DOMAIN s = 1..Len(s) /\ Len(s) \in Nat /\ \A i \in DOMAIN s : s[i] \in S  BY LenProperties, ElementOfSeq
<1>3. ASSUME NEW i \in DOMAIN s  PROVE sss[i] \in Seq(F)
  <2>1. PICK x, g : x = s[i] /\ g = fs[s[i]].group  OBVIOUS
  <2>2. PICK group : group = InGroup(fs, s, g)  OBVIOUS
  <2>3. group \in Seq(S) /\ IsInjective(group)  BY <2>2, InGroupShows
  <2>4. PICK others : others = FilterBy(group, ToSet(group) \ {x})  OBVIOUS
  <2>5. others \in Seq(S)  BY <2>3, <2>4, FilterShows
  <2>6. sss[i] = IF g = 0 THEN <<<<x>>>> ELSE IF ~FirstOfGroup(fs, s, i) THEN <<>>
                 ELSE IF IsPair(fs, group) THEN <<Pair(fs, group)>> ELSE <<<<x>>>> \o Singles(others)
    BY <1>1, <2>1, <2>2, <2>4 DEF VisualItemsAt
  <2>7. <<x>> \in F /\ <<<<x>>>> \in Seq(F) /\ <<>> \in Seq(F)
    <3>1. x \in S  BY <1>2, <2>1
    <3>2. <<x>> \in Seq(S) /\ <<x>> # <<>>  BY <3>1
    <3>. QED  BY <3>2
  <2>8. ASSUME IsPair(fs, group)  PROVE <<Pair(fs, group)>> \in Seq(F)
    <3>1. PICK p, q : p = With(fs, group, "still") /\ q = With(fs, group, "clip")  OBVIOUS
    <3>2. p \in Seq(S) /\ q \in Seq(S)  BY <2>3, <3>1, FilterShows DEF With
    <3>3. Len(p) = 1  BY <2>8, <3>1 DEF IsPair
    <3>4. Len(p \o q) = Len(p) + Len(q) /\ Len(q) \in Nat /\ p \o q \in Seq(S)  BY <3>2, ConcatProperties, LenProperties
    <3>5. Len(p \o q) # 0  BY <3>3, <3>4
    <3>6. p \o q # <<>>  BY <3>5
    <3>7. p \o q \in F  BY <3>4, <3>6
    <3>8. Pair(fs, group) = p \o q  BY <3>1 DEF Pair
    <3>. QED  BY <3>7, <3>8
  <2>9. Singles(others) \in Seq(F)
    <3>1. DOMAIN others = 1..Len(others) /\ Len(others) \in Nat /\ \A k \in DOMAIN others : others[k] \in S
      BY <2>5, LenProperties, ElementOfSeq
    <3>2. \A k \in DOMAIN others : <<others[k]>> \in F  BY <3>1
    <3>3. Singles(others) = [k \in 1..Len(others) |-> <<others[k]>>]  BY <3>1 DEF Singles
    <3>. QED  BY <3>1, <3>2, <3>3
  <2>10. <<<<x>>>> \o Singles(others) \in Seq(F)  BY <2>7, <2>9, ConcatProperties
  <2>. QED  BY <2>6, <2>7, <2>8, <2>10
<1>4. sss \in Seq(Seq(F))  BY <1>1, <1>2, <1>3
<1>5. VisualItems(fs, s) = FlattenSeq(sss)  BY <1>1 DEF VisualItems
<1>6. FlattenSeq(sss) \in Seq(F)  BY <1>4, FlattenType
<1>7. PICK q \in Seq(F) : q = VisualItems(fs, s)  BY <1>5, <1>6
<1>8. \A k \in DOMAIN q : q[k] \in F  BY LenProperties, ElementOfSeq
<1>. QED  BY <1>7, <1>8

(* The items sorted by date, and then put together by month, show what the *)
(* items show: an item has one month.                                      *)
LEMMA MonthsShow ==
  ASSUME NEW F, F = DOMAIN Catalog, LinkedFiles \in Seq(F), IsInjective(LinkedFiles)
  PROVE  /\ FlattenSeq(FlattenSeq(MediaGroups)) \in Seq(F)
         /\ IsInjective(FlattenSeq(FlattenSeq(MediaGroups)))
         /\ Range(FlattenSeq(FlattenSeq(MediaGroups))) = Range(LinkedFiles) \cap Visuals(Catalog)
<1>1. F \in SUBSET (DOMAIN Catalog) /\ \A f \in F : f \in Nat /\ MonthOf[f] \in Nat
  <2>1. DOMAIN Catalog = 1..Len(Catalog) /\ Len(Catalog) \in Nat  BY LibraryAssumption, LenProperties
  <2>2. MonthOf \in [DOMAIN Catalog -> Nat]  BY LibraryAssumption
  <2>. QED  BY <2>1, <2>2
<1>2. PICK v : v = FilterBy(LinkedFiles, Visuals(Catalog))  OBVIOUS
<1>3. v \in Seq(F) /\ IsInjective(v) /\ Range(v) = Range(LinkedFiles) \cap Visuals(Catalog)
  BY <1>2, FilterShows
<1>4. PICK items : items = VisualItems(Catalog, v)  OBVIOUS
<1>5. items \in Seq(Seq(F)) /\ Apart(items) /\ Within(items) = Range(v)  BY <1>1, <1>3, <1>4, VisualItemsShow
<1>6. \A k \in DOMAIN items : items[k] # <<>>  BY <1>1, <1>3, <1>4, VisualItemsFull
<1>7. DOMAIN items = 1..Len(items) /\ Len(items) \in Nat /\ \A k \in DOMAIN items : items[k] \in Seq(F)
  BY <1>5, LenProperties, ElementOfSeq
<1>8. ASSUME NEW x \in Seq(F), x # <<>>  PROVE x[1] \in F /\ x[1] \in Range(x)
  <2>1. Len(x) \in Nat /\ DOMAIN x = 1..Len(x)  BY LenProperties
  <2>2. Len(x) # 0  BY <1>8, EmptySeq
  <2>3. 1 \in 1..Len(x)  BY <2>1, <2>2
  <2>. QED  BY <2>1, <2>3, ElementOfSeq DEF Range
<1>9. IsInjective(items)
  <2>1. ASSUME NEW k \in DOMAIN items, NEW l \in DOMAIN items, items[k] = items[l]  PROVE k = l
    <3>1. items[k][1] \in Range(items[k]) /\ items[k][1] \in Range(items[l])  BY <1>6, <1>7, <1>8, <2>1
    <3>. QED  BY <1>5, <3>1 DEF Apart
  <2>. QED  BY <2>1 DEF IsInjective
<1>10. PICK key : key = [k \in DOMAIN items |-> items[k][1]]  OBVIOUS
<1>11. \A k \in DOMAIN items : key[k] \in Nat  BY <1>1, <1>6, <1>7, <1>8, <1>10
<1>12. PICK m : m = Descending(items, key)  OBVIOUS
<1>13. m \in Seq(Seq(F)) /\ Range(m) = Range(items) /\ IsInjective(m)  BY <1>5, <1>9, <1>11, <1>12, DescendingShows
<1>14. m = MediaItemsShown  BY <1>2, <1>4, <1>10, <1>12 DEF MediaItemsShown
<1>15. PICK n \in Nat : n = Len(m) /\ DOMAIN m = 1..n  BY <1>13, LenProperties
<1>16. \A k \in 1..n : m[k] \in Seq(F) /\ m[k] # <<>>
  <2>1. \A k \in 1..n : m[k] \in Range(items)  BY <1>13, <1>15 DEF Range
  <2>. QED  BY <1>6, <1>7, <2>1 DEF Range
<1>17. PICK ms : ms = MonthsShown  OBVIOUS
<1>18. ms = [k \in 1..n |-> MonthOf[m[k][1]]]  BY <1>14, <1>15, <1>17 DEF MonthsShown
<1>19. ms \in Seq(Nat) /\ DOMAIN ms = 1..n  BY <1>1, <1>8, <1>16, <1>18
<1>20. PICK met : met = UniqBy(ms, ms)  OBVIOUS
<1>21. met \in Seq(Nat) /\ IsInjective(met) /\ \A k \in 1..n : ms[k] \in Range(met)
  <2>1. met \in Seq(Nat) /\ \A i \in DOMAIN ms : \E j \in DOMAIN ms : ms[j] = ms[i] /\ ms[j] \in Range(met)
    BY <1>19, <1>20, UniqShows
  <2>2. IsInjective(met)  BY <1>19, <1>20, UniqIsInjective
  <2>. QED  BY <1>19, <2>1, <2>2
<1>22. PICK months : months = Descending(met, met)  OBVIOUS
<1>23. months \in Seq(Nat) /\ Range(months) = Range(met) /\ IsInjective(months)
  <2>1. \A i \in DOMAIN met : met[i] \in Nat  BY <1>21, LenProperties, ElementOfSeq
  <2>. QED  BY <1>21, <1>22, <2>1, DescendingShows
<1>24. Months = months  BY <1>17, <1>20, <1>22 DEF Months
<1>25. PICK M \in Nat : M = Len(months) /\ DOMAIN months = 1..M  BY <1>23, LenProperties
<1>26. PICK groups : groups = MediaGroups  OBVIOUS
<1>27. groups = [g \in 1..M |-> Pick(m, {k \in 1..n : ms[k] = months[g]})]
  BY <1>14, <1>15, <1>17, <1>24, <1>25, <1>26 DEF MediaGroups
<1>28. Apart(m) /\ Within(m) = Within(items)
  <2>1. Range(m) \subseteq Range(items)  BY <1>13
  <2>2. Apart(m) /\ Within(m) = UNION {Range(x) : x \in Range(m)}  BY <1>5, <1>13, <2>1, SelectionApart
  <2>3. Within(items) = UNION {Range(x) : x \in Range(items)}  BY DEF Within, Range
  <2>. QED  BY <1>13, <2>2, <2>3
<1>29. ASSUME NEW g \in 1..M
       PROVE  /\ groups[g] \in Seq(Seq(F)) /\ Apart(groups[g])
              /\ Within(groups[g]) = UNION {Range(m[k]) : k \in {l \in 1..n : ms[l] = months[g]}}
  <2>1. PICK I : I = {k \in 1..n : ms[k] = months[g]}  OBVIOUS
  <2>2. PICK q : q = Pick(m, I)  OBVIOUS
  <2>3. /\ q \in Seq(Seq(F)) /\ Range(q) = {m[k] : k \in (DOMAIN m) \cap I}
        /\ (\A i, j \in (DOMAIN m) \cap I : m[i] = m[j] => i = j) => IsInjective(q)
    BY <1>13, <2>2, PickShows
  <2>4. (DOMAIN m) \cap I = I  BY <1>15, <2>1
  <2>5. \A i, j \in I : m[i] = m[j] => i = j  BY <1>13, <1>15, <2>1 DEF IsInjective
  <2>6. IsInjective(q)  BY <2>3, <2>4, <2>5
  <2>7. Range(q) \subseteq Range(m)  BY <1>15, <2>1, <2>3, <2>4 DEF Range
  <2>8. Apart(q) /\ Within(q) = UNION {Range(x) : x \in Range(q)}  BY <1>28, <2>6, <2>7, SelectionApart
  <2>9. {Range(x) : x \in Range(q)} = {Range(m[k]) : k \in I}  BY <2>3, <2>4
  <2>10. groups[g] = q  BY <1>27, <2>1, <2>2
  <2>. QED  BY <2>1, <2>3, <2>8, <2>9, <2>10
<1>30. \A g \in 1..M : \A x : x \in Within(groups[g]) <=> \E k \in 1..n : ms[k] = months[g] /\ x \in Range(m[k])
  <2>1. ASSUME NEW g \in 1..M, NEW x
        PROVE  x \in Within(groups[g]) <=> \E k \in 1..n : ms[k] = months[g] /\ x \in Range(m[k])
    <3>1. Within(groups[g]) = UNION {Range(m[k]) : k \in {l \in 1..n : ms[l] = months[g]}}  BY <1>29
    <3>. QED  BY <3>1
  <2>. QED  BY <2>1
<1>31. groups \in Seq(Seq(Seq(F))) /\ DOMAIN groups = 1..M  BY <1>27, <1>29
<1>32. ASSUME NEW g \in 1..M, NEW h \in 1..M, g # h  PROVE Within(groups[g]) \cap Within(groups[h]) = {}
  <2>1. SUFFICES ASSUME NEW x, x \in Within(groups[g]), x \in Within(groups[h])  PROVE FALSE  OBVIOUS
  <2>2. PICK k \in 1..n : ms[k] = months[g] /\ x \in Range(m[k])  BY <1>30, <2>1
  <2>3. PICK l \in 1..n : ms[l] = months[h] /\ x \in Range(m[l])  BY <1>30, <2>1
  <2>4. k = l  BY <1>15, <1>28, <2>2, <2>3 DEF Apart
  <2>. QED  BY <1>23, <1>25, <1>32, <2>2, <2>3, <2>4 DEF IsInjective
<1>33. UNION {Within(groups[g]) : g \in DOMAIN groups} = Within(m)
  <2>1. ASSUME NEW x  PROVE (\E g \in 1..M : x \in Within(groups[g])) <=> x \in Within(m)
    <3>1. x \in Within(m) <=> \E k \in 1..n : x \in Range(m[k])  BY <1>15 DEF Within
    <3>2. ASSUME NEW k \in 1..n  PROVE \E g \in 1..M : ms[k] = months[g]
      <4>1. ms[k] \in Range(months)  BY <1>21, <1>23
      <4>. QED  BY <1>25, <4>1 DEF Range
    <3>. QED  BY <1>30, <3>1, <3>2
  <2>. QED  BY <1>31, <2>1
<1>34. PICK all : all = FlattenSeq(groups)  OBVIOUS
<1>35. /\ all \in Seq(Seq(F)) /\ Within(all) = UNION {Within(groups[g]) : g \in DOMAIN groups}
       /\ /\ \A i \in DOMAIN groups : Apart(groups[i])
          /\ \A i, j \in DOMAIN groups : i # j => Within(groups[i]) \cap Within(groups[j]) = {}
          => Apart(all)
  BY <1>31, <1>34, FlattenApart
<1>36. Apart(all) /\ Within(all) = Range(v)  BY <1>5, <1>28, <1>29, <1>31, <1>32, <1>33, <1>35
<1>37. FlattenSeq(all) \in Seq(F) /\ Range(FlattenSeq(all)) = Within(all) /\ IsInjective(FlattenSeq(all))
  BY <1>35, <1>36, FlattenShows, FlattenType
<1>. QED  BY <1>3, <1>26, <1>34, <1>36, <1>37

(* Every row of the table is in one of the tabs, and only once.            *)
LEMMA AllShown ==
  ASSUME TableInv, PagesInv
  PROVE  LibraryShowsAll
<1>. SUFFICES ASSUME fresh.pages, IsLast(Last(pages))
              PROVE  IsInjective(Shown) /\ ToSet(Shown) = ToSet(table)
  BY DEF LibraryShowsAll
<1>1. PICK F, V, A : F = DOMAIN Catalog /\ V = Visuals(Catalog) /\ A = OfKind(Catalog, {"audio"})  OBVIOUS
<1>2. PICK owned, unused : owned = LinkedFiles /\ unused = UnusedItems  OBVIOUS
<1>3. /\ owned \in Seq(F) /\ IsInjective(owned) /\ Range(owned) = Range(table) \cap attached
      /\ unused \in Seq(F) /\ IsInjective(unused) /\ Range(unused) = Range(table) \ attached
  BY <1>1, <1>2, FilesShow
<1>4. PICK media, docs, audio : /\ media = FlattenSeq(FlattenSeq(MediaGroups))
                                /\ docs = DocumentItems /\ audio = AudioItems
  OBVIOUS
<1>5. media \in Seq(F) /\ IsInjective(media) /\ Range(media) = Range(owned) \cap V
  BY <1>1, <1>2, <1>3, <1>4, MonthsShow
<1>6. docs \in Seq(F) /\ IsInjective(docs) /\ Range(docs) = Range(owned) \cap (F \ (V \cup A))
  BY <1>1, <1>2, <1>3, <1>4, FilterShows DEF DocumentItems
<1>7. audio \in Seq(F) /\ IsInjective(audio) /\ Range(audio) = Range(owned) \cap A
  BY <1>1, <1>2, <1>3, <1>4, FilterShows DEF AudioItems
<1>8. V \cap A = {}
  <2>1. \A f \in DOMAIN Catalog : Catalog[f].kind = "audio" => Catalog[f].role = "none"  BY LibraryAssumption
  <2>. QED  BY <1>1, <2>1 DEF Visuals, OfKind
<1>9. Range(owned) \subseteq F  BY <1>3, LenProperties, ElementOfSeq DEF Range
<1>10. PICK a, b : a = media \o docs /\ b = (media \o docs) \o audio  OBVIOUS
<1>11. a \in Seq(F) /\ IsInjective(a) /\ Range(a) = Range(media) \cup Range(docs)
  <2>1. Range(media) \cap Range(docs) = {}  BY <1>5, <1>6
  <2>. QED  BY <1>5, <1>6, <1>10, <2>1, ConcatShows, ConcatProperties
<1>12. b \in Seq(F) /\ IsInjective(b) /\ Range(b) = Range(owned)
  <2>1. Range(a) \cap Range(audio) = {}  BY <1>5, <1>6, <1>7, <1>8, <1>11
  <2>2. Range(a) \cup Range(audio) = Range(owned)  BY <1>5, <1>6, <1>7, <1>9, <1>11
  <2>3. b = a \o audio  BY <1>10
  <2>4. /\ Range(a \o audio) = Range(a) \cup Range(audio)
        /\ IsInjective(a) /\ IsInjective(audio) /\ Range(a) \cap Range(audio) = {} => IsInjective(a \o audio)
    BY <1>7, <1>11, ConcatShows
  <2>5. a \o audio \in Seq(F)  BY <1>7, <1>11, ConcatProperties
  <2>. QED  BY <1>7, <1>11, <2>1, <2>2, <2>3, <2>4, <2>5
<1>13. IsInjective(b \o unused) /\ Range(b \o unused) = Range(table)
  <2>1. Range(b) \cap Range(unused) = {} /\ Range(b) \cup Range(unused) = Range(table)  BY <1>3, <1>12
  <2>2. /\ Range(b \o unused) = Range(b) \cup Range(unused)
        /\ IsInjective(b) /\ IsInjective(unused) /\ Range(b) \cap Range(unused) = {} => IsInjective(b \o unused)
    BY <1>3, <1>12, ConcatShows
  <2>. QED  BY <1>3, <1>12, <2>1, <2>2
<1>14. Shown = b \o unused  BY <1>2, <1>4, <1>10 DEF Shown
<1>. QED  BY <1>13, <1>14 DEF ToSet, Range

----------------------------------------------------------------------------
(* AttachmentLibrary, the removal.  While the names are listed, an         *)
(* unlinked file that has been passed over, that is, one that stands       *)
(* before the offset of the next page and is not among the names, was      *)
(* uploaded since or took the place of one that left the list.             *)

UnusedSet == Range(table) \ attached
Missed(R, U, k, T, named) == {a \in U : Place(R, U, a) < k /\ a \in T /\ a \notin Range(named)}
Passed == Missed(OrderOf(table), UnusedSet, Offset(removal.tries), target, removal.names)
Left == {a \in UnusedSet : a \in target /\ a \notin Range(removal.names)}

RemovalInv ==
  /\ removal \in [step : {"closed", "asking", "listing", "refreshing", "deleting", "succeeded"},
                  names : Seq(DOMAIN Catalog), tries : Nat]
  /\ target \subseteq 1..uploaded /\ slipped \in Nat
  /\ removal.step = "asking" => removal.tries = 0
  /\ removal.step = "listing" => Cardinality(Passed) <= slipped
  /\ removal.step \in {"deleting", "succeeded"} => Cardinality(Left) <= slipped
  /\ removal.step = "succeeded" => removal.names = <<>>

LibraryInv == TableInv /\ PagesInv /\ RemovalInv

\* The unlinked rows stand in the order of the table.
LEMMA UnusedSorted ==
  ASSUME TableInv
  PROVE  /\ IsFiniteSet(Range(table)) /\ IsFiniteSet(UnusedSet) /\ IsOrder(OrderOf(table), Range(table))
         /\ IsOrder(OrderOf(table), UnusedSet)
         /\ Sorted(OrderOf(table), UnusedSet, Unused)
<1>1. PICK U, R, T : U = Range(table) /\ R = OrderOf(table) /\ T = ToSet(table) \ attached  OBVIOUS
<1>2. IsOrder(R, U) /\ Increasing(R, table) /\ IsFiniteSet(U)  BY <1>1, OrderShows DEF TableInv
<1>3. table \in Seq(U)
  <2>0. table \in Seq(1..uploaded)  BY DEF TableInv
  <2>1. DOMAIN table = 1..Len(table) /\ Len(table) \in Nat /\ \A i \in 1..Len(table) : table[i] \in U
    BY <1>1, <2>0, LenProperties DEF Range
  <2>2. table = [i \in 1..Len(table) |-> table[i]]  BY <2>0, <2>1
  <2>. QED  BY <2>1, <2>2
<1>4. Sorted(R, U \cap T, FilterBy(table, T)) /\ IsFiniteSet(U \cap T)  BY <1>1, <1>2, <1>3, FilterSorted
<1>5. U \cap T = UnusedSet  BY <1>1 DEF ToSet, Range, UnusedSet
<1>6. IsOrder(R, UnusedSet)  BY <1>1, <1>2 DEF IsOrder, UnusedSet
<1>. QED  BY <1>1, <1>2, <1>4, <1>5, <1>6 DEF Unused

\* The target is finite, and so are the parts of it.
LEMMA CountedSets ==
  ASSUME TableInv
  PROVE  /\ IsFiniteSet(Passed) /\ Cardinality(Passed) \in Nat
         /\ IsFiniteSet(Left) /\ Cardinality(Left) \in Nat
<1>1. IsFiniteSet(UnusedSet)  BY UnusedSorted
<1>2. Passed \in SUBSET UnusedSet /\ Left \in SUBSET UnusedSet  BY DEF Passed, Missed, Left
<1>. QED  BY <1>1, <1>2, FS_Subset, FS_CardinalityType

\* Fewer are no more.
LEMMA NoMore ==
  ASSUME NEW A, NEW B, IsFiniteSet(A), B \subseteq A, NEW n \in Nat, Cardinality(A) <= n
  PROVE  Cardinality(B) <= n
<1>1. B \in SUBSET A  OBVIOUS
<1>2. IsFiniteSet(B) /\ Cardinality(B) <= Cardinality(A)  BY <1>1, FS_Subset
<1>3. Cardinality(A) \in Nat /\ Cardinality(B) \in Nat  BY <1>2, FS_CardinalityType
<1>. QED  BY <1>2, <1>3

LEMMA AtMostOneMore ==
  ASSUME NEW A, NEW B, IsFiniteSet(A), NEW C, \A x, y \in C : x = y, B \subseteq A \cup C,
         NEW n \in Nat, Cardinality(A) <= n
  PROVE  Cardinality(B) <= n + 1
<1>0. Cardinality(A) \in Nat  BY FS_CardinalityType
<1>1. CASE B \subseteq A
  <2>1. Cardinality(B) <= n  BY <1>1, NoMore
  <2>2. B \in SUBSET A  BY <1>1
  <2>3. Cardinality(B) \in Nat  BY <2>2, FS_Subset, FS_CardinalityType
  <2>. QED  BY <2>1, <2>3
<1>2. CASE ~(B \subseteq A)
  <2>1. PICK c \in B : c \notin A  BY <1>2
  <2>2. B \subseteq A \cup {c}  BY <2>1
  <2>3. IsFiniteSet(A \cup {c}) /\ Cardinality(A \cup {c}) = Cardinality(A) + 1  BY <2>1, FS_AddElement
  <2>4. n + 1 \in Nat /\ Cardinality(A \cup {c}) <= n + 1  BY <1>0, <2>3
  <2>. QED  BY <2>2, <2>3, <2>4, NoMore
<1>. QED  BY <1>1, <1>2

\* When no row of a list leaves, no place gets smaller; when one does, by one at most.
LEMMA PlacesMove ==
  ASSUME NEW R, NEW U, IsFiniteSet(U), NEW Q, NEW V, IsFiniteSet(V),
         \A x, y \in U \cap V : <<x, y>> \in R => <<x, y>> \in Q,
         NEW G, \A a, b \in G : a = b, U \ V \subseteq G, NEW x \in U \cap V
  PROVE  /\ Place(R, U, x) \in Nat /\ Place(Q, V, x) \in Nat
         /\ Place(R, U, x) <= Place(Q, V, x) + 1
         /\ G = {} => Place(R, U, x) <= Place(Q, V, x)
<1>1. PICK A, B : A = Ahead(R, U, x) /\ B = Ahead(Q, V, x)  OBVIOUS
<1>2. A \subseteq B \cup G  BY <1>1 DEF Ahead
<1>3. IsFiniteSet(B) /\ IsFiniteSet(A)
  <2>1. A \in SUBSET U /\ B \in SUBSET V  BY <1>1 DEF Ahead
  <2>. QED  BY <2>1, FS_Subset
<1>4. PICK m \in Nat : m = Cardinality(B)  BY <1>3, FS_CardinalityType
<1>5. Cardinality(A) \in Nat  BY <1>3, FS_CardinalityType
<1>6. Cardinality(A) <= m + 1
  <2>1. Cardinality(B) <= m  BY <1>4
  <2>. QED  BY <1>2, <1>3, <2>1, AtMostOneMore
<1>7. ASSUME G = {}  PROVE Cardinality(A) <= m
  <2>1. A \subseteq B /\ Cardinality(B) <= m  BY <1>2, <1>4, <1>7
  <2>. QED  BY <1>3, <2>1, NoMore
<1>8. Place(R, U, x) = Cardinality(A) /\ Place(Q, V, x) = m  BY <1>1, <1>4 DEF Place
<1>. QED  BY <1>5, <1>6, <1>7, <1>8

\* Nor are more of them passed over than leave.
LEMMA MissedMoves ==
  ASSUME NEW R, NEW U, IsFiniteSet(U), IsOrder(R, U), NEW Q, NEW V, IsFiniteSet(V),
         \A x, y \in U \cap V : <<x, y>> \in R => <<x, y>> \in Q,
         NEW G, \A a, b \in G : a = b, U \ V \subseteq G,
         NEW T, V \cap T \subseteq U, NEW k \in Nat, NEW named,
         NEW n \in Nat, Cardinality(Missed(R, U, k, T, named)) <= n
  PROVE  /\ Cardinality(Missed(Q, V, k, T, named)) <= n + 1
         /\ G = {} => Cardinality(Missed(Q, V, k, T, named)) <= n
<1>1. PICK A, B, C : /\ A = Missed(R, U, k, T, named) /\ B = Missed(Q, V, k, T, named)
                     /\ C = {x \in U : Place(R, U, x) = k}
  OBVIOUS
<1>2. \A x, y \in C : x = y  BY <1>1, PlaceOne
<1>3. IsFiniteSet(A)
  <2>1. A \in SUBSET U  BY <1>1 DEF Missed
  <2>. QED  BY <2>1, FS_Subset
<1>4. ASSUME NEW x \in B
      PROVE  /\ x \in U \cap V /\ x \in T /\ x \notin Range(named)
             /\ Place(R, U, x) \in Nat /\ Place(R, U, x) <= k /\ (G = {} => Place(R, U, x) < k)
  <2>1. x \in V /\ Place(Q, V, x) < k /\ x \in T /\ x \notin Range(named)  BY <1>1 DEF Missed
  <2>2. x \in U \cap V  BY <2>1
  <2>3. PICK p, q : p = Place(R, U, x) /\ q = Place(Q, V, x)  OBVIOUS
  <2>4. p \in Nat /\ q \in Nat /\ p <= q + 1 /\ (G = {} => p <= q)  BY <2>2, <2>3, PlacesMove
  <2>. QED  BY <2>1, <2>2, <2>3, <2>4
<1>5. B \subseteq A \cup C
  <2>1. ASSUME NEW x \in B  PROVE x \in A \cup C
    <3>1. Place(R, U, x) < k \/ Place(R, U, x) = k  BY <1>4
    <3>. QED  BY <1>1, <1>4, <3>1 DEF Missed
  <2>. QED  BY <2>1
<1>6. G = {} => B \subseteq A  BY <1>1, <1>4 DEF Missed
<1>7. Cardinality(A) <= n  BY <1>1
<1>8. Cardinality(B) <= n + 1  BY <1>2, <1>3, <1>5, <1>7, AtMostOneMore
<1>9. G = {} => Cardinality(B) <= n  BY <1>3, <1>6, <1>7, NoMore
<1>. QED  BY <1>1, <1>8, <1>9

\* A row at the front leaves the others in order.
LEMMA FrontShows ==
  ASSUME NEW S, NEW s \in Seq(S), NEW a \in S
  PROVE  /\ <<a>> \o s \in Seq(S) /\ Range(<<a>> \o s) = Range(s) \cup {a}
         /\ IsInjective(s) /\ a \notin Range(s) => IsInjective(<<a>> \o s)
         /\ OrderOf(s) \subseteq OrderOf(<<a>> \o s)
<1>1. PICK t : t = <<a>> \o s  OBVIOUS
<1>2. PICK n \in Nat : n = Len(s) /\ DOMAIN s = 1..n  BY LenProperties
<1>3. <<a>> \in Seq(S) /\ IsInjective(<<a>>) /\ Range(<<a>>) = {a} /\ Len(<<a>>) = 1  BY DEF IsInjective, Range
<1>4. t \in Seq(S) /\ Len(t) = 1 + n /\ \A i \in 1..Len(t) : t[i] = IF i <= 1 THEN <<a>>[i] ELSE s[i - 1]
  BY <1>1, <1>2, <1>3, ConcatProperties
<1>5. Range(t) = Range(s) \cup {a} /\ (IsInjective(s) /\ a \notin Range(s) => IsInjective(t))
  <2>1. /\ Range(<<a>> \o s) = Range(<<a>>) \cup Range(s)
        /\ IsInjective(<<a>>) /\ IsInjective(s) /\ Range(<<a>>) \cap Range(s) = {} => IsInjective(<<a>> \o s)
    BY <1>3, ConcatShows
  <2>. QED  BY <1>1, <1>3, <2>1
<1>6. DOMAIN t = 1..(n + 1)  BY <1>4, LenProperties
<1>7. \A i \in 1..n : i + 1 \in 1..(n + 1) /\ t[i + 1] = s[i]
  <2>1. ASSUME NEW i \in 1..n  PROVE i + 1 \in 1..(n + 1) /\ t[i + 1] = s[i]
    <3>1. i + 1 \in 1..Len(t) /\ ~(i + 1 <= 1) /\ (i + 1) - 1 = i  BY <1>4
    <3>. QED  BY <1>4, <3>1
  <2>. QED  BY <2>1
<1>8. ASSUME NEW p \in OrderOf(s)  PROVE p \in OrderOf(t)
  <2>1. PICK i \in 1..n, j \in 1..n : i < j /\ s[i] = p[1] /\ s[j] = p[2]  BY <1>2 DEF OrderOf
  <2>2. i + 1 < j + 1 /\ t[i + 1] = p[1] /\ t[j + 1] = p[2] /\ i + 1 \in DOMAIN t /\ j + 1 \in DOMAIN t
    BY <1>6, <1>7, <2>1
  <2>3. p \in Range(t) \X Range(t)  BY <1>5 DEF OrderOf
  <2>. QED  BY <2>2, <2>3 DEF OrderOf
<1>. QED  BY <1>1, <1>4, <1>5, <1>8

----------------------------------------------------------------------------
(* AttachmentLibrary, the steps.                                           *)

\* What is not the table, the pages or the removal.
LEMMA InitLibrary == LibraryInit => LibraryInv
<1>. SUFFICES ASSUME LibraryInit  PROVE LibraryInv  OBVIOUS
<1>1. PICK n \in Nat : n = Stored /\ n <= Len(Catalog)
  <2>1. Len(Catalog) \in Nat  BY LibraryAssumption, LenProperties
  <2>. QED  BY <2>1, LibraryAssumption
<1>2. TableInv
  <2>1. table = [i \in 1..n |-> n + 1 - i] /\ uploaded = n  BY <1>1 DEF LibraryInit
  <2>2. \A i \in 1..n : n + 1 - i \in 1..n  OBVIOUS
  <2>3. table \in Seq(1..n)  BY <2>1, <2>2
  <2>4. IsInjective(table)
    <3>1. \A i, j \in 1..n : n + 1 - i = n + 1 - j => i = j  OBVIOUS
    <3>2. \A i, j \in 1..n : table[i] = table[j] => i = j  BY <2>1, <3>1
    <3>. QED  BY <2>1, <3>2 DEF IsInjective
  <2>. QED  BY <1>1, <2>1, <2>3, <2>4 DEF TableInv
<1>3. PagesInv
  <2>1. <<>> \in Seq(Seq(RowType))  OBVIOUS
  <2>2. pages = <<>> /\ fetch = [on |-> TRUE, built |-> <<>>, until |-> 1] /\ fresh = NotFresh  BY DEF LibraryInit
  <2>3. fetch \in FetchType  BY <2>1, <2>2 DEF FetchType
  <2>. QED  BY <2>1, <2>2, <2>3 DEF PagesInv, NotFresh
<1>4. RemovalInv  BY DEF LibraryInit, RemovalInv, NoRemoval
<1>. QED  BY <1>2, <1>3, <1>4 DEF LibraryInv

\* The table is not touched.
LEMMA TableStays ==
  ASSUME TableInv, UNCHANGED <<table, uploaded>>
  PROVE  TableInv'
BY DEF TableInv

LEMMA RemovalStays ==
  ASSUME RemovalInv, UNCHANGED <<table, uploaded, attached, removal, target, slipped>>
  PROVE  RemovalInv'
<1>1. UnusedSet' = UnusedSet  BY DEF UnusedSet
<1>2. Passed' = Passed /\ Left' = Left  BY <1>1 DEF Passed, Missed, Left, Place, Ahead, OrderOf, Offset
<1>. QED  BY <1>2 DEF RemovalInv

\* Pages that were read stay as they were read, while the rows stay what they are.
LEMMA PagesStay ==
  ASSUME PagesInv, UNCHANGED <<table, attached>>, NEW p
  PROVE  PagesRight(p)' = PagesRight(p)
BY DEF PagesRight, PageNow, Slice, Offset

\* A fetch that begins again, and none, have no page yet.
LEMMA RefetchShows ==
  ASSUME PagesInv
  PROVE  /\ Refetching \in FetchType /\ Refetching.built = <<>>
         /\ NoFetch \in FetchType /\ NoFetch.built = <<>>
<1>1. <<>> \in Seq(Seq(RowType))  OBVIOUS
<1>2. Len(pages) \in Nat  BY LenProperties DEF PagesInv
<1>. QED  BY <1>1, <1>2 DEF Refetching, NoFetch, FetchType

\* The pages are what they were, and what is said of them still holds or is dropped.
LEMMA PagesKept ==
  ASSUME PagesInv, pages' = pages, fetch' \in FetchType, fetch'.built \in {fetch.built, <<>>},
         \/ fresh' = fresh /\ table' = table /\ attached' = attached
         \/ fresh' = NotFresh
  PROVE  PagesInv'
<1>1. pages' \in Seq(Seq(RowType))  BY DEF PagesInv
<1>2. CASE fresh' = NotFresh  BY <1>1, <1>2 DEF PagesInv, NotFresh
<1>3. CASE fresh' = fresh /\ table' = table /\ attached' = attached
  <2>1. fresh.pages => pages' # <<>> /\ PagesRight(pages)'
    <3>1. PICK p : p = pages  OBVIOUS
    <3>2. PagesRight(p)' = PagesRight(p)  BY <1>3, PagesStay
    <3>3. PagesRight(pages)' = PagesRight(p)'  BY <3>1 DEF PagesRight
    <3>. QED  BY <3>1, <3>2, <3>3 DEF PagesInv
  <2>2. fresh.fetch => PagesRight(fetch.built)'
    <3>1. PICK p : p = fetch.built  OBVIOUS
    <3>2. PagesRight(p)' = PagesRight(p)  BY <1>3, PagesStay
    <3>3. CASE fetch'.built = fetch.built
      <4>1. PagesRight(fetch.built)' = PagesRight(p)'  BY <3>1, <3>3 DEF PagesRight
      <4>. QED  BY <3>1, <3>2, <4>1 DEF PagesInv
    <3>4. CASE fetch'.built = <<>>
      <4>1. DOMAIN fetch'.built = {}  BY <3>4
      <4>. QED  BY <4>1 DEF PagesRight
    <3>. QED  BY <3>3, <3>4
  <2>. QED  BY <1>1, <1>3, <2>1, <2>2 DEF PagesInv
<1>. QED  BY <1>2, <1>3

\* The next page is fetched from the pages there are.
LEMMA FetchNextLibrary ==
  ASSUME LibraryInv, FetchNextPage
  PROVE  LibraryInv'
<1>1. TableInv' /\ RemovalInv'  BY TableStays, RemovalStays DEF FetchNextPage, LibraryInv
<1>2. /\ fetch' = [on |-> TRUE, built |-> pages, until |-> Len(pages) + 1] /\ pages' = pages
      /\ fresh' = [fresh EXCEPT !.fetch = fresh.pages] /\ table' = table /\ attached' = attached
  BY DEF FetchNextPage
<1>3. PICK p : p = pages  OBVIOUS
<1>4. PagesRight(p)' = PagesRight(p)  BY <1>2, PagesStay DEF LibraryInv
<1>5. PagesRight(pages)' = PagesRight(p)' /\ PagesRight(fetch.built)' = PagesRight(p)'  BY <1>2, <1>3 DEF PagesRight
<1>9. fetch' \in FetchType
  <2>1. pages \in Seq(Seq(RowType)) /\ Len(pages) \in Nat  BY LenProperties DEF LibraryInv, PagesInv
  <2>. QED  BY <1>2, <2>1 DEF FetchType
<1>6. /\ pages \in Seq(Seq(RowType)) /\ fresh \in [pages : BOOLEAN, fetch : BOOLEAN]
      /\ (fresh.pages => pages # <<>> /\ PagesRight(p))
  BY <1>3 DEF LibraryInv, PagesInv
<1>7. fresh' \in [pages : BOOLEAN, fetch : BOOLEAN] /\ fresh'.pages = fresh.pages /\ fresh'.fetch = fresh.pages
  BY <1>2, <1>6
<1>8. PagesInv'  BY <1>2, <1>4, <1>5, <1>6, <1>7, <1>9 DEF PagesInv
<1>. QED  BY <1>1, <1>8 DEF LibraryInv

\* A page that arrives is a section of the table.
LEMMA ArrivesLibrary ==
  ASSUME LibraryInv, PageArrives
  PROVE  LibraryInv'
<1>1. TableInv' /\ RemovalInv'  BY TableStays, RemovalStays DEF PageArrives, LibraryInv
<1>2. PICK old \in Seq(Seq(RowType)) : old = fetch.built  BY DEF LibraryInv, PagesInv, FetchType
<1>3. PICK n \in Nat : n = Len(old) /\ DOMAIN old = 1..n  BY <1>2, LenProperties
<1>4. PICK section, built, done : /\ section = PageNow(n) /\ built = Append(old, section)
                                  /\ done = (Len(built) = fetch.until \/ IsLast(section))
  OBVIOUS
<1>5. PICK same : same = (old = <<>> \/ fresh.fetch)  OBVIOUS
<1>6. /\ fetch' = IF done THEN NoFetch ELSE [fetch EXCEPT !.built = built]
      /\ pages' = IF done THEN built ELSE pages
      /\ fresh' = [pages |-> IF done THEN same ELSE fresh.pages, fetch |-> same]
      /\ table' = table /\ attached' = attached
  BY <1>2, <1>3, <1>4, <1>5 DEF PageArrives
<1>7. section \in Seq(RowType)  BY <1>4, PageShows DEF LibraryInv
<1>8. /\ built \in Seq(Seq(RowType)) /\ DOMAIN built = 1..(n + 1) /\ built[n + 1] = section
      /\ \A i \in 1..n : built[i] = old[i]
  BY <1>3, <1>4, <1>7, AppendProperties
<1>9. built # <<>>
  <2>1. 1 \in DOMAIN built  BY <1>8
  <2>. QED  BY <2>1
<1>10. ASSUME same  PROVE PagesRight(built)
  <2>1. \A i \in 1..n : old[i] = PageNow(i - 1)
    <3>1. CASE old = <<>>
      <4>1. n = 0  BY <1>3, <3>1
      <4>. QED  BY <4>1
    <3>2. CASE fresh.fetch  BY <1>2, <1>3, <3>2 DEF LibraryInv, PagesInv, PagesRight
    <3>. QED  BY <1>5, <1>10, <3>1, <3>2
  <2>2. (n + 1) - 1 = n /\ \A i \in 1..(n + 1) : i \in 1..n \/ i = n + 1  BY <1>3
  <2>. QED  BY <1>4, <1>8, <2>1, <2>2 DEF PagesRight
<1>11. PagesRight(built)' = PagesRight(built)  BY <1>6, PagesStay DEF LibraryInv
<1>12. fresh \in [pages : BOOLEAN, fetch : BOOLEAN] /\ same \in BOOLEAN /\ done \in BOOLEAN
  BY <1>4, <1>5 DEF LibraryInv, PagesInv
<1>13. fresh' \in [pages : BOOLEAN, fetch : BOOLEAN] /\ fresh'.fetch = same
       /\ fresh'.pages = IF done THEN same ELSE fresh.pages
  BY <1>6, <1>12
<1>14. CASE done
  <2>1. fetch' = NoFetch /\ pages' = built  BY <1>6, <1>14
  <2>2. PagesRight(pages)' = PagesRight(built)'  BY <2>1 DEF PagesRight
  <2>3. PagesRight(fetch.built)'
    <3>1. DOMAIN fetch'.built = {}  BY <2>1 DEF NoFetch
    <3>. QED  BY <3>1 DEF PagesRight
  <2>4. fetch' \in FetchType  BY <2>1, RefetchShows DEF LibraryInv
  <2>5. fresh'.pages => pages' # <<>> /\ PagesRight(pages)'  BY <1>9, <1>10, <1>11, <1>13, <1>14, <2>1, <2>2
  <2>6. PagesInv'  BY <1>8, <1>13, <2>1, <2>3, <2>4, <2>5 DEF PagesInv
  <2>. QED  BY <1>1, <2>6 DEF LibraryInv
<1>15. CASE ~done
  <2>1. fetch' = [fetch EXCEPT !.built = built] /\ pages' = pages  BY <1>6, <1>15
  <2>2. fetch' \in FetchType /\ fetch'.built = built
    <3>1. fetch \in FetchType  BY DEF LibraryInv, PagesInv
    <3>. QED  BY <1>8, <2>1, <3>1 DEF FetchType
  <2>3. PICK p : p = pages  OBVIOUS
  <2>4. PagesRight(p)' = PagesRight(p)  BY <1>6, PagesStay DEF LibraryInv
  <2>5. PagesRight(pages)' = PagesRight(p)'  BY <2>1, <2>3 DEF PagesRight
  <2>6. PagesRight(fetch.built)' = PagesRight(built)'  BY <2>1 DEF PagesRight
  <2>. QED  BY <1>1, <1>10, <1>11, <1>13, <1>15, <2>1, <2>2, <2>3, <2>4, <2>5, <2>6 DEF LibraryInv, PagesInv
<1>. QED  BY <1>12, <1>14, <1>15

\* The removal rests: the dialog is closed, asks, or waits for the list.
LEMMA RemovalRests ==
  ASSUME RemovalInv, UNCHANGED <<uploaded, target, slipped>>,
         removal' \in [step : {"closed", "asking", "refreshing"}, names : Seq(DOMAIN Catalog), tries : Nat],
         removal'.step = "asking" => removal'.tries = 0
  PROVE  RemovalInv'
BY DEF RemovalInv

\* The removal goes on deleting: nobody is left that was not.
LEMMA RemovalGoesOn ==
  ASSUME LibraryInv, removal.step \in {"deleting", "succeeded"}, UNCHANGED <<uploaded, target, slipped>>,
         removal'.step \in {"deleting", "succeeded"}, removal'.names \in Seq(DOMAIN Catalog), removal'.tries \in Nat,
         removal' = [step |-> removal'.step, names |-> removal'.names, tries |-> removal'.tries],
         removal'.step = "succeeded" => removal'.names = <<>>,
         Left' \subseteq Left
  PROVE  RemovalInv'
<1>1. IsFiniteSet(Left)  BY CountedSets DEF LibraryInv
<1>2. slipped \in Nat /\ Cardinality(Left) <= slipped  BY DEF LibraryInv, RemovalInv
<1>3. Cardinality(Left') <= slipped  BY <1>1, <1>2, NoMore
<1>4. removal' \in [step : {"closed", "asking", "listing", "refreshing", "deleting", "succeeded"},
                    names : Seq(DOMAIN Catalog), tries : Nat]
  OBVIOUS
<1>5. target \subseteq 1..uploaded /\ slipped \in Nat  BY DEF LibraryInv, RemovalInv
<1>6. removal'.step # "asking" /\ removal'.step # "listing"  OBVIOUS
<1>. QED  BY <1>3, <1>4, <1>5, <1>6 DEF RemovalInv

LEMMA RemovalType ==
  ASSUME RemovalInv
  PROVE  /\ removal = [step |-> removal.step, names |-> removal.names, tries |-> removal.tries]
         /\ removal.names \in Seq(DOMAIN Catalog) /\ removal.tries \in Nat
         /\ removal.step \in {"closed", "asking", "listing", "refreshing", "deleting", "succeeded"}
BY DEF RemovalInv

\* Steps that only ask, close or report.
LEMMA DialogLibrary ==
  ASSUME LibraryInv, OpenConfirm \/ CancelConfirm \/ CloseConfirm \/ ReportSuccess
  PROVE  LibraryInv'
<1>1. UNCHANGED <<table, uploaded, attached, pages, target, slipped, fresh>>
  BY DEF OpenConfirm, CancelConfirm, CloseConfirm, ReportSuccess
<1>2. fetch' \in FetchType /\ fetch'.built \in {fetch.built, <<>>}
  BY RefetchShows DEF LibraryInv, PagesInv, OpenConfirm, CancelConfirm, CloseConfirm, ReportSuccess
<1>3. TableInv' /\ PagesInv'  BY <1>1, <1>2, TableStays, PagesKept DEF LibraryInv
<1>4. /\ removal' \in [step : {"closed", "asking", "refreshing"}, names : Seq(DOMAIN Catalog), tries : Nat]
      /\ removal'.step = "asking" => removal'.tries = 0
  <2>1. CASE ReportSuccess
    <3>1. removal' = [removal EXCEPT !.step = "refreshing"]  BY <2>1 DEF ReportSuccess
    <3>. QED  BY <3>1, RemovalType DEF LibraryInv
  <2>2. CASE OpenConfirm \/ CancelConfirm \/ CloseConfirm
    <3>1. <<>> \in Seq(DOMAIN Catalog)  OBVIOUS
    <3>2. PICK step \in {"closed", "asking", "refreshing"} : removal' = [step |-> step, names |-> <<>>, tries |-> 0]
      BY <2>2 DEF OpenConfirm, CancelConfirm, CloseConfirm, NoRemoval
    <3>3. /\ [step |-> step, names |-> <<>>, tries |-> 0]
             \in [step : {"closed", "asking", "refreshing"}, names : Seq(DOMAIN Catalog), tries : Nat]
          /\ [step |-> step, names |-> <<>>, tries |-> 0].tries = 0
      BY <3>1
    <3>. QED  BY <3>2, <3>3
  <2>. QED  BY <2>1, <2>2
<1>5. RemovalInv'  BY <1>1, <1>4, RemovalRests DEF LibraryInv
<1>. QED  BY <1>3, <1>5 DEF LibraryInv

\* The list is fetched again, or its fetch fails.
LEMMA RefetchLibrary ==
  ASSUME LibraryInv, Refetch \/ FetchFails
  PROVE  LibraryInv'
<1>1. UNCHANGED <<table, uploaded, attached, pages, removal, target, slipped, fresh>>  BY DEF Refetch, FetchFails
<1>2. fetch' \in FetchType /\ fetch'.built \in {fetch.built, <<>>}
  BY RefetchShows DEF LibraryInv, Refetch, FetchFails
<1>. QED  BY <1>1, <1>2, TableStays, PagesKept, RemovalStays DEF LibraryInv

\* What is unlinked when the removal is confirmed.
LEMMA ConfirmLibrary ==
  ASSUME LibraryInv, ConfirmDelete
  PROVE  LibraryInv'
<1>1. /\ UNCHANGED <<table, uploaded, attached, pages, fetch, fresh>> /\ removal.step = "asking"
      /\ removal' = [removal EXCEPT !.step = "listing"] /\ target' = ToSet(Unused) /\ slipped' = 0
  BY DEF ConfirmDelete
<1>2. TableInv' /\ PagesInv'
  <2>1. fetch' \in FetchType /\ fetch'.built \in {fetch.built, <<>>}  BY <1>1 DEF LibraryInv, PagesInv
  <2>. QED  BY <1>1, <2>1, TableStays, PagesKept DEF LibraryInv
<1>3. /\ removal' \in [step : {"closed", "asking", "listing", "refreshing", "deleting", "succeeded"},
                       names : Seq(DOMAIN Catalog), tries : Nat]
      /\ removal'.step = "listing" /\ removal'.tries = 0
  BY <1>1 DEF LibraryInv, RemovalInv
<1>4. target' \subseteq 1..uploaded
  <2>1. FilterBy(table, ToSet(table) \ attached) \in Seq(1..uploaded)  BY FilterShows DEF LibraryInv, TableInv
  <2>2. PICK q \in Seq(1..uploaded) : q = Unused  BY <2>1 DEF Unused
  <2>0. DOMAIN q = 1..Len(q) /\ \A i \in 1..Len(q) : q[i] \in 1..uploaded  BY LenProperties, ElementOfSeq
  <2>3. \A x \in Range(q) : x \in 1..uploaded  BY <2>0 DEF Range
  <2>. QED  BY <1>1, <2>2, <2>3 DEF ToSet, Range
<1>5. Passed' = {}
  <2>1. IsFiniteSet(UnusedSet)  BY UnusedSorted DEF LibraryInv
  <2>2. UnusedSet' = UnusedSet /\ OrderOf(table)' = OrderOf(table)  BY <1>1 DEF UnusedSet
  <2>3. Offset(removal.tries)' = 0  BY <1>3, Offsets DEF Offset
  <2>4. Passed' = Missed(OrderOf(table), UnusedSet, 0, target', removal'.names)  BY <2>2, <2>3 DEF Passed
  <2>5. \A a : Place(OrderOf(table), UnusedSet, a) \in Nat  BY <2>1, PlaceType
  <2>. QED  BY <2>4, <2>5 DEF Missed
<1>6. Cardinality(Passed') <= slipped'  BY <1>1, <1>5, FS_EmptySet
<1>7. RemovalInv'  BY <1>1, <1>3, <1>4, <1>6 DEF RemovalInv
<1>. QED  BY <1>2, <1>7 DEF LibraryInv

\* A page of names: nobody before its end is passed over.
LEMMA NamesLibrary ==
  ASSUME LibraryInv, NamesArrive
  PROVE  LibraryInv'
<1>1. PICK k \in Nat, P \in Nat, n \in Nat :
        k = Offset(removal.tries) /\ P = PageSize /\ n = removal.tries /\ P # 0
  BY Offsets, RemovalType, LibraryAssumption DEF LibraryInv
<1>2. PICK q, U, R : q = Unused /\ U = UnusedSet /\ R = OrderOf(table)  OBVIOUS
<1>3. Sorted(R, U, q) /\ IsFiniteSet(U) /\ IsOrder(R, U)  BY <1>2, UnusedSorted DEF LibraryInv
<1>4. PICK L \in Nat : L = Len(q) /\ L = Cardinality(U)  BY <1>3, LenProperties DEF Sorted
<1>5. PICK b \in Nat : b = IF k + P < L THEN k + P ELSE L  BY <1>1, <1>4
<1>6. PICK section, named : section = Slice(Unused, Offset(removal.tries), PageSize) /\ named = removal.names \o section
  OBVIOUS
<1>7. section = SubSeq(q, k + 1, b)  BY <1>1, <1>2, <1>4, <1>5, <1>6 DEF Slice
<1>8. section \in Seq(U) /\ Len(section) = (IF k < b THEN b - k ELSE 0) /\ Range(section) = Covered(R, U, k, b)
  <2>1. b \in Nat /\ b <= Len(q)  BY <1>4, <1>5
  <2>2. Sorted(R, U, q)  BY <1>3
  <2>3. IsFiniteSet(U)  BY <1>3
  <2>4. IsOrder(R, U)  BY <1>3
  <2>5. /\ SubSeq(q, k + 1, b) \in Seq(U) /\ Len(SubSeq(q, k + 1, b)) = (IF k < b THEN b - k ELSE 0)
        /\ Range(SubSeq(q, k + 1, b)) = Covered(R, U, k, b)
    BY SMTT(60), <2>1, <2>2, <2>3, <2>4, SortedSection
  <2>. QED  BY <1>7, <2>5
<1>9. removal.step = "listing" /\ UNCHANGED <<table, uploaded, attached, pages, target, slipped, fresh>>
  BY DEF NamesArrive
<1>10. \/ /\ ~IsLast(section) /\ removal' = [removal EXCEPT !.names = named, !.tries = n + 1] /\ fetch' = fetch
       \/ /\ IsLast(section) /\ named = <<>>
          /\ removal' = [NoRemoval EXCEPT !.step = "refreshing"] /\ fetch' = Refetching
       \/ /\ IsLast(section) /\ removal' = [step |-> "deleting", names |-> named, tries |-> 0] /\ fetch' = fetch
  BY <1>1, <1>6 DEF NamesArrive
<1>11. TableInv' /\ PagesInv'
  <2>1. fetch' \in FetchType /\ fetch'.built \in {fetch.built, <<>>}
    BY <1>10, RefetchShows DEF LibraryInv, PagesInv
  <2>. QED  BY <1>9, <2>1, TableStays, PagesKept DEF LibraryInv
<1>12. named \in Seq(DOMAIN Catalog) /\ Range(named) = Range(removal.names) \cup Range(section)
  <2>1. U \subseteq DOMAIN Catalog
    <3>1. DOMAIN Catalog = 1..Len(Catalog) /\ Len(Catalog) \in Nat  BY LibraryAssumption, LenProperties
    <3>2. \A a \in Range(table) : a \in 1..uploaded  BY LenProperties, ElementOfSeq DEF LibraryInv, TableInv, Range
    <3>. QED  BY <1>2, <3>1, <3>2 DEF LibraryInv, TableInv, UnusedSet
  <2>2. section \in Seq(DOMAIN Catalog)  BY <1>8, <2>1, SeqWidens
  <2>3. removal.names \in Seq(DOMAIN Catalog)  BY RemovalType DEF LibraryInv
  <2>. QED  BY <1>6, <2>2, <2>3, ConcatShows, ConcatProperties
<1>13. PICK A : A = Missed(R, U, k, target, removal.names) /\ IsFiniteSet(A) /\ Cardinality(A) <= slipped
  <2>1. Passed = Missed(R, U, k, target, removal.names)  BY <1>1, <1>2 DEF Passed
  <2>. QED  BY <1>9, <2>1, CountedSets DEF LibraryInv, RemovalInv
<1>14. target \subseteq 1..uploaded /\ slipped \in Nat  BY DEF LibraryInv, RemovalInv
<1>15. \A a : Place(R, U, a) \in Nat /\ (a \in U => Place(R, U, a) < L)  BY <1>3, <1>4, PlaceType
<1>16. \A a \in U : a \in target /\ a \notin Range(named) /\ Place(R, U, a) < b => a \in A
  <2>1. ASSUME NEW a \in U, a \in target, a \notin Range(named), Place(R, U, a) < b  PROVE a \in A
    <3>1. a \notin Covered(R, U, k, b)  BY <1>8, <1>12, <2>1
    <3>2. Place(R, U, a) < k  BY <1>15, <2>1, <3>1 DEF Covered
    <3>. QED  BY <1>12, <1>13, <2>1, <3>2 DEF Missed
  <2>. QED  BY <2>1
<1>17. UnusedSet' = U /\ OrderOf(table)' = R  BY <1>2, <1>9 DEF UnusedSet
<1>18. CASE ~IsLast(section) /\ removal' = [removal EXCEPT !.names = named, !.tries = n + 1]
  <2>1. ~(Len(section) < P)  BY <1>1, <1>18 DEF IsLast
  <2>2. b = k + P  BY <1>1, <1>4, <1>5, <1>8, <2>1
  <2>3. Offset(n + 1) = b  BY <1>1, <2>2, Offsets
  <2>4. removal' = [step |-> "listing", names |-> named, tries |-> n + 1]  BY <1>9, <1>18, RemovalType DEF LibraryInv
  <2>5. Passed' = Missed(R, U, b, target, named)
    <3>1. Offset(removal.tries)' = Offset(n + 1)  BY <2>4 DEF Offset
    <3>. QED  BY <1>9, <1>17, <2>3, <2>4, <3>1 DEF Passed
  <2>6. Passed' \subseteq A  BY <1>16, <2>5 DEF Missed
  <2>7. Cardinality(Passed') <= slipped  BY <1>13, <1>14, <2>6, NoMore
  <2>8. RemovalInv'  BY <1>1, <1>9, <1>12, <1>14, <2>4, <2>7 DEF RemovalInv
  <2>. QED  BY <1>11, <2>8 DEF LibraryInv
<1>19. CASE removal' = [NoRemoval EXCEPT !.step = "refreshing"]
  <2>1. <<>> \in Seq(DOMAIN Catalog)  OBVIOUS
  <2>2. removal' = [step |-> "refreshing", names |-> <<>>, tries |-> 0]  BY <1>19 DEF NoRemoval
  <2>3. RemovalInv'  BY <1>9, <2>1, <2>2, RemovalRests DEF LibraryInv
  <2>. QED  BY <1>11, <2>3 DEF LibraryInv
<1>20. CASE IsLast(section) /\ removal' = [step |-> "deleting", names |-> named, tries |-> 0]
  <2>1. Len(section) < P  BY <1>1, <1>20 DEF IsLast
  <2>2. b = L  BY <1>1, <1>4, <1>5, <1>8, <2>1
  <2>3. Left' \subseteq A  BY <1>9, <1>15, <1>16, <1>17, <1>20, <2>2 DEF Left
  <2>4. Cardinality(Left') <= slipped  BY <1>13, <1>14, <2>3, NoMore
  <2>5. RemovalInv'  BY <1>9, <1>12, <1>14, <1>20, <2>4 DEF RemovalInv
  <2>. QED  BY <1>11, <2>5 DEF LibraryInv
<1>. QED  BY <1>10, <1>18, <1>19, <1>20

\* Rows that are deleted are gone, linked or not.
LEMMA GoneShows ==
  ASSUME LibraryInv, NEW S, Gone(S), UNCHANGED <<uploaded, target>>
  PROVE  /\ TableInv' /\ UnusedSet' = UnusedSet \ S
<1>1. table' = FilterBy(table, ToSet(table) \ S) /\ attached' = attached \ S  BY DEF Gone
<1>2. table' \in Seq(1..uploaded) /\ IsInjective(table') /\ Range(table') = Range(table) \cap (ToSet(table) \ S)
  BY <1>1, FilterShows DEF LibraryInv, TableInv
<1>3. Range(table') = Range(table) \ S  BY <1>2 DEF ToSet, Range
<1>4. TableInv'  BY <1>2 DEF LibraryInv, TableInv
<1>5. UnusedSet' = UnusedSet \ S  BY <1>1, <1>3 DEF UnusedSet
<1>. QED  BY <1>4, <1>5

\* What a chunk and the rest of the names have.
LEMMA ChunkShows ==
  ASSUME RemovalInv
  PROVE  /\ NextChunk(removal.names) \in Seq(DOMAIN Catalog)
         /\ Range(removal.names) \subseteq ToSet(Chunk) \cup Range(NextChunk(removal.names))
<1>1. PICK named \in Seq(DOMAIN Catalog) : named = removal.names  BY RemovalType
<1>2. PICK L \in Nat, B \in Nat : L = Len(named) /\ DOMAIN named = 1..L /\ B = BatchSize
  BY <1>1, LenProperties, LibraryAssumption
<1>3. PICK p, q : p = Chunk /\ q = NextChunk(named)  OBVIOUS
<1>4. PICK c \in Nat : c = IF B < L THEN B ELSE L  BY <1>2
<1>5. p = SubSeq(named, 1, c)
  <2>1. 0 + 1 = 1 /\ 0 + B = B  BY <1>2
  <2>. QED  BY <1>1, <1>2, <1>3, <1>4, <2>1 DEF Chunk, Slice
<1>6. q = SubSeq(named, B + 1, L)
  <2>1. (IF B + L < L THEN B + L ELSE L) = L  BY <1>2
  <2>. QED  BY <1>2, <1>3, <2>1 DEF NextChunk, Slice
<1>7. \A i \in 1..L : named[i] \in DOMAIN Catalog  BY <1>2, ElementOfSeq
<1>8. /\ p \in Seq(DOMAIN Catalog) /\ Len(p) = (IF 1 <= c THEN c - 1 + 1 ELSE 0)
      /\ \A i \in 1..(c - 1 + 1) : p[i] = named[1 + i - 1]
  <2>1. 1 \in Int /\ c \in Int /\ \A i \in 1..c : named[i] \in DOMAIN Catalog  BY <1>4, <1>7
  <2>. QED  BY <1>5, <2>1, SubSeqProperties
<1>9. /\ q \in Seq(DOMAIN Catalog) /\ Len(q) = (IF B + 1 <= L THEN L - (B + 1) + 1 ELSE 0)
      /\ \A i \in 1..(L - (B + 1) + 1) : q[i] = named[B + 1 + i - 1]
  <2>1. B + 1 \in Int /\ L \in Int /\ \A i \in (B + 1)..L : named[i] \in DOMAIN Catalog  BY <1>2, <1>7
  <2>. QED  BY <1>6, <2>1, SubSeqProperties
<1>10. DOMAIN p = 1..Len(p) /\ DOMAIN q = 1..Len(q)  BY <1>8, <1>9, LenProperties
<1>11. ASSUME NEW i \in 1..L  PROVE named[i] \in Range(p) \cup Range(q)
  <2>1. CASE i <= c
    <3>1. Len(p) = c /\ i \in 1..c /\ i \in 1..(c - 1 + 1) /\ 1 + i - 1 = i  BY <1>8, <2>1
    <3>2. p[i] = named[i]  BY <1>8, <3>1
    <3>. QED  BY <1>10, <3>1, <3>2 DEF Range
  <2>2. CASE ~(i <= c)
    <3>1. c = B /\ B + 1 <= L  BY <1>4, <2>2
    <3>2. PICK j \in Nat : j = i - B  BY <2>2, <3>1
    <3>3. Len(q) = L - B /\ j \in 1..(L - B) /\ j \in 1..(L - (B + 1) + 1) /\ B + 1 + j - 1 = i
      BY <1>9, <2>2, <3>1, <3>2
    <3>4. q[j] = named[i]  BY <1>9, <3>3
    <3>. QED  BY <1>10, <3>3, <3>4 DEF Range
  <2>. QED  BY <2>1, <2>2
<1>12. Range(named) \subseteq Range(p) \cup Range(q)  BY <1>2, <1>11 DEF Range
<1>13. ToSet(p) = Range(p)  BY DEF ToSet, Range
<1>. QED  BY <1>1, <1>3, <1>9, <1>12, <1>13

\* A chunk is deleted, refused, deleted without an answer, or not reached.
LEMMA ChunkLibrary ==
  ASSUME LibraryInv, ChunkDeleted
  PROVE  LibraryInv'
<1>1. PICK S, rest : S = ToSet(Chunk) /\ rest = NextChunk(removal.names)  OBVIOUS
<1>2. /\ removal.step = "deleting" /\ Gone(S) /\ UNCHANGED <<uploaded, pages, target, slipped>>
      /\ removal' = IF rest = <<>> THEN [NoRemoval EXCEPT !.step = "succeeded"]
                    ELSE [removal EXCEPT !.names = rest, !.tries = 0]
      /\ fetch' = Refetching
  BY <1>1 DEF ChunkDeleted
<1>3. TableInv' /\ UnusedSet' = UnusedSet \ S  BY <1>2, GoneShows
<1>4. PagesInv'
  <2>1. fetch' \in FetchType /\ fetch'.built \in {fetch.built, <<>>}  BY <1>2, RefetchShows DEF LibraryInv
  <2>2. fresh' = NotFresh  BY <1>2 DEF Gone
  <2>. QED  BY <1>2, <2>1, <2>2, PagesKept DEF LibraryInv
<1>5. rest \in Seq(DOMAIN Catalog) /\ Range(removal.names) \subseteq S \cup Range(rest)
  BY <1>1, ChunkShows DEF LibraryInv
<1>6. /\ removal' = [step |-> removal'.step, names |-> rest, tries |-> 0]
      /\ removal'.step \in {"deleting", "succeeded"} /\ (removal'.step = "succeeded" => rest = <<>>)
  <2>1. CASE rest = <<>>  BY <1>2, <2>1 DEF NoRemoval
  <2>2. CASE rest # <<>>
    <3>1. removal' = [removal EXCEPT !.names = rest, !.tries = 0]  BY <1>2, <2>2
    <3>2. removal' = [step |-> "deleting", names |-> rest, tries |-> 0]  BY <1>2, <3>1, RemovalType DEF LibraryInv
    <3>. QED  BY <3>2
  <2>. QED  BY <2>1, <2>2
<1>7. removal'.names = rest /\ removal'.tries = 0  BY <1>6
<1>8. Left' \subseteq Left  BY <1>2, <1>3, <1>5, <1>7 DEF Left
<1>9. RemovalInv'  BY <1>2, <1>5, <1>6, <1>7, <1>8, RemovalGoesOn
<1>. QED  BY <1>3, <1>4, <1>9 DEF LibraryInv

LEMMA RefusedLibrary ==
  ASSUME LibraryInv, ChunkRefused \/ RequestFails
  PROVE  LibraryInv'
<1>1. UNCHANGED <<table, uploaded, attached, pages, fetch, target, slipped, fresh>>
  BY DEF ChunkRefused, RequestFails
<1>2. fetch' \in FetchType /\ fetch'.built \in {fetch.built, <<>>}  BY <1>1 DEF LibraryInv, PagesInv
<1>3. TableInv' /\ PagesInv'  BY <1>1, <1>2, TableStays, PagesKept DEF LibraryInv
<1>4. \/ removal' = NoRemoval
      \/ removal.step = "deleting" /\ removal' = [removal EXCEPT !.tries = 1]
  BY DEF ChunkRefused, RequestFails, TryAgain
<1>5. CASE removal' = NoRemoval
  <2>1. <<>> \in Seq(DOMAIN Catalog)  OBVIOUS
  <2>2. removal' = [step |-> "closed", names |-> <<>>, tries |-> 0]  BY <1>5 DEF NoRemoval
  <2>3. RemovalInv'  BY <1>1, <2>1, <2>2, RemovalRests DEF LibraryInv
  <2>. QED  BY <1>3, <2>3 DEF LibraryInv
<1>6. CASE removal.step = "deleting" /\ removal' = [removal EXCEPT !.tries = 1]
  <2>1. removal' = [step |-> "deleting", names |-> removal.names, tries |-> 1]  BY <1>6, RemovalType DEF LibraryInv
  <2>2. Left' = Left
    <3>1. UnusedSet' = UnusedSet /\ removal'.names = removal.names  BY <1>1, <2>1 DEF UnusedSet
    <3>. QED  BY <1>1, <3>1 DEF Left
  <2>3. RemovalInv'  BY <1>1, <1>6, <2>1, <2>2, RemovalGoesOn, RemovalType DEF LibraryInv
  <2>. QED  BY <1>3, <2>3 DEF LibraryInv
<1>. QED  BY <1>4, <1>5, <1>6

LEMMA LostLibrary ==
  ASSUME LibraryInv, AnswerLost
  PROVE  LibraryInv'
<1>1. PICK S : S = ToSet(Chunk)  OBVIOUS
<1>2. /\ removal.step = "deleting" /\ Gone(S) /\ UNCHANGED <<uploaded, pages, fetch, target, slipped>>
      /\ removal' = IF removal.tries = 0 THEN [removal EXCEPT !.tries = 1] ELSE NoRemoval
  BY <1>1 DEF AnswerLost, TryAgain
<1>3. TableInv' /\ UnusedSet' = UnusedSet \ S  BY <1>2, GoneShows
<1>4. PagesInv'
  <2>1. fetch' \in FetchType /\ fetch'.built \in {fetch.built, <<>>}  BY <1>2 DEF LibraryInv, PagesInv
  <2>2. fresh' = NotFresh  BY <1>2 DEF Gone
  <2>. QED  BY <1>2, <2>1, <2>2, PagesKept DEF LibraryInv
<1>5. CASE removal' = NoRemoval
  <2>1. <<>> \in Seq(DOMAIN Catalog)  OBVIOUS
  <2>2. removal' = [step |-> "closed", names |-> <<>>, tries |-> 0]  BY <1>5 DEF NoRemoval
  <2>3. UNCHANGED <<uploaded, target, slipped>>  BY <1>2
  <2>4. RemovalInv'  BY <2>1, <2>2, <2>3, RemovalRests DEF LibraryInv
  <2>. QED  BY <1>3, <1>4, <2>4 DEF LibraryInv
<1>6. CASE removal' = [removal EXCEPT !.tries = 1]
  <2>1. removal' = [step |-> "deleting", names |-> removal.names, tries |-> 1]
    BY <1>2, <1>6, RemovalType DEF LibraryInv
  <2>2. Left' \subseteq Left
    <3>1. removal'.names = removal.names  BY <2>1
    <3>. QED  BY <1>2, <1>3, <3>1 DEF Left
  <2>3. RemovalInv'  BY <1>2, <2>1, <2>2, RemovalGoesOn, RemovalType DEF LibraryInv
  <2>. QED  BY <1>3, <1>4, <2>3 DEF LibraryInv
<1>. QED  BY <1>2, <1>5, <1>6

\* What other tabs do: rows may come, at most one unlinked row leaves, which
\* is counted while the names are listed, and the others keep their order.
LEMMA OthersLibrary ==
  ASSUME LibraryInv, Elsewhere, TableInv', uploaded <= uploaded', NEW G, \A a, b \in G : a = b,
         UnusedSet \ UnusedSet' \subseteq G, UnusedSet' \cap target \subseteq UnusedSet,
         \A x, y \in UnusedSet \cap UnusedSet' : <<x, y>> \in OrderOf(table) => <<x, y>> \in OrderOf(table'),
         IsFiniteSet(UnusedSet'),
         slipped' = IF removal.step = "listing" /\ G # {} THEN slipped + 1 ELSE slipped
  PROVE  LibraryInv'
<1>1. UNCHANGED <<pages, fetch, removal, target>> /\ fresh' = NotFresh  BY DEF Elsewhere
<1>2. PagesInv'
  <2>1. fetch' \in FetchType /\ fetch'.built \in {fetch.built, <<>>}  BY <1>1 DEF LibraryInv, PagesInv
  <2>. QED  BY <1>1, <2>1, PagesKept DEF LibraryInv
<1>3. slipped \in Nat /\ slipped' \in Nat
  <2>1. slipped \in Nat  BY DEF LibraryInv, RemovalInv
  <2>. QED  BY <2>1
<1>4. target' \subseteq 1..uploaded'
  <2>1. target \subseteq 1..uploaded /\ uploaded \in Nat /\ uploaded' \in Nat
    BY DEF LibraryInv, RemovalInv, TableInv
  <2>. QED  BY <1>1, <2>1
<1>5. ASSUME removal.step = "listing"  PROVE Cardinality(Passed') <= slipped'
  <2>1. PICK R, U, Q, V, k, named : /\ R = OrderOf(table) /\ U = UnusedSet /\ Q = OrderOf(table') /\ V = UnusedSet'
                                    /\ k = Offset(removal.tries) /\ named = removal.names
    OBVIOUS
  <2>2. k \in Nat  BY <2>1, Offsets, RemovalType DEF LibraryInv
  <2>3. IsFiniteSet(U) /\ IsOrder(R, U)  BY <2>1, UnusedSorted DEF LibraryInv
  <2>4. Cardinality(Missed(R, U, k, target, named)) <= slipped
    BY <1>5, <2>1 DEF LibraryInv, RemovalInv, Passed
  <2>5. Passed' = Missed(Q, V, k, target, named)  BY <1>1, <2>1 DEF Passed, Offset
  <2>6. /\ IsFiniteSet(V) /\ \A x, y \in U \cap V : <<x, y>> \in R => <<x, y>> \in Q
        /\ U \ V \subseteq G /\ V \cap target \subseteq U
    BY <2>1
  <2>7. /\ Cardinality(Missed(Q, V, k, target, named)) <= slipped + 1
        /\ G = {} => Cardinality(Missed(Q, V, k, target, named)) <= slipped
    BY <1>3, <2>2, <2>3, <2>4, <2>6, MissedMoves
  <2>. QED  BY <1>5, <2>5, <2>7
<1>6. ASSUME removal.step \in {"deleting", "succeeded"}  PROVE Cardinality(Left') <= slipped'
  <2>1. Left' \subseteq Left  BY <1>1 DEF Left
  <2>2. IsFiniteSet(Left)  BY CountedSets DEF LibraryInv
  <2>3. Cardinality(Left) <= slipped  BY <1>6 DEF LibraryInv, RemovalInv
  <2>4. slipped' = slipped  BY <1>6
  <2>. QED  BY <1>3, <2>1, <2>2, <2>3, <2>4, NoMore
<1>7. RemovalInv'  BY <1>1, <1>3, <1>4, <1>5, <1>6 DEF LibraryInv, RemovalInv
<1>. QED  BY <1>2, <1>7 DEF LibraryInv

LEMMA TableIds ==
  ASSUME TableInv
  PROVE  Range(table) \subseteq 1..uploaded /\ ToSet(table) = Range(table) /\ IsFiniteSet(Range(table))
<1>1. \A a \in Range(table) : a \in 1..uploaded  BY LenProperties, ElementOfSeq DEF TableInv, Range
<1>. QED  BY <1>1, UnusedSorted DEF ToSet, Range

LEMMA UploadLibrary ==
  ASSUME LibraryInv, UploadElsewhere
  PROVE  LibraryInv'
<1>1. PICK n \in Nat : n = uploaded  BY DEF LibraryInv, TableInv
<1>2. /\ Elsewhere /\ n < Len(Catalog) /\ uploaded' = n + 1 /\ table' = <<n + 1>> \o table
      /\ attached' = attached /\ slipped' = slipped
  BY <1>1 DEF UploadElsewhere
<1>3. Range(table) \subseteq 1..n /\ IsFiniteSet(Range(table))  BY <1>1, TableIds DEF LibraryInv
<1>4. n + 1 \notin Range(table)  BY <1>3
<1>5. table \in Seq(1..(n + 1)) /\ IsInjective(table)
  <2>1. table \in Seq(1..n) /\ 1..n \subseteq 1..(n + 1)  BY <1>1 DEF LibraryInv, TableInv
  <2>. QED  BY <2>1, SeqWidens DEF LibraryInv, TableInv
<1>6. n + 1 \in 1..(n + 1)  OBVIOUS
<1>7. /\ table' \in Seq(1..(n + 1)) /\ Range(table') = Range(table) \cup {n + 1} /\ IsInjective(table')
      /\ OrderOf(table) \subseteq OrderOf(table')
  BY <1>2, <1>4, <1>5, <1>6, FrontShows
<1>8. TableInv'
  <2>1. Len(Catalog) \in Nat  BY LibraryAssumption, LenProperties
  <2>. QED  BY <1>2, <1>7, <2>1 DEF TableInv
<1>9. UnusedSet' = UnusedSet \cup ({n + 1} \ attached)  BY <1>2, <1>7 DEF UnusedSet
<1>10. target \subseteq 1..n  BY <1>1 DEF LibraryInv, RemovalInv
<1>11. UnusedSet' \cap target \subseteq UnusedSet  BY <1>9, <1>10
<1>12. IsFiniteSet(UnusedSet')
  <2>1. IsFiniteSet(Range(table) \cup {n + 1})  BY <1>3, FS_AddElement
  <2>2. UnusedSet' \in SUBSET (Range(table) \cup {n + 1})  BY <1>9 DEF UnusedSet
  <2>. QED  BY <2>1, <2>2, FS_Subset
<1>13. PICK G : G = {}  OBVIOUS
<1>14. /\ \A a, b \in G : a = b
       /\ UnusedSet \ UnusedSet' \subseteq G
       /\ slipped' = (IF removal.step = "listing" /\ G # {} THEN slipped + 1 ELSE slipped)
  BY <1>2, <1>9, <1>13
<1>15. uploaded <= uploaded'  BY <1>1, <1>2
<1>16. \A x, y \in UnusedSet \cap UnusedSet' : <<x, y>> \in OrderOf(table) => <<x, y>> \in OrderOf(table')
  BY <1>7
<1>17. Elsewhere  BY <1>2
<1>. QED  BY <1>8, <1>11, <1>12, <1>14, <1>15, <1>16, <1>17, OthersLibrary

LEMMA LinkLibrary ==
  ASSUME LibraryInv, NEW a \in ToSet(table), LinkElsewhere(a)
  PROVE  LibraryInv'
<1>1. /\ Elsewhere /\ a \notin attached /\ attached' = attached \union {a} /\ uploaded' = uploaded
      /\ table' = <<a>> \o FilterBy(table, ToSet(table) \ {a})
      /\ slipped' = IF removal.step = "listing" THEN slipped + 1 ELSE slipped
  BY DEF LinkElsewhere, Slips
<1>2. ToSet(table) = Range(table) /\ IsFiniteSet(Range(table)) /\ Range(table) \subseteq 1..uploaded
  BY TableIds DEF LibraryInv
<1>3. PICK q : q = FilterBy(table, ToSet(table) \ {a})  OBVIOUS
<1>4. q \in Seq(1..uploaded) /\ IsInjective(q) /\ Range(q) = Range(table) \ {a}
  BY <1>2, <1>3, FilterShows DEF LibraryInv, TableInv
<1>5. a \in 1..uploaded /\ a \notin Range(q)  BY <1>2, <1>4
<1>6. /\ table' \in Seq(1..uploaded) /\ Range(table') = Range(q) \cup {a} /\ IsInjective(table')
      /\ OrderOf(q) \subseteq OrderOf(table')
  <2>1. /\ <<a>> \o q \in Seq(1..uploaded) /\ Range(<<a>> \o q) = Range(q) \cup {a}
        /\ IsInjective(q) /\ a \notin Range(q) => IsInjective(<<a>> \o q)
        /\ OrderOf(q) \subseteq OrderOf(<<a>> \o q)
    BY <1>4, <1>5, FrontShows
  <2>2. table' = <<a>> \o q  BY <1>1, <1>3
  <2>. QED  BY <1>4, <1>5, <2>1, <2>2
<1>7. TableInv'  BY <1>1, <1>6 DEF LibraryInv, TableInv
<1>8. UnusedSet' = UnusedSet \ {a}  BY <1>1, <1>4, <1>6 DEF UnusedSet
<1>9. \A x, y \in UnusedSet \cap UnusedSet' : <<x, y>> \in OrderOf(table) => <<x, y>> \in OrderOf(table')
  <2>1. ASSUME NEW x \in UnusedSet', NEW y \in UnusedSet', <<x, y>> \in OrderOf(table)
        PROVE  <<x, y>> \in OrderOf(table')
    <3>1. x \in Range(table) \cap (ToSet(table) \ {a}) /\ y \in Range(table) \cap (ToSet(table) \ {a})
      BY <1>2, <1>8, <2>1 DEF UnusedSet
    <3>2. <<x, y>> \in OrderOf(q)  BY <1>3, <2>1, <3>1, FilterOrder DEF LibraryInv, TableInv
    <3>. QED  BY <1>6, <3>2
  <2>. QED  BY <2>1
<1>10. IsFiniteSet(UnusedSet')
  <2>1. UnusedSet' \in SUBSET Range(table)  BY <1>8 DEF UnusedSet
  <2>. QED  BY <1>2, <2>1, FS_Subset
<1>11. PICK G : G = {a}  OBVIOUS
<1>12. /\ \A x, y \in G : x = y
       /\ UnusedSet \ UnusedSet' \subseteq G /\ UnusedSet' \cap target \subseteq UnusedSet
       /\ slipped' = (IF removal.step = "listing" /\ G # {} THEN slipped + 1 ELSE slipped)
  BY <1>1, <1>8, <1>11
<1>13. uploaded <= uploaded'  BY <1>1 DEF LibraryInv, TableInv
<1>. QED  BY <1>1, <1>7, <1>9, <1>10, <1>12, <1>13, OthersLibrary

LEMMA DeleteLibrary ==
  ASSUME LibraryInv, NEW a \in ToSet(table), DeleteElsewhere(a)
  PROVE  LibraryInv'
<1>1. /\ Elsewhere /\ attached' = attached \ {a} /\ uploaded' = uploaded
      /\ table' = FilterBy(table, ToSet(table) \ {a})
      /\ slipped' = IF removal.step = "listing" /\ a \notin attached THEN slipped + 1 ELSE slipped
  BY DEF DeleteElsewhere, Slips
<1>2. ToSet(table) = Range(table) /\ IsFiniteSet(Range(table))  BY TableIds DEF LibraryInv
<1>3. table' \in Seq(1..uploaded) /\ IsInjective(table') /\ Range(table') = Range(table) \ {a}
  BY <1>1, <1>2, FilterShows DEF LibraryInv, TableInv
<1>4. TableInv'  BY <1>1, <1>3 DEF LibraryInv, TableInv
<1>5. UnusedSet' = UnusedSet \ {a}  BY <1>1, <1>3 DEF UnusedSet
<1>6. \A x, y \in UnusedSet \cap UnusedSet' : <<x, y>> \in OrderOf(table) => <<x, y>> \in OrderOf(table')
  <2>1. ASSUME NEW x \in UnusedSet', NEW y \in UnusedSet', <<x, y>> \in OrderOf(table)
        PROVE  <<x, y>> \in OrderOf(table')
    <3>1. x \in Range(table) \cap (ToSet(table) \ {a}) /\ y \in Range(table) \cap (ToSet(table) \ {a})
      BY <1>2, <1>5, <2>1 DEF UnusedSet
    <3>. QED  BY <1>1, <2>1, <3>1, FilterOrder DEF LibraryInv, TableInv
  <2>. QED  BY <2>1
<1>7. IsFiniteSet(UnusedSet')
  <2>1. UnusedSet' \in SUBSET Range(table)  BY <1>5 DEF UnusedSet
  <2>. QED  BY <1>2, <2>1, FS_Subset
<1>8. PICK G : G = {a} \ attached  OBVIOUS
<1>9. /\ \A x, y \in G : x = y
      /\ UnusedSet' \cap target \subseteq UnusedSet
      /\ slipped' = (IF removal.step = "listing" /\ G # {} THEN slipped + 1 ELSE slipped)
  BY <1>1, <1>5, <1>8
<1>10. UnusedSet \ UnusedSet' \subseteq G  BY <1>5, <1>8 DEF UnusedSet
<1>11. uploaded <= uploaded'  BY <1>1 DEF LibraryInv, TableInv
<1>. QED  BY <1>1, <1>4, <1>6, <1>7, <1>9, <1>10, <1>11, OthersLibrary

LEMMA NextLibrary == LibraryInv /\ [LibraryNext]_libraryVars => LibraryInv'
<1>1. ASSUME LibraryInv, LibraryNext  PROVE LibraryInv'
  <2>1. CASE FetchNextPage  BY <1>1, <2>1, FetchNextLibrary
  <2>2. CASE Refetch \/ FetchFails  BY <1>1, <2>2, RefetchLibrary
  <2>3. CASE PageArrives  BY <1>1, <2>3, ArrivesLibrary
  <2>4. CASE OpenConfirm \/ CancelConfirm \/ CloseConfirm \/ ReportSuccess  BY <1>1, <2>4, DialogLibrary
  <2>5. CASE ConfirmDelete  BY <1>1, <2>5, ConfirmLibrary
  <2>6. CASE NamesArrive  BY <1>1, <2>6, NamesLibrary
  <2>7. CASE ChunkDeleted  BY <1>1, <2>7, ChunkLibrary
  <2>8. CASE ChunkRefused \/ RequestFails  BY <1>1, <2>8, RefusedLibrary
  <2>9. CASE AnswerLost  BY <1>1, <2>9, LostLibrary
  <2>10. CASE UploadElsewhere  BY <1>1, <2>10, UploadLibrary
  <2>11. CASE \E a \in ToSet(table) : LinkElsewhere(a) \/ DeleteElsewhere(a)
    BY <1>1, <2>11, LinkLibrary, DeleteLibrary
  <2>. QED  BY <1>1, <2>1, <2>2, <2>3, <2>4, <2>5, <2>6, <2>7, <2>8, <2>9, <2>10, <2>11 DEF LibraryNext
<1>2. ASSUME LibraryInv, UNCHANGED libraryVars  PROVE LibraryInv'
  <2>1. UNCHANGED <<table, uploaded, attached, pages, fetch, removal, target, slipped, fresh>>
    BY <1>2 DEF libraryVars
  <2>2. fetch' \in FetchType /\ fetch'.built \in {fetch.built, <<>>}  BY <1>2, <2>1 DEF LibraryInv, PagesInv
  <2>. QED  BY <1>2, <2>1, <2>2, TableStays, PagesKept, RemovalStays DEF LibraryInv
<1>. QED  BY <1>1, <1>2

\* Nobody is left but those that slipped through.
LEMMA RemovedAll == LibraryInv => SuccessMeansGone
<1>. SUFFICES ASSUME LibraryInv, removal.step = "succeeded"
              PROVE  Cardinality({a \in ToSet(table) \ attached : a \in target}) <= slipped
  BY DEF SuccessMeansGone
<1>1. ToSet(table) = Range(table)  BY DEF ToSet, Range
<1>2. removal.names = <<>> /\ Range(<<>>) = {}  BY DEF LibraryInv, RemovalInv, Range
<1>3. Left = {a \in ToSet(table) \ attached : a \in target}  BY <1>1, <1>2 DEF Left, UnusedSet
<1>. QED  BY <1>3 DEF LibraryInv, RemovalInv

(***************************************************************************)
(* The library that has read its last page while the table was at rest     *)
(* shows every attachment once; and when it reports success, of those that *)
(* were unlinked when the removal was confirmed at most as many are left   *)
(* as were linked or deleted elsewhere while their names were listed       *)
(* (useAttachmentLibrary.ts, Attachments.tsx).                             *)
(***************************************************************************)
THEOREM TheLibraryIsFaithful == LibrarySpec => []LibraryFaithful
<1>1. LibraryInv => LibraryFaithful  BY AllShown, RemovedAll DEF LibraryInv, LibraryFaithful
<1>. QED  BY <1>1, InitLibrary, NextLibrary, PTL DEF LibrarySpec

=============================================================================
