----------------------------- MODULE VoiceNotes -----------------------------
(***************************************************************************)
(* Voice notes in the memo editor: useAudioRecorder asks for the           *)
(* microphone and records, the panel stops, cancels or transcribes, and    *)
(* the recording ends as a file or as text of the note.  Permission, the   *)
(* recorder's stop event, the transcription and the save of the note are   *)
(* all asynchronous, and the recorder is reset whenever its callbacks      *)
(* change, which they do when the AI setting arrives.                      *)
(*                                                                         *)
(* A recording is its position in recs.  The note is the set of recordings *)
(* it holds as files and as text, and whether anything else was typed.     *)
(***************************************************************************)
EXTENDS Naturals, Sequences, FiniteSets

CONSTANTS
  MaxRecordings,  \* bound on requests for the microphone
  MaxNotes,       \* bound on notes saved
  MaxChanges      \* bound on changes of the AI setting

VARIABLES
  mounted,        \* the editor is on the page
  supported,      \* the browser has a MediaRecorder
  canTranscribe,  \* the AI setting names a usable provider
  startRequestId, \* startRequestIdRef
  status,         \* state.audioRecorder.status
  panel,          \* isAudioRecorderOpen
  isTranscribing, \* isTranscribingAudio
  recorder,       \* mediaRecorderRef and mediaStreamRef: a recording or 0
  mode,           \* completionModeRef
  recs,           \* the recordings so far
  note,           \* the note in the editor
  saving,         \* the note a save under way has taken, or NotSaving
  notes,          \* the notes saved
  changes         \* number of changes of the AI setting

voiceVars == <<mounted, supported, canTranscribe, startRequestId, status, panel, isTranscribing,
               recorder, mode, recs, note, saving, notes, changes>>

ASSUME VoiceAssumption == MaxRecordings \in Nat /\ MaxNotes \in Nat /\ MaxChanges \in Nat

EmptyNote == [files |-> {}, texts |-> {}, typed |-> FALSE]
NotSaving == [files |-> {}, texts |-> {}, typed |-> FALSE, on |-> FALSE]

\* History: what came between a recording and its note.  The recorder was reset
\* under it (cut), a later request came before its stop event (overtaken), it was
\* cancelled, removed or empty, ended while the note was being saved (saving) or
\* after the editor was gone (gone), or its panel was closed (panel).
Struck(r, m) == [r EXCEPT !.mishaps = @ \union {m}]

Recording(id, can) ==
  [id |-> id, can |-> can, stage |-> "asking", mic |-> FALSE, stopped |-> FALSE, mishaps |-> {}]

Busy == status \in {"recording", "requesting_permission"}
UnderWay == {i \in DOMAIN recs : recs[i].stage # "over"}
Locked == saving.on
-----------------------------------------------------------------------------
(* Microphone.                                                             *)

\* resetRecorderRefs: the stream of the current recorder is closed, and a
\* recorder without a stream fires its stop event.
Silenced(rs) ==
  [i \in DOMAIN rs |->
     IF i # recorder THEN rs[i]
     ELSE [rs[i] EXCEPT !.mic = FALSE, !.stopped = TRUE,
                        !.stage = IF @ = "live" THEN "stopping" ELSE @]]

\* handleAudioRecorderClick looks at the status alone; the toolbar is inert while
\* the note is saved.
StartRecording ==
  /\ mounted /\ ~Locked /\ ~Busy
  /\ Len(recs) < MaxRecordings /\ startRequestId < 2 * MaxRecordings
  /\ startRequestId' = startRequestId + 1
  /\ IF supported
     THEN /\ recs' = Append(recs, Recording(startRequestId + 1, canTranscribe))
          /\ status' = "requesting_permission"
          /\ panel' = TRUE
     ELSE /\ status' = "unsupported"
          /\ panel' = FALSE
          /\ UNCHANGED recs
  /\ UNCHANGED <<mounted, supported, canTranscribe, isTranscribing, recorder, mode, note, saving,
                 notes, changes>>

\* The request is still the latest one.
Granted(i) == startRequestId = recs[i].id

\* getUserMedia resolves: record, or give the microphone back.
PermissionGranted(i) ==
  /\ recs[i].stage = "asking"
  /\ IF Granted(i)
     THEN /\ recs' = [recs EXCEPT ![i].stage = "live", ![i].mic = TRUE]
          /\ recorder' = i
          /\ status' = IF mounted THEN "recording" ELSE status
     ELSE /\ recs' = [recs EXCEPT ![i].stage = "over"]
          /\ UNCHANGED <<recorder, status>>
  /\ UNCHANGED <<mounted, supported, canTranscribe, startRequestId, panel, isTranscribing, mode,
                 note, saving, notes, changes>>

\* An effect of the editor closes the panel and shows the error.
PermissionDenied(i) ==
  /\ recs[i].stage = "asking"
  /\ IF Granted(i)
     THEN /\ recs' = [Silenced(recs) EXCEPT ![i].stage = "over"]
          /\ recorder' = 0
          /\ status' = IF mounted THEN "error" ELSE status
          /\ panel' = FALSE
     ELSE /\ recs' = [recs EXCEPT ![i].stage = "over"]
          /\ UNCHANGED <<recorder, status, panel>>
  /\ UNCHANGED <<mounted, supported, canTranscribe, startRequestId, isTranscribing, mode, note,
                 saving, notes, changes>>
-----------------------------------------------------------------------------
(* The panel.                                                              *)

\* The panel is rendered while something is going on; its buttons are disabled
\* while a transcription is under way.
PanelShown == mounted /\ panel /\ (Busy \/ isTranscribing)

Stop(m) ==
  /\ recorder # 0 /\ recs[recorder].stage = "live"
  /\ mode' = m
  /\ recs' = [recs EXCEPT ![recorder].stage = "stopping", ![recorder].stopped = TRUE]

StopClicked ==
  /\ PanelShown /\ ~isTranscribing /\ status # "requesting_permission"
  /\ Stop("attach")
  /\ UNCHANGED <<mounted, supported, canTranscribe, startRequestId, status, panel, isTranscribing,
                 recorder, note, saving, notes, changes>>

\* handleTranscribeAudioRecording; without a recorder to stop nothing changes.
TranscribeClicked ==
  /\ PanelShown /\ canTranscribe /\ ~isTranscribing /\ status # "requesting_permission"
  /\ Stop("transcribe")
  /\ isTranscribing' = TRUE
  /\ UNCHANGED <<mounted, supported, canTranscribe, startRequestId, status, panel, recorder, note,
                 saving, notes, changes>>

\* resetRecording makes every earlier request void.
CancelClicked ==
  /\ PanelShown /\ ~isTranscribing
  /\ startRequestId' = startRequestId + 1
  /\ mode' = "attach"
  /\ recs' = [i \in DOMAIN recs |->
                IF recs[i].id = startRequestId /\ recs[i].stage # "over"
                THEN Struck(Silenced(recs)[i], "cancelled") ELSE recs[i]]
  /\ recorder' = 0
  /\ status' = "idle"
  /\ panel' = FALSE
  /\ UNCHANGED <<mounted, supported, canTranscribe, isTranscribing, note, saving, notes, changes>>
-----------------------------------------------------------------------------
(* The end of a recording.                                                 *)

\* What the end of a recording meets: the editor is gone, or the note is on its
\* way to the server without it.
Late(r) == IF ~mounted THEN Struck(r, "gone") ELSE IF Locked THEN Struck(r, "saving") ELSE r

WithFile(i) == IF mounted THEN [note EXCEPT !.files = @ \union {i}] ELSE note
WithText(i) == IF mounted THEN [note EXCEPT !.texts = @ \union {i}] ELSE note

\* onRecordingComplete and onRecordingEmpty: attach, hand over to the
\* transcription if that was possible when the recording began, or forget it.
Completed(i, empty) ==
  LET transcribe == mode = "transcribe" /\ ~empty /\ recs[i].can
      over == IF empty THEN Struck(recs[i], "empty") ELSE Late(recs[i])
  IN /\ recs' = [Silenced(recs) EXCEPT
                   ![i] = [(IF transcribe THEN recs[i] ELSE over) EXCEPT
                             !.stage = IF transcribe THEN "transcribing" ELSE "over", !.mic = FALSE]]
     /\ note' = IF transcribe \/ empty THEN note ELSE WithFile(i)
     /\ isTranscribing' = IF mode = "transcribe" THEN transcribe ELSE isTranscribing
     /\ panel' = IF transcribe THEN panel ELSE FALSE

StopEvent(i) ==
  /\ recs[i].stage = "stopping"
  /\ IF Granted(i)
     THEN /\ \E empty \in BOOLEAN : Completed(i, empty)
          /\ mode' = "attach"
          /\ status' = IF mounted THEN "idle" ELSE status
          /\ recorder' = 0
     ELSE /\ recs' = [recs EXCEPT ![i] = [Struck(@, "overtaken") EXCEPT !.stage = "over"]]
          /\ UNCHANGED <<note, isTranscribing, panel, mode, status, recorder>>
  /\ UNCHANGED <<mounted, supported, canTranscribe, startRequestId, saving, notes, changes>>

NoteAfterDropped(i, text) == IF text THEN WithText(i) ELSE note
\* A transcription that came back empty or failed leaves the recording as a file.
NoteAfter(i, text) == IF text THEN WithText(i) ELSE WithFile(i)

\* handleTranscribeRecordedAudio closes the panel at the end, also that of a
\* recording begun meanwhile.
TranscriptionEnds(i) ==
  /\ recs[i].stage = "transcribing"
  /\ \E text \in BOOLEAN : note' = NoteAfter(i, text)
  /\ recs' = [j \in DOMAIN recs |->
                CASE j = i -> [Late(recs[i]) EXCEPT !.stage = "over"]
                  [] j # i /\ recs[j].stage \in {"asking", "live", "stopping"} -> Struck(recs[j], "panel")
                  [] OTHER -> recs[j]]
  /\ isTranscribing' = FALSE
  /\ panel' = FALSE
  /\ UNCHANGED <<mounted, supported, canTranscribe, startRequestId, status, recorder, mode, saving,
                 notes, changes>>
-----------------------------------------------------------------------------
(* The callbacks change, the editor goes away.                             *)

\* The cleanup of the recorder's effect: it does not void the request.
Cut == [i \in DOMAIN recs |->
          IF recs[i].stage \in {"asking", "live", "stopping"} THEN Struck(Silenced(recs)[i], "cut")
          ELSE recs[i]]

AISettingArrives ==
  /\ mounted
  /\ changes < MaxChanges
  /\ changes' = changes + 1
  /\ canTranscribe' = ~canTranscribe
  /\ recs' = Cut
  /\ recorder' = 0
  /\ status' = IF supported THEN "idle" ELSE "unsupported"
  /\ UNCHANGED <<mounted, supported, startRequestId, panel, isTranscribing, mode, note, saving,
                 notes>>

Unmount ==
  /\ mounted
  /\ mounted' = FALSE
  /\ recs' = Cut
  /\ recorder' = 0
  /\ note' = EmptyNote
  /\ UNCHANGED <<supported, canTranscribe, startRequestId, status, panel, isTranscribing, mode,
                 saving, notes, changes>>
-----------------------------------------------------------------------------
(* The note.                                                               *)

TypeText ==
  /\ mounted /\ ~Locked /\ ~note.typed
  /\ note' = [note EXCEPT !.typed = TRUE]
  /\ UNCHANGED <<mounted, supported, canTranscribe, startRequestId, status, panel, isTranscribing,
                 recorder, mode, recs, saving, notes, changes>>

RemoveFile(i) ==
  /\ mounted /\ ~Locked
  /\ i \in note.files
  /\ note' = [note EXCEPT !.files = @ \ {i}]
  /\ recs' = [recs EXCEPT ![i] = Struck(@, "removed")]
  /\ UNCHANGED <<mounted, supported, canTranscribe, startRequestId, status, panel, isTranscribing,
                 recorder, mode, saving, notes, changes>>

\* validationService.canSave; a transcription under way does not hold a save up.
CanSave == note # EmptyNote /\ ~Busy /\ ~Locked

SaveNote ==
  /\ mounted /\ CanSave
  /\ Len(notes) < MaxNotes
  /\ saving' = [files |-> note.files, texts |-> note.texts, typed |-> note.typed, on |-> TRUE]
  /\ UNCHANGED <<mounted, supported, canTranscribe, startRequestId, status, panel, isTranscribing,
                 recorder, mode, recs, note, notes, changes>>

\* RESET empties the editor, whatever came in since the save began, and its
\* recorder state.
NoteSaved ==
  /\ saving.on
  /\ notes' = Append(notes, saving)
  /\ saving' = NotSaving
  /\ note' = EmptyNote
  /\ status' = IF mounted THEN "idle" ELSE status
  /\ UNCHANGED <<mounted, supported, canTranscribe, startRequestId, panel, isTranscribing, recorder,
                 mode, recs, changes>>

NoteNotSaved ==
  /\ saving.on
  /\ saving' = NotSaving
  /\ UNCHANGED <<mounted, supported, canTranscribe, startRequestId, status, panel, isTranscribing,
                 recorder, mode, recs, note, notes, changes>>
-----------------------------------------------------------------------------
VoiceInit ==
  /\ mounted = TRUE
  /\ supported \in BOOLEAN /\ canTranscribe \in BOOLEAN
  /\ startRequestId = 0
  /\ status = IF supported THEN "idle" ELSE "unsupported"
  /\ panel = FALSE /\ isTranscribing = FALSE
  /\ recorder = 0
  /\ mode = "attach"
  /\ recs = <<>>
  /\ note = EmptyNote
  /\ saving = NotSaving
  /\ notes = <<>>
  /\ changes = 0

VoiceNext ==
  \/ StartRecording \/ StopClicked \/ TranscribeClicked \/ CancelClicked
  \/ \E i \in UnderWay : \/ PermissionGranted(i) \/ PermissionDenied(i)
                        \/ StopEvent(i) \/ TranscriptionEnds(i)
  \/ AISettingArrives \/ Unmount
  \/ TypeText \/ (\E i \in note.files : RemoveFile(i))
  \/ SaveNote \/ NoteSaved \/ NoteNotSaved

VoiceSpec == VoiceInit /\ [][VoiceNext]_voiceVars
-----------------------------------------------------------------------------
Copies(i) ==
  Cardinality({k \in DOMAIN notes : i \in notes[k].files \union notes[k].texts})
  + (IF i \in note.files THEN 1 ELSE 0) + (IF i \in note.texts THEN 1 ELSE 0)

(***************************************************************************)
(* A recording that was stopped, sent to be transcribed or ended by a      *)
(* reset of the recorder is in the note, or in one note saved from it,     *)
(* exactly once: neither a failed transcription nor a second recording, a  *)
(* save or a late event loses or doubles it.  The exceptions are the ones  *)
(* the code has: it was cancelled, removed or empty, another recording was *)
(* begun before its stop event, it ended while the note was being saved,   *)
(* or the editor is gone.                                                  *)
(***************************************************************************)
FinishedRecordingKept ==
  \A i \in DOMAIN recs :
    /\ Copies(i) <= 1
    /\ recs[i].stage = "over" /\ recs[i].stopped /\ recs[i].mishaps \subseteq {"panel", "cut"}
       => Copies(i) = 1 \/ ~mounted

(***************************************************************************)
(* The microphone is on only for the recording whose panel is shown, so    *)
(* that it can be stopped: a request that was cancelled gives it back, and *)
(* so does the end of a recording.  Two gaps of the code are excepted:     *)
(* permission given after the recorder was reset or the editor was gone,   *)
(* and a panel closed by the end of another recording's transcription.     *)
(***************************************************************************)
MicrophoneHasPanel ==
  \A i \in DOMAIN recs :
    recs[i].mic /\ recs[i].mishaps = {} => recorder = i /\ PanelShown

(***************************************************************************)
(* Both: every recording can be ended by the user, and ends in the note    *)
(* (useAudioRecorder.ts, MemoEditor/index.tsx).                            *)
(***************************************************************************)
RecordingsEndInNote == FinishedRecordingKept /\ MicrophoneHasPanel
=============================================================================
