------------------------------- MODULE MemoEditor -------------------------------
(***************************************************************************)
(* The memo editor of the web client while it composes a new note or a new *)
(* comment: useMemoInit, useAutoSave, handleSave and the local draft cache *)
(* (web/src/components/MemoEditor), together with the memo service it      *)
(* saves to over a network that loses and delays.                          *)
(*                                                                         *)
(* One browser page.  An editor is one mount of the component; at most one *)
(* is mounted, but a closed editor whose save is still awaiting an answer  *)
(* keeps running and still shares the draft entry and the debounce timer   *)
(* with the editor mounted after it.  The code between two awaits, with    *)
(* the effects React runs for the state it set, is one step.               *)
(***************************************************************************)
EXTENDS MemoApi, FiniteSets

CONSTANTS Editors,         \* mounts of the component that can be alive at once
          Kinds,           \* the editors considered: "memo" (home), "comment"
          StorageMayFail,  \* TRUE: localStorage.setItem may throw (quota)
          MaxLate          \* bound on the abandoned requests still under way

ASSUME MemoEditorAssumption ==
    /\ Kinds \subseteq {"memo", "comment"}
    /\ StorageMayFail \in BOOLEAN
    /\ MaxLate \in Nat

VARIABLES kind,      \* what the editors of this page compose
          ed,        \* editor -> what the component and its pending save hold
          storage,   \* the localStorage entry of this draft key
          timer,     \* the debounced write scheduled for this key, or NoDraft
          wire,      \* editor -> its outstanding call: request, reply or Quiet
          late,      \* requests whose caller has gone, still under way
          owner,     \* id -> the note generateUUID returned it for, or NoNote
          nextNote,  \* history: the next note to be composed
          idOf,      \* history: note -> the id last generated for it
          confirmed, \* history: notes whose save was confirmed to the user
          unkept     \* history: notes sent although the local write failed

history == <<owner, nextNote, idOf, confirmed, unkept>>
vars == <<memos, kind, ed, storage, timer, wire, late, history>>

(***************************************************************************)
(* A draft entry of cacheService, and the state of one editor.  "saving"   *)
(* is where handleSave is suspended: at an RPC, or at the invalidation of  *)
(* the query cache after the save.  "discarded" says that discardDraft has *)
(* recorded the content now in the editor.                                 *)
(***************************************************************************)
Draft == [text: Texts \cup {Blank}, rid: RequestIds \cup {NoId},
          pending: BOOLEAN, note: Notes]
NoDraft == [text |-> Blank, rid |-> NoId, pending |-> FALSE, note |-> NoNote]

Calling == {"creating", "getting", "updating"}

Editor == [mounted: BOOLEAN, content: Texts \cup {Blank}, rid: RequestIds \cup {NoId},
           delivery: {"idle", "sending", "unsent"}, discarded: BOOLEAN,
           saving: Calling \cup {"no", "refreshing"}, persisted: BOOLEAN, note: Notes]
NoEditor == [mounted |-> FALSE, content |-> Blank, rid |-> NoId, delivery |-> "idle",
             discarded |-> FALSE, saving |-> "no", persisted |-> FALSE, note |-> NoNote]

TypeOK ==
    /\ MemoTypeOK
    /\ kind \in Kinds
    /\ ed \in [Editors -> Editor \cup {NoEditor}]
    /\ storage \in Draft \cup {NoDraft}
    /\ timer \in Draft \cup {NoDraft}
    /\ wire \in [Editors -> Request \cup Reply \cup {Quiet}]
    /\ late \subseteq Request
    /\ owner \in [RequestIds -> Notes \cup {NoNote}]
    /\ nextNote \in 1 .. MaxNotes + 1
    /\ idOf \in [Notes -> RequestIds \cup {NoId}]
    /\ confirmed \subseteq Notes
    /\ unkept \subseteq Notes

--------------------------------------------------------------------------------
(***************************************************************************)
(* cacheService.  writeEntry of a blank new note removes the entry; a      *)
(* write that throws leaves the entry as it was.                           *)
(***************************************************************************)
WriteOutcomes == IF StorageMayFail THEN BOOLEAN ELSE {TRUE}

\* Mutant: the entry is stored without its request id.
writeEntryLosesId(d, ok) ==
    storage' = IF d.text = Blank THEN NoDraft ELSE IF ok THEN [d EXCEPT !.rid = NoId] ELSE storage

writeEntry(d, ok) ==
    storage' = IF d.text = Blank THEN NoDraft ELSE IF ok THEN d ELSE storage

clear == storage' = NoDraft /\ timer' = NoDraft

DraftOf(e) == [text |-> e.content, rid |-> e.rid,
               pending |-> e.delivery # "idle", note |-> e.note]

(***************************************************************************)
(* useAutoSave.  The effect runs whenever the content or the delivery      *)
(* metadata of a mounted editor changes: it clears the entry of an empty   *)
(* editor and otherwise schedules a write of the current draft.            *)
(***************************************************************************)
AutoSaveEffect(e) ==
    IF e.content = Blank /\ e.delivery = "idle"
    THEN clear
    ELSE timer' = DraftOf(e) /\ UNCHANGED storage

flushDraft(e, ok) ==
    IF e.discarded
    THEN UNCHANGED <<storage, timer>>
    ELSE IF e.content = Blank /\ e.delivery = "idle"
    THEN clear
    ELSE timer' = NoDraft /\ writeEntry(DraftOf(e), ok)

(***************************************************************************)
(* The debounce timer of cacheService.save fires.                          *)
(***************************************************************************)
TimerFires ==
    /\ timer # NoDraft
    /\ timer' = NoDraft
    /\ \E ok \in WriteOutcomes : writeEntry(timer, ok)
    /\ UNCHANGED <<memos, ed, wire, late, kind, history>>

--------------------------------------------------------------------------------
\* Mutant: a recovered draft gets a new request id when it is sent.
RecoverWithoutId(d) ==
    [NoEditor EXCEPT !.mounted = TRUE, !.content = d.text, !.note = d.note,
                     !.delivery = IF d.pending THEN "unsent" ELSE "idle"]

(***************************************************************************)
(* useMemoInit and the effect that adopts what it found: the draft's text, *)
(* its request id, and "unsent" if a save of it was pending.               *)
(***************************************************************************)
Recover(d) ==
    [NoEditor EXCEPT !.mounted = TRUE, !.content = d.text, !.rid = d.rid, !.note = d.note,
                     !.delivery = IF d.pending THEN "unsent" ELSE "idle"]

FreshEditor(n) == [NoEditor EXCEPT !.mounted = TRUE, !.note = n]

Mount(i) ==
    /\ \A j \in Editors : ~ed[j].mounted
    /\ ed[i] = NoEditor
    /\ \/ /\ storage # NoDraft
          /\ ed' = [ed EXCEPT ![i] = Recover(storage)]
          /\ AutoSaveEffect(Recover(storage))
          /\ UNCHANGED nextNote
       \/ /\ storage = NoDraft
          /\ nextNote \in Notes
          /\ ed' = [ed EXCEPT ![i] = FreshEditor(nextNote)]
          /\ AutoSaveEffect(FreshEditor(nextNote))
          /\ nextNote' = nextNote + 1
    /\ UNCHANGED <<memos, wire, late, owner, idOf, confirmed, unkept, kind>>

(***************************************************************************)
(* The user edits; the editor is read-only while a save is in progress.    *)
(***************************************************************************)
Type(i, t) ==
    LET e == [ed[i] EXCEPT !.content = t, !.discarded = FALSE] IN
    /\ ed[i].mounted
    /\ ed[i].saving = "no"
    /\ t # ed[i].content
    /\ ed' = [ed EXCEPT ![i] = e]
    /\ AutoSaveEffect(e)
    /\ UNCHANGED <<memos, wire, late, kind, history>>

(***************************************************************************)
(* pagehide, or visibilitychange to hidden: the draft is flushed and the   *)
(* page lives on.                                                          *)
(***************************************************************************)
PageHidden(i) ==
    /\ ed[i].mounted
    /\ \E ok \in WriteOutcomes : flushDraft(ed[i], ok)
    /\ UNCHANGED <<memos, ed, wire, late, kind, history>>

(***************************************************************************)
(* What is left of an editor that is not on screen: its running save.      *)
(***************************************************************************)
Settle(e) == IF e.mounted \/ e.saving # "no" THEN e ELSE NoEditor

Unmount(i) ==
    /\ ed[i].mounted
    /\ \E ok \in WriteOutcomes : flushDraft(ed[i], ok)
    /\ ed' = [ed EXCEPT ![i] = Settle([ed[i] EXCEPT !.mounted = FALSE])]
    /\ UNCHANGED <<memos, wire, late, kind, history>>

(***************************************************************************)
(* The page goes away without another event: a crash, or the end of a      *)
(* reload whose pagehide was PageHidden.  Only localStorage survives.      *)
(***************************************************************************)
Abandoned(q) ==
    IF Cardinality(late) < MaxLate /\ q.phase = "request" /\ q.op # "get" THEN {q} ELSE {}

PageLost ==
    /\ ed' = [i \in Editors |-> NoEditor]
    /\ timer' = NoDraft
    /\ wire' = [i \in Editors |-> Quiet]
    /\ late' = late \cup UNION {Abandoned(wire[i]) : i \in Editors}
    /\ UNCHANGED <<memos, storage, kind, history>>

--------------------------------------------------------------------------------
(***************************************************************************)
(* handleSave.  The first step generates the request id if there is none,  *)
(* persists the draft as pending, and sends createMemo; setting the        *)
(* delivery state schedules one more write of the same draft.              *)
(***************************************************************************)
Call(op, e) == [phase |-> "request", op |-> op, rid |-> e.rid, text |-> e.content, note |-> e.note]

UnusedIds == {r \in RequestIds : owner[r] = NoNote}

\* Mutant: ids repeat.
RepeatingId(e) == IF e.rid = NoId THEN RequestIds ELSE {e.rid}

IdsToSend(e) == IF e.rid = NoId THEN UnusedIds ELSE {e.rid}

StartSave(i) ==
    /\ ed[i].mounted
    /\ ed[i].saving = "no"
    /\ ed[i].content # Blank
    /\ \E r \in IdsToSend(ed[i]), ok \in WriteOutcomes :
          LET e == [ed[i] EXCEPT !.rid = r, !.delivery = "sending",
                                 !.saving = "creating", !.persisted = ok] IN
          /\ ed' = [ed EXCEPT ![i] = e]
          /\ writeEntry(DraftOf(e), ok)
          /\ timer' = DraftOf(e)
          /\ wire' = [wire EXCEPT ![i] = Call(IF kind = "comment" THEN "comment" ELSE "create", e)]
          /\ owner' = [owner EXCEPT ![r] = e.note]
          /\ idOf' = [idOf EXCEPT ![e.note] = r]
          /\ unkept' = IF ok THEN unkept ELSE unkept \cup {e.note}
    /\ UNCHANGED <<memos, late, nextNote, confirmed, kind>>

(***************************************************************************)
(* The catch block.  A network error after the draft was persisted shows   *)
(* the note as unsent; any other failure writes the draft as not pending   *)
(* and keeps the request id.                                               *)
(***************************************************************************)
CatchError(i, network) ==
    IF network /\ ed[i].persisted
    THEN /\ ed' = [ed EXCEPT ![i] = Settle([ed[i] EXCEPT !.delivery = "unsent", !.saving = "no"])]
         /\ UNCHANGED <<storage, timer>>
    ELSE LET e == [ed[i] EXCEPT !.delivery = "idle", !.saving = "no"] IN
         /\ ed' = [ed EXCEPT ![i] = Settle(e)]
         /\ \E ok \in WriteOutcomes : writeEntry(DraftOf(e), ok)
         /\ timer' = IF e.mounted THEN DraftOf(e) ELSE NoDraft

(***************************************************************************)
(* The save succeeded: discardDraft, forget the request id, and wait for   *)
(* the query cache.  The cleared delivery metadata runs the autosave       *)
(* effect once more for an editor that is still on screen.                 *)
(***************************************************************************)
ConfirmSave(i) ==
    LET e == [ed[i] EXCEPT !.discarded = TRUE, !.rid = NoId,
                           !.delivery = "idle", !.saving = "refreshing"] IN
    /\ ed' = [ed EXCEPT ![i] = e]
    /\ storage' = NoDraft
    /\ timer' = IF e.mounted THEN DraftOf(e) ELSE NoDraft
    /\ confirmed' = confirmed \cup {e.note}
    /\ UNCHANGED <<owner, nextNote, idOf, unkept, kind>>

Answered(i, outcome) == wire[i].phase = "reply" /\ wire[i].op = outcome

OnSaved(i) ==
    /\ Answered(i, "ok")
    /\ ConfirmSave(i)
    /\ wire' = [wire EXCEPT ![i] = Quiet]
    /\ UNCHANGED <<memos, late>>

\* Mutant: AlreadyExists is shown as a failure.
OnExistsFails(i) ==
    /\ Answered(i, "exists")
    /\ CatchError(i, FALSE)
    /\ wire' = [wire EXCEPT ![i] = Quiet]
    /\ UNCHANGED <<memos, late, kind, history>>

(***************************************************************************)
(* AlreadyExists: fetch the memo stored under the request id and bring it  *)
(* to the editor's state, or find that it already is there.                *)
(***************************************************************************)
OnExists(i) ==
    /\ Answered(i, "exists")
    /\ ed' = [ed EXCEPT ![i].saving = "getting"]
    /\ wire' = [wire EXCEPT ![i] = Call("get", ed[i])]
    /\ UNCHANGED <<memos, storage, timer, late, kind, history>>

\* Mutant: a memo that exists under the id is taken as saved.
OnMemoUnchecked(i) ==
    /\ Answered(i, "memo")
    /\ ConfirmSave(i)
    /\ wire' = [wire EXCEPT ![i] = Quiet]
    /\ UNCHANGED <<memos, late>>

OnMemo(i) ==
    /\ Answered(i, "memo")
    /\ \/ /\ wire[i].text = ed[i].content
          /\ ConfirmSave(i)
          /\ wire' = [wire EXCEPT ![i] = Quiet]
       \/ /\ wire[i].text # ed[i].content
          /\ ed' = [ed EXCEPT ![i].saving = "updating"]
          /\ wire' = [wire EXCEPT ![i] = Call("update", ed[i])]
          /\ UNCHANGED <<storage, timer, kind, history>>
    /\ UNCHANGED <<memos, late>>

OnRejected(i) ==
    /\ Answered(i, "rejected")
    /\ CatchError(i, FALSE)
    /\ wire' = [wire EXCEPT ![i] = Quiet]
    /\ UNCHANGED <<memos, late, kind, history>>

(***************************************************************************)
(* The connection breaks: the request never arrived, arrives later, or     *)
(* was handled and its reply is lost.                                      *)
(***************************************************************************)
OnNetworkError(i) ==
    /\ ed[i].saving \in Calling
    /\ late' = late \cup Abandoned(wire[i])
    /\ wire' = [wire EXCEPT ![i] = Quiet]
    /\ CatchError(i, TRUE)
    /\ UNCHANGED <<memos, kind, history>>

(***************************************************************************)
(* The queries are refetched: the home editor is reset for the next note,  *)
(* the comment editor is closed by its parent (its unmount flush finds the *)
(* draft discarded).                                                       *)
(***************************************************************************)
FinishSave(i) ==
    /\ ed[i].saving = "refreshing"
    /\ \/ /\ ed[i].mounted /\ kind = "memo"
          /\ nextNote \in Notes
          /\ ed' = [ed EXCEPT ![i] = FreshEditor(nextNote)]
          /\ AutoSaveEffect(FreshEditor(nextNote))
          /\ nextNote' = nextNote + 1
       \/ /\ ~ed[i].mounted \/ kind = "comment"
          /\ ed' = [ed EXCEPT ![i] = NoEditor]
          /\ UNCHANGED <<storage, timer, nextNote>>
    /\ UNCHANGED <<memos, wire, late, owner, idOf, confirmed, unkept, kind>>

--------------------------------------------------------------------------------
(***************************************************************************)
(* The server handles a request whose caller waits, or one whose caller    *)
(* has given up.                                                           *)
(***************************************************************************)
Serve(i, outcome) ==
    /\ wire[i].phase = "request"
    /\ Handle(wire[i], outcome)
    /\ wire' = [wire EXCEPT ![i] = ReplyTo(wire[i], outcome)]
    /\ UNCHANGED <<ed, storage, timer, late, kind, history>>

ServeLate(q) ==
    /\ late' = late \ {q}
    /\ \E outcome \in Outcomes : Handle(q, outcome)
    /\ UNCHANGED <<ed, storage, timer, wire, kind, history>>

(***************************************************************************)
(* The page starts with no draft, or with one that an earlier version      *)
(* stored without delivery metadata.                                       *)
(***************************************************************************)
LegacyDrafts == [text: Texts, rid: {NoId}, pending: {FALSE}, note: {1}]

Init ==
    /\ MemoInit
    /\ kind \in Kinds
    /\ ed = [i \in Editors |-> NoEditor]
    /\ storage \in {NoDraft} \cup LegacyDrafts
    /\ timer = NoDraft
    /\ wire = [i \in Editors |-> Quiet]
    /\ late = {}
    /\ owner = [r \in RequestIds |-> NoNote]
    /\ nextNote = IF storage = NoDraft THEN 1 ELSE 2
    /\ idOf = [n \in Notes |-> NoId]
    /\ confirmed = {}
    /\ unkept = {}

Next ==
    \/ \E i \in Editors :
          \/ Mount(i)
          \/ \E t \in Texts \cup {Blank} : Type(i, t)
          \/ PageHidden(i)
          \/ Unmount(i)
          \/ StartSave(i)
          \/ OnSaved(i)
          \/ OnExists(i)
          \/ OnMemo(i)
          \/ OnRejected(i)
          \/ OnNetworkError(i)
          \/ FinishSave(i)
          \/ \E outcome \in Outcomes : Serve(i, outcome)
    \/ \E q \in late : ServeLate(q)
    \/ TimerFires
    \/ PageLost

Spec == Init /\ [][Next]_vars

--------------------------------------------------------------------------------
(***************************************************************************)
(* Lost replies, reloads, remounts and retries never turn one note into    *)
(* two memos while the user has not been told that it is saved: the id is  *)
(* fixed, on disk, before the first request leaves (handleSave), and       *)
(* useMemoInit brings it back.  Notes sent although the local write failed *)
(* are left out: nothing on the device remembers their id.                 *)
(***************************************************************************)
Undecided == Notes \ (confirmed \cup unkept)

AtMostOneMemo ==
    \A n \in Undecided : \A r1, r2 \in RequestIds :
        memos[r1].note = n /\ memos[r2].note = n => r1 = r2

(***************************************************************************)
(* A retry writes over its own note only: whatever request is under way    *)
(* for an id, waiting or late, the memo stored under that id (if any) came *)
(* from the same note.                                                     *)
(***************************************************************************)
RequestsUnderWay == late \cup {wire[i] : i \in {j \in Editors : wire[j].phase = "request"}}

OwnMemoOnly ==
    \A q \in RequestsUnderWay : Exists(q.rid) => memos[q.rid].note = q.note

(***************************************************************************)
(* While a save that handleSave reported as persisted waits for the server *)
(* the page may die at any moment: either a reload recovers the note with  *)
(* the id it was sent under, or the server already has it.                 *)
(***************************************************************************)
InFlightRecoverable ==
    \A i \in Editors :
        ed[i].mounted /\ ed[i].saving \in Calling /\ ed[i].persisted =>
            \/ storage.rid = ed[i].rid /\ storage.text = ed[i].content
            \/ Exists(ed[i].rid)

(***************************************************************************)
(* An empty editor that shows nothing unsent has left nothing behind that  *)
(* a later mount could bring back: no entry and no scheduled write.        *)
(***************************************************************************)
EmptyEditorNoDraft ==
    \A i \in Editors :
        ed[i].mounted /\ ed[i].content = Blank /\ ed[i].delivery = "idle" =>
            storage = NoDraft /\ timer = NoDraft

\* Both: what localStorage holds is what the editor would need again, no less
\* while a save is undecided and nothing once it is empty (cacheService).
DraftFollowsEditor == InFlightRecoverable /\ EmptyEditorNoDraft

(***************************************************************************)
(* The user is told "saved" only when the server holds the text that is in *)
(* the editor, whichever way the save got there: created, reconciled after *)
(* AlreadyExists, or found already stored.                                 *)
(***************************************************************************)
ConfirmedTextStored ==
    [][\A i \in Editors :
          ed[i].saving \in Calling /\ ed'[i].saving = "refreshing" =>
              memos[ed[i].rid].text = ed[i].content]_vars

(***************************************************************************)
(* A note whose save was confirmed is on the server, and a comment among   *)
(* them is attached to its parent memo, although CreateMemoComment stores  *)
(* the row and the relation in two steps.                                  *)
(***************************************************************************)
ConfirmedNoteComplete ==
    \A n \in confirmed : \E r \in RequestIds :
        memos[r].note = n /\ (kind = "comment" => memos[r].linked)

(***************************************************************************)
(* A note whose save was confirmed is not offered again as the draft of a  *)
(* new note: handleSave clears the entry "and prevent[s] the unmount flush *)
(* from writing the just-saved content back as a stale draft".             *)
(***************************************************************************)
ConfirmedNotReoffered ==
    \A i \in Editors :
        ed[i].mounted /\ ed[i].saving = "no" /\ ed[i].rid = NoId =>
            ed[i].note \notin confirmed

(***************************************************************************)
(* Fairness: the user keeps pressing Save or Retry on a note that is       *)
(* there to be sent, the network and the server answer every kind of call  *)
(* again and again without an error where they can, and the page gets to   *)
(* run its continuations.                                                  *)
(***************************************************************************)
Accepts(i, op) ==
    wire[i].op = op /\ \E outcome \in Outcomes \ {"rejected"} : Serve(i, outcome)

Fairness ==
    \A i \in Editors :
        /\ SF_vars(StartSave(i))
        /\ SF_vars(OnSaved(i))
        /\ SF_vars(OnExists(i))
        /\ SF_vars(OnMemo(i))
        /\ WF_vars(OnRejected(i))
        /\ WF_vars(FinishSave(i))
        /\ WF_vars(\E outcome \in Outcomes : Serve(i, outcome))
        /\ \A op \in Ops : SF_vars(Accepts(i, op))

FairSpec == Spec /\ Fairness

(***************************************************************************)
(* A note that is sent again and again is confirmed in the end.  A comment *)
(* need not be: once its row is stored and the reply is lost, every retry  *)
(* is answered with an error that is not AlreadyExists.                    *)
(***************************************************************************)
RetryDelivers ==
    kind = "memo" =>
        \A n \in Notes :
            []<>(\E i \in Editors : ed[i].note = n /\ ed[i].delivery = "sending")
                => <>(n \in confirmed)

================================================================================
