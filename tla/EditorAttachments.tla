------------------------- MODULE EditorAttachments -------------------------
(***************************************************************************)
(* The attachments of a note in the editor: those it already has and the   *)
(* local files chosen, pasted or dropped.  The list shows items; a live    *)
(* photo is one item of two files.  Moving an item rewrites the list of    *)
(* files from the items, so what the items leave out is lost.  Saving      *)
(* uploads the local files one after the other and then sends the whole    *)
(* list.                                                                   *)
(*                                                                         *)
(* MediaItems says how files become items.                                 *)
(***************************************************************************)
EXTENDS Naturals, Sequences, FiniteSets, MediaItems

CONSTANTS
  Picks,          \* the files there are to choose from, [kind, stem]
  MaxBatch,       \* bound on files chosen at once
  MaxBatches,     \* bound on batches added
  MaxTouches,     \* bound on moves, removals and previews
  MaxUploadFails  \* bound on failed uploads

VARIABLES
  files,          \* every file seen so far
  attachments,    \* state.metadata.attachments
  localFiles,     \* state.localFiles
  preview,        \* the preview dialog
  upload,         \* the save under way: how many files are uploaded
  batches, touches, fails,
  wanted,         \* history: the files the user wants in the note
  clicked         \* history: the item whose preview is wanted

mediaVars == <<files, attachments, localFiles, preview, upload, batches, touches, fails,
               wanted, clicked>>

ASSUME MediaAssumption ==
  /\ Picks \subseteq [kind : {"image", "psd", "video", "audio", "document"}, stem : Nat]
  /\ MaxBatch \in Nat /\ MaxBatches \in Nat /\ MaxTouches \in Nat /\ MaxUploadFails \in Nat

\* What a stored note may hold: a document, a Photoshop file, a photo, a live
\* photo of two files and a motion photo.
StoredPool ==
  <<File("document", 0, 0, "none"), File("psd", 0, 0, "none"), File("image", 0, 0, "none"),
    File("video", 0, 9, "clip"), File("image", 0, 9, "still"), File("image", 0, 0, "container")>>

Closed == [open |-> FALSE, index |-> 0]
NoUpload == [on |-> FALSE, done |-> 0]
-----------------------------------------------------------------------------
(* Items: sequences of files that are shown, moved and removed together.   *)

\* toAttachmentItems: visual items first, then audio and documents; categorizeFile
\* takes a Photoshop file for an image all the same.
AttachmentItems ==
  VisualItems(files, FilterBy(attachments, Visuals(files)))
  \o Singles(FilterBy(attachments, OfKind(files, {"audio", "document"}) \ Visuals(files)))

\* toLocalMotionItems: live photos first, then the rest.
LocalItemsAt(s, i) ==
  LET g == files[s[i]].group
      group == InGroup(files, s, g)
  IN IF g = 0 \/ ~FirstOfGroup(files, s, i) THEN <<>>
     ELSE IF IsPair(files, group) THEN <<Pair(files, group)>> ELSE Singles(group)

LocalItems ==
  FlattenSeq([i \in DOMAIN localFiles |-> LocalItemsAt(localFiles, i)])
  \o Singles(InGroup(files, localFiles, 0))

Items == AttachmentItems \o LocalItems

\* previewItems: the items with a picture or a film.
IsPreviewable(item) ==
  Len(item) = 2 \/ files[item[1]].role # "none" \/ files[item[1]].kind \in {"image", "psd", "video"}
PreviewItems == FilterBy(Items, {item \in ToSet(Items) : IsPreviewable(item)})
-----------------------------------------------------------------------------
(* Adding files.                                                           *)

NewIds(batch) == [i \in DOMAIN batch |-> Len(files) + i]
OfStem(batch, stem, kinds) == {i \in DOMAIN batch : batch[i].stem = stem /\ batch[i].kind \in kinds}

\* pairAppleLivePhotoFiles: among the files with one stem, an image and a video
\* that are the only ones of their sort make a live photo.
Paired(batch) ==
  [i \in DOMAIN batch |->
     LET images == OfStem(batch, batch[i].stem, {"image", "psd"})
         videos == OfStem(batch, batch[i].stem, {"video"})
         pair == Cardinality(images) = 1 /\ Cardinality(videos) = 1
         group == CHOOSE j \in images : TRUE
     IN IF pair /\ i \in images THEN File(batch[i].kind, batch[i].stem, Len(files) + group, "still")
        ELSE IF pair /\ i \in videos THEN File(batch[i].kind, batch[i].stem, Len(files) + group, "clip")
        ELSE File(batch[i].kind, batch[i].stem, 0, "none")]

Unpaired(batch) == [i \in DOMAIN batch |-> File(batch[i].kind, batch[i].stem, 0, "none")]

AddFiles(batch, new) ==
  /\ ~upload.on /\ ~preview.open
  /\ batches < MaxBatches
  /\ batches' = batches + 1
  /\ files' = files \o new
  /\ localFiles' = localFiles \o NewIds(batch)
  /\ wanted' = wanted \union ToSet(NewIds(batch))
  /\ UNCHANGED <<attachments, preview, upload, touches, fails, clicked>>

SelectFiles(batch) == AddFiles(batch, Paired(batch))

\* Files that are pasted or dropped are not paired.
PasteFiles(batch) == AddFiles(batch, Unpaired(batch))
-----------------------------------------------------------------------------
(* Moving, removing and previewing an item.                                *)

Touch ==
  /\ ~upload.on /\ ~preview.open
  /\ touches < MaxTouches
  /\ touches' = touches + 1

FirstMember(item) == <<item[1]>>
\* The files of an item, in the order in which they are written back.
Members(item) == item

Swapped(items, i, j) == [items EXCEPT ![i] = items[j], ![j] = items[i]]
Rewritten(items) == FlattenSeq([k \in DOMAIN items |-> Members(items[k])])

MoveAttachment(i, j) ==
  /\ Touch
  /\ attachments' = Rewritten(Swapped(AttachmentItems, i, j))
  /\ UNCHANGED <<files, localFiles, preview, upload, batches, fails, wanted, clicked>>

MoveLocalFile(i, j) ==
  /\ Touch
  /\ localFiles' = Rewritten(Swapped(LocalItems, i, j))
  /\ UNCHANGED <<files, attachments, preview, upload, batches, fails, wanted, clicked>>

\* The button of an item that has no neighbour on that side is disabled.
Neighbours(items) == {p \in (DOMAIN items) \X (DOMAIN items) : p[2] = p[1] + 1 \/ p[1] = p[2] + 1}

Without(s, item) == FilterBy(s, ToSet(s) \ ToSet(item))

RemoveItem(i) ==
  /\ Touch
  /\ attachments' = Without(attachments, Items[i])
  /\ localFiles' = Without(localFiles, Items[i])
  /\ wanted' = wanted \ ToSet(Items[i])
  /\ UNCHANGED <<files, preview, upload, batches, fails, clicked>>

\* handlePreviewItem looks the item up among those the dialog gets.
PreviewIndex(item) == CHOOSE k \in DOMAIN PreviewItems : PreviewItems[k] = item

OpenPreview(i) ==
  /\ Touch
  /\ IsPreviewable(Items[i])
  /\ preview' = [open |-> TRUE, index |-> PreviewIndex(Items[i])]
  /\ clicked' = Items[i]
  /\ UNCHANGED <<files, attachments, localFiles, upload, batches, fails, wanted>>

\* PreviewImageDialog: Next and Previous stop at the ends.
StepPreview(d) ==
  /\ preview.open
  /\ LET to == IF d = "next" THEN preview.index + 1 ELSE preview.index - 1 IN
     /\ to \in DOMAIN PreviewItems
     /\ preview' = [preview EXCEPT !.index = to]
     /\ clicked' = PreviewItems[to]
  /\ UNCHANGED <<files, attachments, localFiles, upload, batches, touches, fails, wanted>>

ClosePreview ==
  /\ preview.open
  /\ preview' = Closed
  /\ clicked' = <<>>
  /\ UNCHANGED <<files, attachments, localFiles, upload, batches, touches, fails, wanted>>
-----------------------------------------------------------------------------
(* Saving.                                                                 *)

StartSave ==
  /\ ~upload.on /\ ~preview.open
  /\ batches > 0 \/ touches > 0
  /\ upload' = [on |-> TRUE, done |-> 0]
  /\ UNCHANGED <<files, attachments, localFiles, preview, batches, touches, fails, wanted, clicked>>

\* uploadFiles sends one file after the other.
UploadFile ==
  /\ upload.on /\ upload.done < Len(localFiles)
  /\ upload' = [upload EXCEPT !.done = @ + 1]
  /\ UNCHANGED <<files, attachments, localFiles, preview, batches, touches, fails, wanted, clicked>>

\* The save ends there; the next one begins with the first file again.
UploadFails ==
  /\ upload.on
  /\ fails < MaxUploadFails
  /\ fails' = fails + 1
  /\ upload' = NoUpload
  /\ UNCHANGED <<files, attachments, localFiles, preview, batches, touches, wanted, clicked>>

\* The note is sent with its attachments and the new ones; the editor, when it is
\* opened again, starts from what was stored.
MemoSaved ==
  /\ upload.on /\ upload.done = Len(localFiles)
  /\ attachments' = attachments \o localFiles
  /\ localFiles' = <<>>
  /\ upload' = NoUpload
  /\ UNCHANGED <<files, preview, batches, touches, fails, wanted, clicked>>
-----------------------------------------------------------------------------
MediaInit ==
  /\ files = StoredPool
  /\ attachments \in {Pick([f \in DOMAIN StoredPool |-> f], S) :
                         S \in {T \in SUBSET DOMAIN StoredPool : Cardinality(T) <= 3}}
  /\ localFiles = <<>>
  /\ preview = Closed
  /\ upload = NoUpload
  /\ batches = 0 /\ touches = 0 /\ fails = 0
  /\ wanted = ToSet(attachments)
  /\ clicked = <<>>

Batches == UNION {[1..n -> Picks] : n \in 1..MaxBatch}

MediaNext ==
  \/ \E b \in Batches : SelectFiles(b) \/ PasteFiles(b)
  \/ \E p \in Neighbours(AttachmentItems) : MoveAttachment(p[1], p[2])
  \/ \E p \in Neighbours(LocalItems) : MoveLocalFile(p[1], p[2])
  \/ \E i \in DOMAIN Items : RemoveItem(i) \/ OpenPreview(i)
  \/ (\E d \in {"next", "previous"} : StepPreview(d)) \/ ClosePreview
  \/ StartSave \/ UploadFile \/ UploadFails \/ MemoSaved

MediaSpec == MediaInit /\ [][MediaNext]_mediaVars
-----------------------------------------------------------------------------
InNote == ToSet(attachments) \union ToSet(localFiles)

(***************************************************************************)
(* Whatever is moved, removed, uploaded again or saved, each file the user *)
(* added and did not remove is in the note exactly once, and no other is;  *)
(* both files of a live photo go together.  The exception is a Photoshop   *)
(* file of a stored note: it is shown nowhere, and a move of the others    *)
(* drops it.                                                               *)
(***************************************************************************)
FilesKept ==
  /\ IsInjective(attachments \o localFiles)
  /\ InNote \subseteq wanted
  /\ \A f \in wanted \ InNote : files[f].kind = "psd"

(***************************************************************************)
(* The preview shows the item that was clicked, and Next and Previous go   *)
(* through exactly the items that have a preview, though the list it is    *)
(* opened from has others in between.                                      *)
(***************************************************************************)
PreviewShowsClicked ==
  preview.open => preview.index \in DOMAIN PreviewItems /\ PreviewItems[preview.index] = clicked

(***************************************************************************)
(* Both: the list of the editor is what is saved and what is previewed     *)
(* (AttachmentListEditor.tsx).                                             *)
(***************************************************************************)
ListIsWhatItShows == FilesKept /\ PreviewShowsClicked
=============================================================================
