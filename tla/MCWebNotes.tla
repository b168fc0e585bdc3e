----------------------------- MODULE MCWebNotes -----------------------------
(***************************************************************************)
(* What a browser does with a note besides its text: the card's buttons,   *)
(* recordings, attachments, a location, links, and the attachment library. *)
(* The parts share no state: a behaviour is one of one of them, while the  *)
(* others rest.                                                            *)
(***************************************************************************)
EXTENDS MemoMutations, VoiceNotes, EditorAttachments, NoteLocation, NoteLinks, AttachmentLibrary, TLC

VARIABLE focus

\* An image and a video with the same stem.
MCPicks == {[kind |-> "image", stem |-> 1], [kind |-> "video", stem |-> 1]}

\* Three places, two of them in one street.
MCStreets == <<"main", "main", "side">>

\* The memos a search finds.
MCHits == "" :> {"own", "a", "b"} @@ "a" :> {"a"}

\* A live photo of two files and a Photoshop file; a recording and a document follow.
MCCatalog ==
  <<File("image", 0, 1, "still"), File("video", 0, 1, "clip"), File("psd", 0, 0, "none"),
    File("audio", 0, 0, "none"), File("document", 0, 0, "none")>>
MCMonthOf == <<1, 1, 2, 2, 2>>

WebNotesInit ==
  /\ focus \in {"card", "voice", "files", "place", "links", "library"}
  /\ MutationInit
  /\ focus # "card" => page = "home"
  /\ VoiceInit
  /\ focus # "voice" => supported /\ canTranscribe
  /\ MediaInit
  /\ focus # "files" => attachments = <<>>
  /\ LocationInit
  /\ focus # "place" => location = NoLocation
  /\ LinksInit
  /\ focus # "links" => parent = NewMemo
  /\ LibraryInit
  /\ focus # "library" => attached = {}

WebNotesNext ==
  \/ /\ focus = "card" /\ MutationNext
     /\ UNCHANGED <<focus, voiceVars, mediaVars, locationVars, linkVars, libraryVars>>
  \/ /\ focus = "voice" /\ VoiceNext
     /\ UNCHANGED <<focus, mutationVars, mediaVars, locationVars, linkVars, libraryVars>>
  \/ /\ focus = "files" /\ MediaNext
     /\ UNCHANGED <<focus, mutationVars, voiceVars, locationVars, linkVars, libraryVars>>
  \/ /\ focus = "place" /\ LocationNext
     /\ UNCHANGED <<focus, mutationVars, voiceVars, mediaVars, linkVars, libraryVars>>
  \/ /\ focus = "links" /\ LinksNext
     /\ UNCHANGED <<focus, mutationVars, voiceVars, mediaVars, locationVars, libraryVars>>
  \/ /\ focus = "library" /\ LibraryNext
     /\ UNCHANGED <<focus, mutationVars, voiceVars, mediaVars, locationVars, linkVars>>

WebNotesSpec ==
  WebNotesInit
  /\ [][WebNotesNext]_<<focus, mutationVars, voiceVars, mediaVars, locationVars, linkVars, libraryVars>>
=============================================================================
