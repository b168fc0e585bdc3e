---------------------------- MODULE ImportDialog ----------------------------
(***************************************************************************)
(* The import of a memo export into an empty account: a file is chosen, a  *)
(* preview asked for, confirmed and imported, with failing requests, lost  *)
(* answers, notes written elsewhere, and a page that is left while a       *)
(* request runs.  MemoStore has the transaction of the import; here it is  *)
(* one step.                                                               *)
(***************************************************************************)
EXTENDS Naturals, FiniteSets

CONSTANTS ExportFiles,   \* exports of some memos that can be imported
          BadFiles,      \* exports whose preview says they cannot
          OtherFiles,    \* files that are refused before they are sent
          MaxChoices,    \* files chosen and imports started
          MaxTroubles    \* lost answers, failed requests, notes elsewhere, pages left

VARIABLES importDialog, \* the state of MemoImportDialog
          call,      \* the request the importDialog waits for
          orphans,   \* imports whose page was left
          restored,  \* the files whose memos the account has
          others,    \* the account has other memos
          choices, troubles,
          lostReply  \* history: the answer of a performed import did not arrive

importVars == <<importDialog, call, orphans, restored, others, choices, troubles, lostReply>>

NoFile == "none"
AnyFile == ExportFiles \cup BadFiles \cup OtherFiles

(* What reset leaves.                                                      *)
Select == [open |-> FALSE, phase |-> "select", busy |-> FALSE, filename |-> NoFile, data |-> NoFile,
           preview |-> NoFile, canImport |-> FALSE, result |-> NoFile, failed |-> FALSE]

NoImportCall == [kind |-> "none", file |-> NoFile, state |-> "none", ok |-> FALSE]
AskImport(kind, file) == [kind |-> kind, file |-> file, state |-> "sent", ok |-> FALSE]

AccountEmpty == restored = {} /\ ~others

Trouble == troubles < MaxTroubles /\ troubles' = troubles + 1
Choice == choices < MaxChoices /\ choices' = choices + 1

----------------------------------------------------------------------------
OpenImport ==
  /\ ~importDialog.open
  /\ importDialog' = [importDialog EXCEPT !.open = TRUE]
  /\ UNCHANGED <<call, orphans, restored, others, choices, troubles, lostReply>>

(* Cancel, Done, Escape or a click outside: not while a request runs.      *)
CloseImport ==
  /\ importDialog.open /\ ~importDialog.busy
  /\ importDialog' = Select
  /\ UNCHANGED <<call, orphans, restored, others, choices, troubles, lostReply>>

(* Mutant: a file may be chosen while another one is being read.           *)
MayChooseAlways == importDialog.open /\ importDialog.phase \in {"select", "preview"}

MayChoose == importDialog.open /\ importDialog.phase \in {"select", "preview"} /\ ~importDialog.busy

(* A file is chosen; one that is empty, too large or not JSON is refused   *)
(* here, any other is sent for a preview.                                  *)
handleFileChange(file) ==
  /\ MayChoose
  /\ Choice
  /\ IF file \in OtherFiles
     THEN /\ importDialog' = [Select EXCEPT !.open = TRUE, !.filename = file, !.failed = TRUE]
          /\ UNCHANGED call
     ELSE /\ importDialog' = [Select EXCEPT !.open = TRUE, !.filename = file, !.busy = TRUE]
          /\ call' = AskImport("preview", file)
  /\ UNCHANGED <<orphans, restored, others, troubles, lostReply>>

(* The server's preview: the file is sound and the account is empty.       *)
PreviewMemoImport ==
  /\ call.kind = "preview" /\ call.state = "sent"
  /\ call' = [call EXCEPT !.state = "served", !.ok = call.file \in ExportFiles /\ AccountEmpty]
  /\ UNCHANGED <<importDialog, orphans, restored, others, choices, troubles, lostReply>>

PreviewArrives ==
  /\ call.kind = "preview" /\ call.state = "served"
  /\ importDialog' = [importDialog EXCEPT !.data = call.file, !.preview = call.file, !.canImport = call.ok, !.phase = "preview", !.busy = FALSE]
  /\ call' = NoImportCall
  /\ UNCHANGED <<orphans, restored, others, choices, troubles, lostReply>>

Continue ==
  /\ importDialog.open /\ importDialog.phase = "preview" /\ ~importDialog.busy /\ importDialog.canImport
  /\ importDialog' = [importDialog EXCEPT !.phase = "confirm"]
  /\ UNCHANGED <<call, orphans, restored, others, choices, troubles, lostReply>>

handleImport ==
  /\ importDialog.open /\ importDialog.phase = "confirm" /\ ~importDialog.busy
  /\ importDialog.data # NoFile /\ importDialog.canImport
  /\ Choice
  /\ importDialog' = [importDialog EXCEPT !.busy = TRUE, !.failed = FALSE]
  /\ call' = AskImport("import", importDialog.data)
  /\ UNCHANGED <<orphans, restored, others, troubles, lostReply>>

Imported(file) == restored' = IF AccountEmpty THEN restored \cup {file} ELSE restored

(* The server imports all of the file or nothing.                          *)
ImportMemoExport ==
  /\ call.kind = "import" /\ call.state = "sent"
  /\ Imported(call.file)
  /\ call' = [call EXCEPT !.state = "served", !.ok = restored' # restored]
  /\ UNCHANGED <<importDialog, orphans, others, choices, troubles, lostReply>>

(* The result is shown; the dialog stays busy until the memo lists and the *)
(* statistics have been fetched again, or could not be.                    *)
ImportArrives ==
  /\ call.kind = "import" /\ call.state = "served"
  /\ IF call.ok
     THEN /\ importDialog' = [importDialog EXCEPT !.result = call.file, !.phase = "result"]
          /\ call' = [NoImportCall EXCEPT !.kind = "refresh"]
     ELSE /\ importDialog' = [importDialog EXCEPT !.failed = TRUE, !.busy = FALSE]
          /\ call' = NoImportCall
  /\ UNCHANGED <<orphans, restored, others, choices, troubles, lostReply>>

ListsRefreshed ==
  /\ call.kind = "refresh"
  /\ importDialog' = [importDialog EXCEPT !.busy = FALSE]
  /\ call' = NoImportCall
  /\ UNCHANGED <<orphans, restored, others, choices, troubles, lostReply>>

(* A request does not reach the server, or its answer is lost.             *)
ImportCallFails ==
  /\ call.kind \in {"preview", "import"}
  /\ Trouble
  /\ importDialog' = [importDialog EXCEPT !.failed = TRUE, !.busy = FALSE]
  /\ lostReply' = (lostReply \/ (call.ok /\ call.kind = "import"))
  /\ call' = NoImportCall
  /\ UNCHANGED <<orphans, restored, others, choices>>

(* The user leaves the page; an import that is under way goes on.          *)
PageLeft ==
  /\ importDialog.open
  /\ Trouble
  /\ importDialog' = Select
  /\ orphans' = IF call.kind = "import" /\ call.state = "sent" THEN orphans \cup {call.file} ELSE orphans
  /\ call' = NoImportCall
  /\ lostReply' = (lostReply \/ call.kind = "import")
  /\ UNCHANGED <<restored, others, choices>>

OrphanServed(file) ==
  /\ Imported(file)
  /\ orphans' = orphans \ {file}
  /\ UNCHANGED <<importDialog, call, others, choices, troubles, lostReply>>

NoteElsewhere ==
  /\ ~others
  /\ Trouble
  /\ others' = TRUE
  /\ UNCHANGED <<importDialog, call, orphans, restored, choices, lostReply>>

----------------------------------------------------------------------------
ImportInit ==
  /\ importDialog = Select
  /\ call = NoImportCall
  /\ orphans = {}
  /\ restored = {}
  /\ others \in BOOLEAN
  /\ choices = 0
  /\ troubles = 0
  /\ lostReply = FALSE

ImportNext ==
  \/ OpenImport \/ CloseImport
  \/ \E file \in AnyFile : handleFileChange(file)
  \/ PreviewMemoImport \/ PreviewArrives \/ Continue
  \/ handleImport \/ ImportMemoExport \/ ImportArrives \/ ListsRefreshed
  \/ ImportCallFails \/ PageLeft \/ NoteElsewhere
  \/ \E file \in orphans : OrphanServed(file)

ImportSpec == ImportInit /\ [][ImportNext]_importVars

----------------------------------------------------------------------------
(* What is confirmed is the file whose name and preview are on the screen; *)
(* a result names the one file the account was filled from; an error after *)
(* the confirmation means that nothing of the file is there, unless an     *)
(* answer was lost; and however often the import is tried, the account     *)
(* never gets two files (MemoImportDialog.tsx, memo_import_service.go).    *)
ImportAsShown ==
  /\ importDialog.phase \in {"preview", "confirm"} => importDialog.data = importDialog.filename /\ importDialog.preview = importDialog.filename
  /\ importDialog.phase = "result" => restored = {importDialog.filename} /\ importDialog.result = importDialog.filename
  /\ importDialog.phase = "confirm" /\ importDialog.failed /\ ~lostReply => importDialog.data \notin restored
  /\ Cardinality(restored) <= 1
=============================================================================
