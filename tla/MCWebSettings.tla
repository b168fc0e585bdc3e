--------------------------- MODULE MCWebSettings ---------------------------
(***************************************************************************)
(* The tabs of a browser that sign in, the pages on which settings and     *)
(* lists of accounts are edited, the export and the import of memos, and  *)
(* the inbox.                                                              *)
(* They share no state: a behaviour is one of one of them, while the       *)
(* others rest.                                                            *)
(***************************************************************************)
EXTENDS SignInFlow, SettingsLists, InstanceSettings, MemoExport, ImportDialog, Inbox, TLC

VARIABLE focus

TabSymmetry == Permutations(Users) \cup Permutations(Tabs)

WebSettingsInit ==
  /\ focus \in {"sign-in", "lists", "instance", "export", "import", "inbox"}
  /\ SignInInit
  /\ focus # "sign-in" => accounts = Users /\ cookie = Nobody /\ \A x \in Externals : linkOf[x] = Nobody
  /\ ListsInit
  /\ focus # "lists" => part = "shortcuts"
  /\ InstanceInit
  /\ focus # "instance" => key = "TAGS" /\ fetched /\ setting = CHOOSE s \in Stored : TRUE
  /\ ExportInit
  /\ focus # "export" => \A n \in Notes : notes[n] = NotYet
  /\ ImportInit
  /\ focus # "import" => ~others
  /\ InboxInit

WebSettingsNext ==
  \/ focus = "sign-in" /\ SignInNext /\ UNCHANGED <<focus, listVars, instanceVars, exportVars, importVars, inboxVars>>
  \/ focus = "lists" /\ ListsNext /\ UNCHANGED <<focus, signInVars, instanceVars, exportVars, importVars, inboxVars>>
  \/ focus = "instance" /\ InstanceNext /\ UNCHANGED <<focus, signInVars, listVars, exportVars, importVars, inboxVars>>
  \/ focus = "export" /\ ExportNext /\ UNCHANGED <<focus, signInVars, listVars, instanceVars, importVars, inboxVars>>
  \/ focus = "import" /\ ImportNext /\ UNCHANGED <<focus, signInVars, listVars, instanceVars, exportVars, inboxVars>>
  \/ focus = "inbox" /\ InboxNext /\ UNCHANGED <<focus, signInVars, listVars, instanceVars, exportVars, importVars>>

WebSettingsSpec ==
  WebSettingsInit /\ [][WebSettingsNext]_<<focus, signInVars, listVars, instanceVars, exportVars, importVars, inboxVars>>
=============================================================================
