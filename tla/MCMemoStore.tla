----------------------------- MODULE MCMemoStore -----------------------------
(* Two requests at a time of two users, one of them an administrator.       *)
EXTENDS MemoStore, TLC

StoreSymmetry == Permutations(Procs) \cup Permutations(Memos)

AllKinds == {"CreateMemo", "CreateMemoComment", "UpdateMemo", "SetMemoAttachments", "SetMemoRelations",
             "DeleteMemo", "CreateAttachment", "DeleteAttachment", "BatchDeleteAttachments",
             "UpsertMemoReaction", "DeleteMemoReaction", "CreateMemoShare", "DeleteMemoShare",
             "DeleteUserNotification", "DeleteUser", "ImportMemoExport"}
==============================================================================
