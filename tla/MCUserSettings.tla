--------------------------- MODULE MCUserSettings ---------------------------
(* Two requests at a time on a list of up to two webhooks or tokens.         *)
EXTENDS UserSettings, TLC

SettingSymmetry == Permutations(Procs) \cup Permutations(Items)
=============================================================================
