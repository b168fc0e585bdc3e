----------------------------- MODULE MediaItems -----------------------------
(***************************************************************************)
(* How a list of attachments becomes the items the browser shows: a live   *)
(* photo is one item of two files.  The editor and the attachment library  *)
(* share it.                                                               *)
(*                                                                         *)
(* A file is its position in fs, the list of all files, where it has a     *)
(* kind, the stem of its name and the live photo it belongs to: group 0 is *)
(* none.                                                                   *)
(***************************************************************************)
EXTENDS Naturals, Sequences, ArrayOps

File(kind, stem, group, role) == [kind |-> kind, stem |-> stem, group |-> group, role |-> role]

OfKind(fs, kinds) == {f \in DOMAIN fs : fs[f].kind \in kinds}

\* getAttachmentType: a Photoshop file is no image.
Visuals(fs) == {f \in DOMAIN fs : fs[f].kind \in {"image", "video"} \/ fs[f].role # "none"}

InGroup(fs, s, g) == FilterBy(s, {f \in DOMAIN fs : fs[f].group = g})
With(fs, s, role) == FilterBy(s, {f \in DOMAIN fs : fs[f].role = role})

\* A live photo is complete when its group is one still and one clip.
IsPair(fs, group) == Len(group) = 2 /\ Len(With(fs, group, "still")) = 1 /\ Len(With(fs, group, "clip")) = 1
Pair(fs, group) == With(fs, group, "still") \o With(fs, group, "clip")
Singles(s) == [i \in DOMAIN s |-> <<s[i]>>]
FirstOfGroup(fs, s, i) == \A j \in 1..(i - 1) : fs[s[j]].group # fs[s[i]].group

\* buildAttachmentVisualItems: a group is shown where its first member stands.
VisualItemsAt(fs, s, i) ==
  LET group == InGroup(fs, s, fs[s[i]].group)
      others == FilterBy(group, ToSet(group) \ {s[i]})
  IN IF fs[s[i]].group = 0 THEN <<<<s[i]>>>>
     ELSE IF ~FirstOfGroup(fs, s, i) THEN <<>>
     ELSE IF IsPair(fs, group) THEN <<Pair(fs, group)>>
     ELSE <<<<s[i]>>>> \o Singles(others)

VisualItems(fs, s) == FlattenSeq([i \in DOMAIN s |-> VisualItemsAt(fs, s, i)])
=============================================================================
