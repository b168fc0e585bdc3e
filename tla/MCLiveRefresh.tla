---------------------------- MODULE MCLiveRefresh ----------------------------
(* Instances of LiveRefresh: a tab on the page of a memo of another user.   *)
EXTENDS LiveRefresh

Change(kind, visibility) == [kind |-> kind, visibility |-> visibility, creator |-> "author"]

\* A change the page must show, and one its user may not see.
CommentChanges == {Change("comment.created", "PUBLIC"), Change("memo.created", "PRIVATE")}

\* The table of gaps is complete and exact: for every kind of change, the
\* answers it makes different and no event invalidates are the ones listed.
ASSUME GapsAreListed ==
  \A kind \in Kinds \ {"memo.withdrawn"} :
    LET ch == Change(kind, "PUBLIC")
    IN Changed(ch) \ Invalidated(EventOf(ch)) = Unannounced(ch)

MCEvents == {EventOf(ch) : ch \in Changes}

CommentQuery == {"comments"}
=============================================================================
