----------------------------- MODULE LiveRefresh -----------------------------
(***************************************************************************)
(* Live refresh end to end: the memo handlers that commit a change and     *)
(* then announce it, the hub and its streams (SSEHub), and one browser tab *)
(* running useLiveMemoRefresh with the React Query cache of the page it    *)
(* shows.  An effect stands for one run of the hook's useEffect: the hook  *)
(* runs it again when the user's name changes, and the closures of the old *)
(* and the new run share the module's status, the resync flag and the      *)
(* reference to the last AbortController.                                  *)
(***************************************************************************)
EXTENDS SSEHub

CONSTANTS
  Effects,     \* runs of the effect, mounted one after the other
  Active,      \* the queries the page shows
  Changes,     \* the changes other users commit
  MaxChanges,  \* bound on committed changes
  MaxFaults,   \* bound on lost connections and failed requests
  None         \* no connection, no effect

VARIABLES
  pending,   \* per sender: the change committed and not announced yet
  changes,   \* number of changes committed
  faults,    \* number of faults so far
  eff,       \* the runs of the effect
  abortRef,  \* abortControllerRef.current: whose controller it is
  hasConnectedOnce,
  status,    \* _status, the connection indicator
  view,      \* per active query: what is shown and the refetch under way
  unheard,   \* history: active queries whose news was lost on its way
  untold     \* history: active queries no event is sent about

tabVars == <<eff, abortRef, hasConnectedOnce, status>>
liveVars == <<hubVars, pending, changes, faults, tabVars, view, unheard, untold>>

Queries == {"lists", "stats", "detail", "comments"}

Kinds == {"memo.created", "memo.updated", "memo.withdrawn", "memo.deleted", "memo.reaction",
          "comment.created", "comment.updated", "comment.deleted", "comment.reaction"}

ASSUME LiveAssumption ==
  /\ Active \subseteq Queries
  /\ \A ch \in Changes : ch.kind \in Kinds /\ ch.visibility \in {"PRIVATE", "PROTECTED", "PUBLIC"}
  /\ MaxChanges \in Nat /\ MaxFaults \in Nat
  /\ None \notin Conns \cup Effects

-----------------------------------------------------------------------------
(* What a change does and how it is announced.  The page is the page of    *)
(* one memo; "detail" and "comments" are the queries of that memo.         *)

Sees(ch) == ch.visibility # "PRIVATE" \/ ch.creator = Viewer \/ ch.kind = "memo.withdrawn"

\* The answers of ListMemos, GetUserStats, GetMemo and ListMemoComments that
\* the change makes different; memos carry their reactions and relations.
Changed(ch) ==
  IF ~Sees(ch) THEN {} ELSE
    CASE ch.kind = "memo.created" -> {"lists", "stats"}
      [] ch.kind = "memo.updated" -> {"lists", "stats", "detail"}
      [] ch.kind \in {"memo.withdrawn", "memo.deleted"} -> Queries
      [] ch.kind = "memo.reaction" -> {"lists", "detail"}
      [] ch.kind \in {"comment.created", "comment.deleted"} -> {"lists", "detail", "comments"}
      [] ch.kind \in {"comment.updated", "comment.reaction"} -> {"comments"}

Affects(ch) == Active \cap Changed(ch)

\* The events of the handlers: of says which memo Name denotes, parent whether
\* Parent is set.
Event(ch, type, of, parent) ==
  [type |-> type, of |-> of, parent |-> parent, visibility |-> ch.visibility, creator |-> ch.creator]

IsComment(ch) == ch.kind \in {"comment.created", "comment.updated", "comment.deleted", "comment.reaction"}
Subject(ch) == IF IsComment(ch) THEN "comment" ELSE "memo"

CreatedEvent(ch) == Event(ch, "memo.created", "other", FALSE)
UpdatedEvent(ch) == Event(ch, "memo.updated", Subject(ch), IsComment(ch))
DeletedEvent(ch) == Event(ch, "memo.deleted", Subject(ch), FALSE)
CommentEvent(ch) == Event(ch, "memo.comment.created", "memo", FALSE)
ReactionEvent(ch) == Event(ch, "reaction", Subject(ch), IsComment(ch))

EventOf(ch) ==
  CASE ch.kind = "memo.created" -> CreatedEvent(ch)
    [] ch.kind \in {"memo.updated", "memo.withdrawn", "comment.updated"} -> UpdatedEvent(ch)
    [] ch.kind \in {"memo.deleted", "comment.deleted"} -> DeletedEvent(ch)
    [] ch.kind = "comment.created" -> CommentEvent(ch)
    [] ch.kind \in {"memo.reaction", "comment.reaction"} -> ReactionEvent(ch)

ASSUME EventsAssumption == \A ch \in Changes : EventOf(ch) \in Events

handleSSEEventNoComments(e) == Active \cap
  ((IF e.type = "memo.comment.created" THEN {} ELSE {"lists"})
   \cup (IF e.type \in {"memo.created", "memo.deleted"} THEN {"stats"} ELSE {})
   \cup (IF e.of = "memo" /\ e.type # "memo.deleted" THEN {"detail"} ELSE {}))

\* The queries an event invalidates.  memo.deleted removes the detail query
\* instead, which leaves what the page shows as it is.
Invalidated(e) ==
  (IF e.type = "memo.comment.created" THEN {"comments"} ELSE {"lists"})
  \cup (IF e.type \in {"memo.created", "memo.deleted"} THEN {"stats"} ELSE {})
  \cup (IF e.of = "memo" /\ e.type # "memo.deleted" THEN {"detail"} ELSE {})
  \cup (IF e.parent THEN {"comments"} ELSE {})

\* Only active queries are fetched again.
handleSSEEvent(e) == Active \cap Invalidated(e)

\* The gaps of the protocol: what no event tells this tab to fetch again.
Unannounced(ch) ==
  CASE ch.kind = "memo.updated" -> {"stats"}
    [] ch.kind = "memo.withdrawn" -> Queries
    [] ch.kind = "memo.deleted" -> {"detail", "comments"}
    [] ch.kind = "comment.created" -> {"lists"}
    [] ch.kind = "comment.deleted" -> {"detail", "comments"}
    [] OTHER -> {}
-----------------------------------------------------------------------------
(* The React Query cache (external) and the requests behind it.            *)

\* invalidateQueries on active queries: a refetch under way is restarted.
Invalidate(qs) == [q \in Active |-> IF q \in qs THEN [view[q] EXCEPT !.fetch = "asked"] ELSE view[q]]

\* A commit makes what is shown, and an answer under way, out of date.
Outdate(qs) ==
  [q \in Active |-> IF q \notin qs THEN view[q]
                    ELSE [shown |-> "stale", fetch |-> IF view[q].fetch = "fresh" THEN "stale" ELSE view[q].fetch]]

Answer(q) ==
  /\ server = "serving"
  /\ view[q].fetch = "asked"
  /\ view' = [view EXCEPT ![q].fetch = "fresh"]
  /\ unheard' = unheard \ {q}
  /\ untold' = untold \ {q}
  /\ UNCHANGED <<hubVars, pending, changes, faults, tabVars>>

Arrive(q) ==
  /\ view[q].fetch \in {"fresh", "stale"}
  /\ view' = [view EXCEPT ![q] = [shown |-> view[q].fetch, fetch |-> "none"]]
  /\ UNCHANGED <<hubVars, pending, changes, faults, tabVars, unheard, untold>>

\* The request and its one retry fail: the page keeps what it shows.
FetchFails(q) ==
  /\ faults < MaxFaults
  /\ view[q].fetch # "none"
  /\ view' = [view EXCEPT ![q].fetch = "none"]
  /\ unheard' = unheard \cup {q}
  /\ faults' = faults + 1
  /\ UNCHANGED <<hubVars, pending, changes, tabVars, untold>>
-----------------------------------------------------------------------------
(* The memo handlers.                                                      *)

\* The stream this tab is reading, or about to read.
Current(c) == \E e \in Effects : /\ eff[e].conn = c
                                 /\ eff[e].mounted = "yes"
                                 /\ alive[c]

InPipe(c) ==
  {wire[c][i] : i \in DOMAIN wire[c]} \cup {buf[c][i] : i \in DOMAIN buf[c]}
  \cup {Head(sending[s].event) : s \in {t \in Senders : c \in sending[t].todo}}

\* What events still on their way on stream c will make the tab fetch.
OnTheWay(c) == UNION {handleSSEEvent(e) : e \in {x \in InPipe(c) : canReceive(x)}}

Commit(s, ch) ==
  /\ server # "stopped"
  /\ changes < MaxChanges
  /\ pending[s] = <<>>
  /\ sending[s].todo = {}
  /\ pending' = [pending EXCEPT ![s] = <<ch>>]
  /\ changes' = changes + 1
  /\ view' = Outdate(Affects(ch))
  /\ untold' = untold \cup (Active \cap Unannounced(ch))
  /\ UNCHANGED <<hubVars, faults, tabVars, unheard>>

Announce(s) ==
  /\ pending[s] # <<>>
  /\ StartBroadcast(s, EventOf(Head(pending[s])))
  /\ pending' = [pending EXCEPT ![s] = <<>>]
  /\ unheard' = IF \E c \in clients : Current(c) THEN unheard
                ELSE unheard \cup Affects(Head(pending[s]))
  /\ UNCHANGED <<changes, faults, tabVars, view, untold>>

\* A later step of the handler fails: the change stays and nobody is told.
FailBeforeBroadcast(s) ==
  /\ pending[s] # <<>>
  /\ pending' = [pending EXCEPT ![s] = <<>>]
  /\ unheard' = unheard \cup Affects(Head(pending[s]))
  /\ UNCHANGED <<hubVars, changes, faults, tabVars, view, untold>>

Broadcast(s, c) ==
  /\ SendTo(s, c)
  /\ unheard' = IF Current(c) /\ ~Fits(s, c) /\ canReceive(Head(sending[s].event))
                  THEN unheard \cup handleSSEEvent(Head(sending[s].event)) ELSE unheard
  /\ UNCHANGED <<pending, changes, faults, tabVars, view, untold>>
-----------------------------------------------------------------------------
(* useLiveMemoRefresh.                                                     *)

Mounted(e) == eff[e].mounted = "yes"

\* The end of connect: a mounted effect sets its timer, another one is done.
Ended(e) == [eff[e] EXCEPT !.conn = None, !.phase = IF Mounted(e) THEN "wait" ELSE "idle"]

Mount(e) ==
  /\ eff[e].mounted = "new"
  /\ \A f \in Effects : ~Mounted(f)
  /\ eff' = [eff EXCEPT ![e] = [mounted |-> "yes", phase |-> "token", conn |-> None]]
  /\ UNCHANGED <<hubVars, pending, changes, faults, abortRef, hasConnectedOnce, status, view, unheard, untold>>

\* await getRequestToken() returns; `mounted` is not looked at again.
TokenReady(e) ==
  /\ eff[e].phase = "token"
  /\ eff' = [eff EXCEPT ![e].phase = "fetch"]
  /\ abortRef' = e
  /\ status' = "connecting"
  /\ UNCHANGED <<hubVars, pending, changes, faults, hasConnectedOnce, view, unheard, untold>>

Request(e, c) ==
  /\ eff[e].phase = "fetch"
  /\ eff[e].conn = None
  /\ Accept(c)
  /\ eff' = [eff EXCEPT ![e].conn = c]
  /\ UNCHANGED <<pending, changes, faults, abortRef, hasConnectedOnce, status, view, unheard, untold>>

\* No answer, an answer other than 200, or a refresh after 401 that fails.
ConnectFails(e) ==
  /\ eff[e].phase = "fetch"
  /\ \/ eff[e].conn = None /\ faults < MaxFaults /\ faults' = faults + 1
     \/ eff[e].conn = None /\ server \notin {"serving", "closing"} /\ UNCHANGED faults
     \/ eff[e].conn # None /\ ~alive[eff[e].conn] /\ UNCHANGED faults
  /\ status' = "disconnected"
  /\ eff' = [eff EXCEPT ![e] = Ended(e)]
  /\ UNCHANGED <<hubVars, pending, changes, abortRef, hasConnectedOnce, view, unheard, untold>>

NoResync == view

\* Resync after a reconnect: every memo query and the statistics.
Resync == IF hasConnectedOnce THEN Invalidate(Active) ELSE view

\* The headers arrive.  An unmounted effect skips the read loop and leaves
\* the stream open behind it.
Opened(e) ==
  /\ eff[e].phase = "fetch"
  /\ eff[e].conn # None
  /\ alive[eff[e].conn]
  /\ eff' = [eff EXCEPT ![e].phase = IF Mounted(e) THEN "reading" ELSE "leaked"]
  /\ status' = IF Mounted(e) THEN "connected" ELSE "disconnected"
  /\ view' = Resync
  /\ hasConnectedOnce' = TRUE
  /\ UNCHANGED <<hubVars, pending, changes, faults, abortRef, unheard, untold>>

\* A chunk with an event is read; the loop ends when the effect is unmounted.
ReadEvent(e) ==
  /\ eff[e].phase = "reading"
  /\ ReadWire(eff[e].conn)
  /\ view' = Invalidate(handleSSEEvent(Head(wire[eff[e].conn])))
  /\ IF Mounted(e) THEN UNCHANGED <<eff, status>>
     ELSE /\ eff' = [eff EXCEPT ![e].phase = "leaked"]
          /\ status' = "disconnected"
  /\ UNCHANGED <<pending, changes, faults, abortRef, hasConnectedOnce, unheard, untold>>

\* The stream ends or breaks: the reader is told once nothing is left.
StreamEnd(e) ==
  LET c == eff[e].conn IN
  /\ eff[e].phase = "reading"
  /\ \/ ~alive[c] /\ UNCHANGED hubVars
     \/ handler[c] = "none" /\ wire[c] = <<>> /\ Disconnect(c)
  /\ status' = "disconnected"
  /\ eff' = [eff EXCEPT ![e] = Ended(e)]
  /\ UNCHANGED <<pending, changes, faults, abortRef, hasConnectedOnce, view, unheard, untold>>

Retry(e) ==
  /\ eff[e].phase = "wait"
  /\ eff' = [eff EXCEPT ![e].phase = "token"]
  /\ UNCHANGED <<hubVars, pending, changes, faults, abortRef, hasConnectedOnce, status, view, unheard, untold>>

\* The effect's cleanup: it clears its timer and aborts the last controller,
\* which may be another run's; a pending token request goes on.
Unmount(e) ==
  LET aborted == {f \in {abortRef} \ {None} : eff[f].phase \in {"fetch", "reading"}}
      cut == {eff[f].conn : f \in aborted} \ {None}
      after == [f \in Effects |-> IF f \in aborted \/ (f = e /\ eff[f].phase = "wait")
                                    THEN [eff[f] EXCEPT !.phase = "idle", !.conn = None] ELSE eff[f]]
  IN /\ Mounted(e)
     /\ eff' = [after EXCEPT ![e].mounted = "no"]
     /\ alive' = [c \in Conns |-> alive[c] /\ c \notin cut]
     /\ wire' = [c \in Conns |-> IF c \in cut THEN <<>> ELSE wire[c]]
     /\ status' = "disconnected"
     /\ unheard' = unheard \cup UNION {OnTheWay(c) : c \in {x \in Conns : Current(x)}}
     /\ UNCHANGED <<clients, closed, handler, buf, chanClosed, sending, server, panicked,
                    pending, changes, faults, abortRef, hasConnectedOnce, view, untold>>

\* The network or a proxy drops a connection.
Drop(c) ==
  /\ faults < MaxFaults
  /\ Disconnect(c)
  /\ faults' = faults + 1
  /\ unheard' = IF Current(c) THEN unheard \cup OnTheWay(c) ELSE unheard
  /\ UNCHANGED <<pending, changes, tabVars, view, untold>>

Shutdown ==
  /\ ShutdownStep
  /\ unheard' = IF server' = "forced" THEN unheard \cup UNION {OnTheWay(c) : c \in {x \in Conns : Current(x)}}
                ELSE unheard
  /\ UNCHANGED <<pending, changes, faults, tabVars, view, untold>>

Handle(c) == HandlerStep(c) /\ UNCHANGED <<pending, changes, faults, tabVars, view, unheard, untold>>
-----------------------------------------------------------------------------
LiveInit ==
  /\ HubInit
  /\ pending = [s \in Senders |-> <<>>]
  /\ changes = 0
  /\ faults = 0
  /\ eff = [e \in Effects |-> [mounted |-> "new", phase |-> "idle", conn |-> None]]
  /\ abortRef = None
  /\ hasConnectedOnce = FALSE
  /\ status = "disconnected"
  /\ view = [q \in Active |-> [shown |-> "fresh", fetch |-> "none"]]
  /\ unheard = {}
  /\ untold = {}

TabStep(e) ==
  \/ TokenReady(e)
  \/ \E c \in Conns : Request(e, c)
  \/ ConnectFails(e)
  \/ Opened(e)
  \/ ReadEvent(e)
  \/ StreamEnd(e)
  \/ Retry(e)

SenderStep(s) == Announce(s) \/ \E c \in Conns : Broadcast(s, c)

LiveNext ==
  \/ \E q \in Active : Answer(q) \/ Arrive(q) \/ FetchFails(q)
  \/ \E s \in Senders : SenderStep(s) \/ FailBeforeBroadcast(s)
  \/ \E s \in Senders, ch \in Changes : Commit(s, ch)
  \/ \E e \in Effects : TabStep(e) \/ Mount(e) \/ Unmount(e)
  \/ \E c \in Conns : Handle(c) \/ Drop(c)
  \/ Shutdown

\* Goroutines and the browser's event loop run; requests get answers.  Users,
\* faults and the shutdown are not fair.
LiveFairness ==
  /\ \A c \in Conns : WF_liveVars(Handle(c))
  /\ \A s \in Senders : WF_liveVars(SenderStep(s))
  /\ \A e \in Effects : WF_liveVars(TabStep(e))
  /\ \A q \in Active : WF_liveVars(Answer(q)) /\ WF_liveVars(Arrive(q))

LiveSpec == LiveInit /\ [][LiveNext]_liveVars /\ LiveFairness
-----------------------------------------------------------------------------
(* Properties.                                                             *)

\* q is being fetched again, or an event that makes the tab fetch it is
\* pending at its handler, in the channel or on the wire.
NewsUnderWay(q) ==
  \/ view[q].fetch \in {"asked", "fresh"}
  \/ \E s \in Senders : pending[s] # <<>> /\ q \in Affects(Head(pending[s]))
  \/ \E c \in Conns : Current(c) /\ q \in OnTheWay(c)

\* An out-of-date part of the page is refreshed soon, unless the news was
\* lost in one of the ways the code leaves open (no subscribed stream, a full
\* buffer, a broken connection, a failed request, a handler that failed after
\* its commit) or is one that no event tells this tab.
StaleIsAccounted ==
  \A q \in Active : view[q].shown = "stale" => NewsUnderWay(q) \/ q \in unheard \cup untold

\* The resync after a reconnect repairs whatever was missed: once the changes
\* have stopped, a tab that waits to reconnect ends up showing current data,
\* unless it is unmounted, the server goes down or a request fails meanwhile.
ReconnectHeals ==
  (/\ changes = MaxChanges /\ faults = MaxFaults /\ hasConnectedOnce
   /\ \A s \in Senders : pending[s] = <<>>
   /\ \E e \in Effects : Mounted(e) /\ eff[e].phase = "wait")
  ~> (\/ \A q \in Active : view[q].shown = "fresh"
      \/ \A e \in Effects : ~Mounted(e)
      \/ server # "serving")

\* After Close every stream's handler returns, the ones that had not
\* subscribed yet included, unless its peer has stopped reading; and a stream
\* whose connection is gone is taken out of the hub.
HandlersReturn ==
  /\ closed ~> \A c \in Conns : handler[c] = "none" \/ Len(wire[c]) >= WireCap
  /\ \A c \in Conns : ~alive[c] ~> (c \notin clients)
==============================================================================
