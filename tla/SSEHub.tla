------------------------------- MODULE SSEHub -------------------------------
(***************************************************************************)
(* The server side of live refresh: the hub of sse_hub.go, the handler of  *)
(* one event stream (sse_handler.go) and the shutdown order of server.go.  *)
(*                                                                         *)
(* A connection c stands for one request to /api/v1/sse: its handler       *)
(* goroutine, its *SSEClient with the channel `events`, and the bytes that *)
(* were written and not read yet.  The hub's RWMutex is implicit: the      *)
(* operations that take the write lock are single steps enabled when no    *)
(* sender is inside the loop of Broadcast, which holds the read lock.      *)
(***************************************************************************)
EXTENDS Naturals, Sequences, FiniteSets

CONSTANTS
  Conns,         \* connection slots; a slot is used again once it is free
  Senders,       \* request goroutines that broadcast
  Events,        \* the events that may be broadcast
  Viewer,        \* the user behind the connections
  ViewerIsAdmin, \* whether that user has RoleAdmin
  BufferCap,     \* capacity of the channel `events` (32 in the code)
  WireCap        \* events a peer may leave unread before a write blocks

ASSUME HubAssumption ==
  /\ BufferCap \in Nat \ {0}
  /\ WireCap \in Nat \ {0}
  /\ \A e \in Events : {"visibility", "creator"} \subseteq DOMAIN e

VARIABLES
  clients,    \* SSEHub.clients
  closed,     \* SSEHub.closed
  handler,    \* where the handler of each connection is
  buf,        \* contents of the channel `events` of each connection
  chanClosed, \* whether that channel was closed
  wire,       \* events written to the stream and not read by the browser
  alive,      \* whether the connection of the request is up
  sending,    \* per sender: the event and the clients still to be visited
  server,     \* phase of Server.Shutdown
  panicked    \* a send on, or a close of, a closed channel happened

hubVars == <<clients, closed, handler, buf, chanClosed, wire, alive, sending, server, panicked>>

HubInit ==
  /\ clients = {}
  /\ closed = FALSE
  /\ handler = [c \in Conns |-> "none"]
  /\ buf = [c \in Conns |-> <<>>]
  /\ chanClosed = [c \in Conns |-> FALSE]
  /\ wire = [c \in Conns |-> <<>>]
  /\ alive = [c \in Conns |-> FALSE]
  /\ sending = [s \in Senders |-> [event |-> <<>>, todo |-> {}]]
  /\ server = "serving"
  /\ panicked = FALSE

\* No Broadcast is between RLock and RUnlock.
WriteLockFree == \A s \in Senders : sending[s].todo = {}

Free(c) == handler[c] = "none" /\ ~alive[c]
-----------------------------------------------------------------------------
(* The handler of a stream.                                                *)

\* A request is authenticated and its headers are flushed, before Subscribe.
Accept(c) ==
  /\ server \in {"serving", "closing"}
  /\ Free(c)
  /\ handler' = [handler EXCEPT ![c] = "headers"]
  /\ alive' = [alive EXCEPT ![c] = TRUE]
  /\ UNCHANGED <<clients, closed, buf, chanClosed, wire, sending, server, panicked>>

SubscribeEvenClosed(c) ==
  /\ handler[c] = "headers"
  /\ WriteLockFree
  /\ buf' = [buf EXCEPT ![c] = <<>>]
  /\ clients' = clients \cup {c}
  /\ chanClosed' = [chanClosed EXCEPT ![c] = FALSE]
  /\ handler' = [handler EXCEPT ![c] = "loop"]
  /\ UNCHANGED <<closed, wire, alive, sending, server, panicked>>

\* A new client: a hub that was closed hands out a closed channel.
Subscribe(c) ==
  /\ handler[c] = "headers"
  /\ WriteLockFree
  /\ buf' = [buf EXCEPT ![c] = <<>>]
  /\ clients' = IF closed THEN clients ELSE clients \cup {c}
  /\ chanClosed' = [chanClosed EXCEPT ![c] = closed]
  /\ handler' = [handler EXCEPT ![c] = "loop"]
  /\ UNCHANGED <<closed, wire, alive, sending, server, panicked>>

WriteEventTwice(c) ==
  /\ handler[c] = "loop"
  /\ buf[c] # <<>>
  /\ alive[c]
  /\ Len(wire[c]) < WireCap
  /\ wire' = [wire EXCEPT ![c] = Append(@, Head(buf[c]))]
  /\ UNCHANGED <<clients, closed, handler, buf, chanClosed, alive, sending, server, panicked>>

\* select: an event is received and written to the stream.
WriteEvent(c) ==
  /\ handler[c] = "loop"
  /\ buf[c] # <<>>
  /\ alive[c]
  /\ Len(wire[c]) < WireCap
  /\ wire' = [wire EXCEPT ![c] = Append(@, Head(buf[c]))]
  /\ buf' = [buf EXCEPT ![c] = Tail(@)]
  /\ UNCHANGED <<clients, closed, handler, chanClosed, alive, sending, server, panicked>>

\* select: ctx.Done, or a write of an event or a heartbeat that fails.
LeaveDead(c) ==
  /\ handler[c] = "loop"
  /\ ~alive[c]
  /\ handler' = [handler EXCEPT ![c] = "leaving"]
  /\ UNCHANGED <<clients, closed, buf, chanClosed, wire, alive, sending, server, panicked>>

\* select: the channel is closed and drained.
LeaveClosed(c) ==
  /\ handler[c] = "loop"
  /\ chanClosed[c]
  /\ buf[c] = <<>>
  /\ handler' = [handler EXCEPT ![c] = "leaving"]
  /\ UNCHANGED <<clients, closed, buf, chanClosed, wire, alive, sending, server, panicked>>

UnsubscribeUnchecked(c) ==
  /\ handler[c] = "leaving"
  /\ WriteLockFree
  /\ clients' = clients \ {c}
  /\ panicked' = (panicked \/ chanClosed[c])
  /\ chanClosed' = [chanClosed EXCEPT ![c] = TRUE]
  /\ handler' = [handler EXCEPT ![c] = "none"]
  /\ UNCHANGED <<closed, buf, wire, alive, sending, server>>

\* The deferred Unsubscribe, after which the handler has returned.
Unsubscribe(c) ==
  /\ handler[c] = "leaving"
  /\ WriteLockFree
  /\ IF c \in clients
       THEN /\ clients' = clients \ {c}
            /\ panicked' = (panicked \/ chanClosed[c])
            /\ chanClosed' = [chanClosed EXCEPT ![c] = TRUE]
       ELSE UNCHANGED <<clients, panicked, chanClosed>>
  /\ handler' = [handler EXCEPT ![c] = "none"]
  /\ UNCHANGED <<closed, buf, wire, alive, sending, server>>
-----------------------------------------------------------------------------
(* The peer of a stream (external: the browser and the network).           *)

ReadWire(c) ==
  /\ wire[c] # <<>>
  /\ wire' = [wire EXCEPT ![c] = Tail(@)]
  /\ UNCHANGED <<clients, closed, handler, buf, chanClosed, alive, sending, server, panicked>>

\* The connection goes away: unread bytes are lost.
Disconnect(c) ==
  /\ alive[c]
  /\ alive' = [alive EXCEPT ![c] = FALSE]
  /\ wire' = [wire EXCEPT ![c] = <<>>]
  /\ UNCHANGED <<clients, closed, handler, buf, chanClosed, sending, server, panicked>>
-----------------------------------------------------------------------------
(* Broadcast.                                                              *)

canReceive(e) ==
  \/ e.visibility \in {"PUBLIC", "PROTECTED", ""}
  \/ e.visibility = "PRIVATE" /\ (Viewer = e.creator \/ ViewerIsAdmin)

\* A sender inside the loop holds the event; an idle one holds nothing.
Loop(e, todo) == [event |-> IF todo = {} THEN <<>> ELSE e, todo |-> todo]

\* RLock; the loop visits the clients registered at this moment.
StartBroadcast(s, e) ==
  /\ sending[s].todo = {}
  /\ sending' = [sending EXCEPT ![s] = Loop(<<e>>, clients)]
  /\ UNCHANGED <<clients, closed, handler, buf, chanClosed, wire, alive, server, panicked>>

\* Whether the visit of c by sender s puts the event into the channel.
Fits(s, c) == canReceive(Head(sending[s].event)) /\ Len(buf[c]) < BufferCap

\* One turn of the loop: a full buffer drops the event; the last one unlocks.
SendTo(s, c) ==
  /\ c \in sending[s].todo
  /\ sending' = [sending EXCEPT ![s] = Loop(@.event, @.todo \ {c})]
  /\ buf' = IF Fits(s, c) THEN [buf EXCEPT ![c] = Append(@, Head(sending[s].event))] ELSE buf
  /\ panicked' = (panicked \/ (canReceive(Head(sending[s].event)) /\ chanClosed[c]))
  /\ UNCHANGED <<clients, closed, handler, chanClosed, wire, alive, server>>
-----------------------------------------------------------------------------
(* Server.Shutdown.                                                        *)

\* closeLongLivedConnections: every client is removed and its channel closed.
Close ==
  /\ server = "serving"
  /\ WriteLockFree
  /\ server' = "closing"
  /\ closed' = TRUE
  /\ clients' = {}
  /\ panicked' = (panicked \/ \E c \in clients : chanClosed[c])
  /\ chanClosed' = [c \in Conns |-> chanClosed[c] \/ c \in clients]
  /\ UNCHANGED <<handler, buf, wire, alive, sending>>

\* http.Server.Shutdown closes the listener, then waits for the handlers.
StopListening ==
  /\ server = "closing"
  /\ server' = "draining"
  /\ UNCHANGED <<clients, closed, handler, buf, chanClosed, wire, alive, sending, panicked>>

Drained ==
  /\ server = "draining"
  /\ WriteLockFree
  /\ \A c \in Conns : handler[c] = "none"
  /\ server' = "stopped"
  /\ UNCHANGED <<clients, closed, handler, buf, chanClosed, wire, alive, sending, panicked>>

\* The shutdown timeout: http.Server.Close breaks every connection.
ForceClose ==
  /\ server = "draining"
  /\ server' = "forced"
  /\ alive' = [c \in Conns |-> FALSE]
  /\ wire' = [c \in Conns |-> <<>>]
  /\ UNCHANGED <<clients, closed, handler, buf, chanClosed, sending, panicked>>

HandlerStep(c) ==
  \/ Subscribe(c)
  \/ WriteEvent(c)
  \/ LeaveDead(c)
  \/ LeaveClosed(c)
  \/ Unsubscribe(c)

PeerStep(c) == Accept(c) \/ ReadWire(c) \/ Disconnect(c)

ShutdownStep == Close \/ StopListening \/ Drained \/ ForceClose

HubNext ==
  \/ \E c \in Conns : HandlerStep(c) \/ PeerStep(c)
  \/ \E s \in Senders, e \in Events : StartBroadcast(s, e)
  \/ \E s \in Senders, c \in Conns : SendTo(s, c)
  \/ ShutdownStep

HubSpec == HubInit /\ [][HubNext]_hubVars
-----------------------------------------------------------------------------
(* What the hub promises.                                                  *)

\* No goroutine sends on a closed channel or closes one twice, whatever the
\* order of Broadcast, Subscribe, Unsubscribe and Close: both would panic.
NoPanic == ~panicked

\* A registered client belongs to a handler that will unsubscribe it, and
\* Broadcast only visits registered clients: no client outlives its request.
\* After Close nobody enters the hub again, although requests that were
\* accepted earlier still call Subscribe.
NoOrphanClient ==
  /\ \A c \in clients : handler[c] \in {"loop", "leaving"}
  /\ \A s \in Senders : sending[s].todo \subseteq clients
  /\ closed => clients = {}

\* Both, for every order in which the requests of browsers, the broadcasts of
\* handlers and the shutdown take the lock of SSEHub.
NoStrayChannel == NoPanic /\ NoOrphanClient

\* What a subscriber gets, seen from outside: a queue of bounded length, from
\* the stream and, while its handler can still write, from the channel.
Streams == INSTANCE EventStreams WITH
  Permitted <- {e \in Events : canReceive(e)},
  Capacity <- BufferCap + WireCap,
  open <- clients,
  queue <- [c \in Conns |-> wire[c] \o (IF handler[c] = "loop" /\ alive[c] THEN buf[c] ELSE <<>>)]

\* The hub, its handlers and the shutdown implement lossy streams: an event
\* reaches a browser at most once and in the order of Broadcast, only if its
\* user may see it, and never after the stream was closed; whatever is lost
\* is a whole tail of the stream or an event that found the buffer full.
HubIsLossyStreams == Streams!StreamSpec
=============================================================================
