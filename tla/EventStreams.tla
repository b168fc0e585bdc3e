---------------------------- MODULE EventStreams ----------------------------
(***************************************************************************)
(* What the SSE hub promises a subscriber, without channels, locks or      *)
(* goroutines: every connection has a queue of events that were accepted   *)
(* for it and not read yet.                                                *)
(***************************************************************************)
EXTENDS Naturals, Sequences

CONSTANTS
  Conns,      \* connections
  Permitted,  \* the events their user may receive
  Capacity    \* events a queue may hold

VARIABLES
  open,       \* connections that are subscribed
  queue       \* per connection: accepted and unread events

StreamInit ==
  /\ open = {}
  /\ queue = [c \in Conns |-> <<>>]

\* A new stream starts empty: earlier events are not replayed.
Join(c) ==
  /\ c \notin open
  /\ open' = open \cup {c}
  /\ queue' = [queue EXCEPT ![c] = <<>>]

Accept(c, e) ==
  /\ c \in open
  /\ Len(queue[c]) < Capacity
  /\ queue' = [queue EXCEPT ![c] = Append(@, e)]
  /\ UNCHANGED open

Read(c) ==
  /\ queue[c] # <<>>
  /\ queue' = [queue EXCEPT ![c] = Tail(@)]
  /\ UNCHANGED open

\* Connections break: everything unread is lost.
Lose(cs) ==
  /\ queue' = [c \in Conns |-> IF c \in cs THEN <<>> ELSE queue[c]]
  /\ UNCHANGED open

\* Streams end; what was accepted can still be read.
Leave(cs) ==
  /\ open' = open \ cs
  /\ UNCHANGED queue

StreamNext ==
  \/ \E c \in Conns : Join(c) \/ Read(c) \/ \E e \in Permitted : Accept(c, e)
  \/ \E cs \in SUBSET Conns : Lose(cs) \/ Leave(cs)

StreamSpec == StreamInit /\ [][StreamNext]_<<open, queue>>
=============================================================================
