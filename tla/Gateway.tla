------------------------------- MODULE Gateway -------------------------------
(***************************************************************************)
(* The websocket bridges a dashboard subscribes through: handleWS of the   *)
(* agent (agent/internal/gateway/ws.go) and Handle of the proxy            *)
(* (proxy/internal/gateway/ws.go), for one socket and one subject.         *)
(*                                                                         *)
(* A subscription has its own queue and goroutine in the NATS client       *)
(* (external).  On the agent its callback hands each message to a bounded  *)
(* channel that one writer goroutine empties; on the proxy the callback    *)
(* writes the socket itself, under a mutex.                                *)
(***************************************************************************)
EXTENDS Sequences, Naturals

CONSTANTS
  Sub,        \* subscriptions, in the order they are made
  Pattern,    \* subjects a client may ask for that match the one followed
  MaxPub,     \* messages published
  Cap         \* capacity of the channel out: 64 in the code

VARIABLES
  side,       \* whose socket this is
  sock,       \* "up", or the reader has returned: "down"
  broken,     \* the client is gone: writes fail
  live,       \* the registered subscriptions, by pattern
  made,       \* subscriptions made
  published,
  queue,      \* the NATS client's queue of each subscription
  hand,       \* the message its callback has, or 0
  out,        \* the channel: pairs of subscription and message
  pen,        \* what the writer goroutine, or the mutex holder, is writing
  done,       \* the channel done is closed
  closed,     \* the channel out is closed
  seen,       \* the last message of each subscription the client was sent
  dead,       \* the process panicked
  caught      \* history: a callback had a message when out was closed

state == <<side, sock, broken, live, made, published, queue, hand, out, pen, done, closed,
           seen, dead, caught>>

None == <<>>
Live == {live[p] : p \in Pattern} \ {0}

TypeOK ==
  /\ side \in {"agent", "proxy"} /\ sock \in {"up", "down"}
  /\ live \in [Pattern -> Sub \cup {0}] /\ made \in Sub \cup {0}
  /\ hand \in [Sub -> 0 .. MaxPub] /\ seen \in [Sub -> 0 .. MaxPub]
  /\ Len(out) <= Cap /\ (out # <<>> => side = "agent")
  /\ {broken, done, closed, dead, caught} \subseteq BOOLEAN

Init ==
  /\ side \in {"agent", "proxy"} /\ sock = "up" /\ broken = FALSE
  /\ live = [p \in Pattern |-> 0] /\ made = 0 /\ published = 0
  /\ queue = [s \in Sub |-> <<>>] /\ hand = [s \in Sub |-> 0]
  /\ out = <<>> /\ pen = None /\ done = FALSE /\ closed = FALSE
  /\ seen = [s \in Sub |-> 0] /\ dead = FALSE /\ caught = FALSE

-----------------------------------------------------------------------------
\* The action "sub": nothing when the pattern is registered.
Subscribe(p) ==
  /\ sock = "up" /\ ~dead /\ live[p] = 0 /\ made + 1 \in Sub
  /\ live' = [live EXCEPT ![p] = made + 1] /\ made' = made + 1
  /\ seen' = IF broken THEN seen ELSE [seen EXCEPT ![made + 1] = published]
  /\ UNCHANGED <<side, sock, broken, published, queue, hand, out, pen, done, closed, dead, caught>>

\* The action "unsub".  What is still queued is dropped; the callback and the
\* channel keep what they have.
Unsubscribe(p) ==
  /\ sock = "up" /\ ~dead /\ live[p] # 0
  /\ queue' = [queue EXCEPT ![live[p]] = <<>>]
  /\ live' = [live EXCEPT ![p] = 0]
  /\ UNCHANGED <<side, sock, broken, made, published, hand, out, pen, done, closed, seen, dead, caught>>

\* Someone publishes on the subject, a client's "pub" included.
Publish ==
  /\ published < MaxPub /\ ~dead /\ published' = published + 1
  /\ queue' = [s \in Sub |-> IF s \in Live THEN Append(queue[s], published') ELSE queue[s]]
  /\ UNCHANGED <<side, sock, broken, live, made, hand, out, pen, done, closed, seen, dead, caught>>

\* The subscription's goroutine takes its next message and calls back.
Take(s) ==
  /\ ~dead /\ hand[s] = 0 /\ queue[s] # <<>>
  /\ hand' = [hand EXCEPT ![s] = Head(queue[s])]
  /\ queue' = [queue EXCEPT ![s] = Tail(@)]
  /\ UNCHANGED <<side, sock, broken, live, made, published, out, pen, done, closed, seen, dead, caught>>

-----------------------------------------------------------------------------
(* The agent: a channel and a writer. *)

\* Variant: a full channel loses its oldest message.
SendDropsOldest(s) ==
  /\ side = "agent" /\ ~dead /\ hand[s] # 0 /\ ~closed
  /\ out' = Append(IF Len(out) < Cap THEN out ELSE Tail(out), <<s, hand[s]>>)
  /\ hand' = [hand EXCEPT ![s] = 0]
  /\ UNCHANGED <<side, sock, broken, live, made, published, queue, pen, done, closed, seen, dead, caught>>

\* case out <- envelope: it waits while the channel is full.
Send(s) ==
  /\ side = "agent" /\ ~dead /\ hand[s] # 0 /\ ~closed /\ Len(out) < Cap
  /\ out' = Append(out, <<s, hand[s]>>) /\ hand' = [hand EXCEPT ![s] = 0]
  /\ UNCHANGED <<side, sock, broken, live, made, published, queue, pen, done, closed, seen, dead, caught>>

\* case <-done: the message is dropped.
GiveUp(s) ==
  /\ side = "agent" /\ ~dead /\ hand[s] # 0 /\ done
  /\ hand' = [hand EXCEPT ![s] = 0]
  /\ UNCHANGED <<side, sock, broken, live, made, published, queue, out, pen, done, closed, seen, dead, caught>>

\* A send on a closed channel, also one that was waiting, panics.
Panic(s) ==
  /\ side = "agent" /\ ~dead /\ hand[s] # 0 /\ closed
  /\ dead' = TRUE
  /\ hand' = [x \in Sub |-> 0] /\ queue' = [x \in Sub |-> <<>>] /\ out' = <<>> /\ pen' = None
  /\ UNCHANGED <<side, sock, broken, live, made, published, done, closed, seen, caught>>

\* The writer takes the next envelope; a failed write ends it.
WriterTakes ==
  /\ side = "agent" /\ ~dead /\ ~done /\ pen = None /\ out # <<>>
  /\ pen' = Head(out) /\ out' = Tail(out)
  /\ UNCHANGED <<side, sock, broken, live, made, published, queue, hand, done, closed, seen, dead, caught>>

\* Variant: the writer returns after a write.
WriterWritesOnce ==
  /\ side = "agent" /\ ~dead /\ pen # None /\ pen' = None /\ done' = TRUE
  /\ seen' = IF broken THEN seen ELSE [seen EXCEPT ![pen[1]] = pen[2]]
  /\ UNCHANGED <<side, sock, broken, live, made, published, queue, hand, out, closed, dead, caught>>

WriterWrites ==
  /\ side = "agent" /\ ~dead /\ pen # None /\ pen' = None
  /\ IF broken THEN done' = TRUE /\ out' = <<>> /\ UNCHANGED seen
     ELSE seen' = [seen EXCEPT ![pen[1]] = pen[2]] /\ UNCHANGED <<done, out>>
  /\ UNCHANGED <<side, sock, broken, live, made, published, queue, hand, closed, dead, caught>>

(* The proxy: the callback writes, and an error is ignored. *)

\* writeMu.Lock.
Lock(s) ==
  /\ side = "proxy" /\ hand[s] # 0 /\ pen = None
  /\ pen' = <<s, hand[s]>>
  /\ UNCHANGED <<side, sock, broken, live, made, published, queue, hand, out, done, closed, seen, dead, caught>>

WriteUnlock ==
  /\ side = "proxy" /\ pen # None /\ pen' = None
  /\ hand' = [hand EXCEPT ![pen[1]] = 0]
  /\ seen' = IF broken THEN seen ELSE [seen EXCEPT ![pen[1]] = pen[2]]
  /\ UNCHANGED <<side, sock, broken, live, made, published, queue, out, done, closed, dead, caught>>

-----------------------------------------------------------------------------
\* The client goes away: writes fail from now on.
Breaks ==
  /\ ~broken /\ broken' = TRUE
  /\ UNCHANGED <<side, sock, live, made, published, queue, hand, out, pen, done, closed, seen, dead, caught>>

\* The reader fails and the handler returns: the subscriptions end, out is closed.
Close ==
  /\ sock = "up" /\ broken /\ ~dead /\ sock' = "down"
  /\ live' = [p \in Pattern |-> 0] /\ queue' = [s \in Sub |-> <<>>]
  /\ closed' = (side = "agent") /\ caught' = (side = "agent" /\ \E s \in Sub : hand[s] # 0)
  /\ UNCHANGED <<side, broken, made, published, hand, out, pen, done, seen, dead>>

Next ==
  \/ \E p \in Pattern : Subscribe(p) \/ Unsubscribe(p)
  \/ \E s \in Sub : Take(s) \/ Send(s) \/ GiveUp(s) \/ Panic(s) \/ Lock(s)
  \/ Publish \/ WriterTakes \/ WriterWrites \/ WriteUnlock \/ Breaks \/ Close

Spec == Init /\ [][Next]_state

\* The goroutines run: the clients', the writer's, and the holder of the mutex.
Runs(s) == Take(s) \/ Send(s) \/ Lock(s)
Writes == WriterTakes \/ WriterWrites \/ WriteUnlock

-----------------------------------------------------------------------------
\* The messages of s on their way to the client, the next one first.
Pipeline(s) ==
  LET channel == SelectSeq((IF pen = None \/ side = "proxy" THEN <<>> ELSE <<pen>>) \o out,
                           LAMBDA x : x[1] = s)
  IN [i \in DOMAIN channel |-> channel[i][2]]
       \o (IF hand[s] = 0 THEN <<>> ELSE <<hand[s]>>) \o queue[s]

Due == [s \in Sub |-> IF broken \/ Pipeline(s) = <<>> THEN seen[s] ELSE Pipeline(s)[Len(Pipeline(s))]]

\* Once the client is gone nothing is due any more.
F == INSTANCE Feed WITH live <- IF broken THEN {} ELSE Live, upto <- Due

\* Both sockets give the client the feed of module Feed: in order, without gaps
\* or repetitions inside a subscription, also across a slow client, overlapping
\* patterns, unsubscribing with messages under way, and teardown.
IsFeed == F!Spec

\* A message of a live subscription reaches the client, however far the channel
\* and the mutex are behind, unless the client leaves.
Arrives ==
  \A s \in Sub : (s \in Live /\ seen[s] < Due[s]) ~> (seen[s] = Due[s] \/ s \notin Live \/ broken)

\* Closing a socket does not take the agent down, unless a subscription's callback
\* had a message at that moment: handleWS closes out after unsubscribing, and an
\* unsubscribed callback takes no further message.
SurvivesIdleClose == dead => caught
=============================================================================
