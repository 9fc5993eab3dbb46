-------------------------------- MODULE Feed --------------------------------
(***************************************************************************)
(* What a dashboard may rely on when it subscribes over its websocket,     *)
(* whichever gateway serves it: while a subscription is live the client is *)
(* sent every message published on the subject, in order, once, and        *)
(* nothing older than the subscription.  Ending it, or the socket, cuts    *)
(* the feed at some message; nothing after the cut arrives.  Nothing is    *)
(* promised between two subscriptions.                                     *)
(***************************************************************************)
EXTENDS Naturals

CONSTANTS Sub, MaxPub

VARIABLES
  published,  \* messages published on the subject so far
  live,       \* subscriptions the client has
  seen,       \* the last message of each subscription the client was sent
  upto        \* the last message each subscription is due

feed == <<published, live, seen, upto>>

Init ==
  /\ published = 0 /\ live = {}
  /\ seen = [s \in Sub |-> 0] /\ upto = [s \in Sub |-> 0]

Publish ==
  /\ published < MaxPub /\ published' = published + 1
  /\ upto' = [s \in Sub |-> IF s \in live THEN published' ELSE upto[s]]
  /\ UNCHANGED <<live, seen>>

Subscribe(s) ==
  /\ s \notin live /\ upto[s] = seen[s]
  /\ live' = live \cup {s}
  /\ seen' = [seen EXCEPT ![s] = published] /\ upto' = [upto EXCEPT ![s] = published]
  /\ UNCHANGED published

Deliver(s) ==
  /\ seen[s] < upto[s]
  /\ seen' = [seen EXCEPT ![s] = @ + 1]
  /\ UNCHANGED <<published, live, upto>>

\* Subscriptions end, and some of what they were due is given up.
Cut(ended) ==
  /\ live' = live \ ended
  /\ upto' \in [Sub -> 0 .. MaxPub]
  /\ \A s \in Sub : IF s \in live' THEN upto'[s] = upto[s] ELSE seen[s] <= upto'[s] /\ upto'[s] <= upto[s]
  /\ UNCHANGED <<published, seen>>

Next ==
  \/ Publish
  \/ \E s \in Sub : Subscribe(s) \/ Deliver(s)
  \/ \E ended \in SUBSET live : Cut(ended)

Spec == Init /\ [][Next]_feed
=============================================================================
