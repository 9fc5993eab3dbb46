------------------------------- MODULE Alerts -------------------------------
(***************************************************************************)
(* One alert and its copies.  The rover publishes raises and resolves;     *)
(* three readers keep a copy: the rover's SQLite store, the proxy's        *)
(* Postgres mirror and an open dashboard.  Operators acknowledge and       *)
(* resolve through the proxy's HTTP API, which writes the mirror first and *)
(* then publishes.                                                         *)
(*                                                                         *)
(* Each reader has one subscription per kind of event, and each            *)
(* subscription its own goroutine: events of one kind arrive in order,     *)
(* events of different kinds in any order.  Two events of one kind for the *)
(* same alert are equal, so a count stands for the queue.  The rover's     *)
(* events cross to the proxy's side only while the leaf link is up; what   *)
(* the proxy publishes in its sessions account never crosses to the rover. *)
(* Alerts have no state in common, so a behaviour follows one of them.     *)
(***************************************************************************)
EXTENDS Naturals

CONSTANTS
  Operator,     \* concurrent acknowledge and resolve requests
  MaxEvents     \* changes of the link, faults, operators' requests and restarts

\* proxy_disconnected is raised and resolved by the leaf watcher; a fault
\* (image_apply_failed, recording_autostopped, the core's watchdog) is raised,
\* under the same id every time, and never resolved by the rover.
Alert == {"proxy_disconnected", "fault"}
Kind == {"raised", "acknowledged", "resolved"}
State == {"none", "active", "acknowledged", "resolved"}
Reader == {"rover", "proxy", "dash"}
NoEvents == [k \in Kind |-> 0]

VARIABLES
  alert,     \* the alert this behaviour is about
  link,      \* the leaf link is up
  last,      \* LeafWatcher.Run: the last observation, if there was one
  row,       \* the state of the alert in each copy
  inflight,  \* events delivered to a subscription and not yet handled
  request,   \* operators' requests between their write and their publish
  seed,      \* the dashboard's REST seed: not asked for, asked, answered, applied
  snapshot,  \* the row the answer carries
  events,
  tangled,   \* history: two changes of the alert were under way together
  apart,     \* history: an event reached one side of the link only
  blind      \* history: the agent restarted during an outage

history == <<tangled, apart, blind>>
vars == <<alert, link, last, row, inflight, request, seed, snapshot, events, history>>

TypeOK ==
  /\ alert \in Alert /\ link \in BOOLEAN /\ last \in {"unseen", "up", "down"}
  /\ row \in [Reader -> State]
  /\ inflight \in [Reader -> [Kind -> Nat]]
  /\ request \in [Operator -> {"none", "acknowledged", "resolved"}]
  /\ seed \in {"closed", "asked", "read", "done"} /\ snapshot \in State
  /\ tangled \in BOOLEAN /\ apart \in BOOLEAN /\ blind \in BOOLEAN

Init ==
  /\ alert \in Alert /\ link = TRUE /\ last = "unseen"
  /\ row = [r \in Reader |-> "none"]
  /\ inflight = [r \in Reader |-> NoEvents]
  /\ request = [u \in Operator |-> "none"]
  /\ seed = "closed" /\ snapshot = "none"
  /\ events = 0
  /\ tangled = FALSE /\ apart = FALSE /\ blind = FALSE

Occurs == events < MaxEvents /\ events' = events + 1

\* A change of the alert is under way somewhere.
Busy ==
  \/ \E r \in Reader : inflight[r] # NoEvents
  \/ \E u \in Operator : request[u] # "none"
  \/ seed \in {"asked", "read"}

Open(s) == s \in {"active", "acknowledged"}

(***************************************************************************)
(* What the two stores do with an event.  A raise inserts the alert or     *)
(* brings it back to active; the others update the row whatever its state  *)
(* is and fail on an alert they do not know.                               *)
(***************************************************************************)
\* Variant: a raise of a known alert leaves its state alone.
RaiseKeepsState(s) == IF s = "none" THEN "active" ELSE s
Raise(s) == "active"
Acknowledge(s) == IF s = "none" THEN s ELSE "acknowledged"
Resolve(s) == IF s = "none" THEN s ELSE "resolved"

Stored(k, s) ==
  CASE k = "raised" -> Raise(s)
    [] k = "acknowledged" -> Acknowledge(s)
    [] k = "resolved" -> Resolve(s)

\* The dashboard's map: a resolved alert is deleted from it.
Dashboard(k, s) ==
  CASE k = "raised" -> "active"
    [] k = "acknowledged" -> IF s = "none" THEN s ELSE "acknowledged"
    [] k = "resolved" -> "none"

\* Who gets what the proxy publishes, and what the rover does.
FromProxy == {"proxy"} \cup (IF seed # "closed" THEN {"dash"} ELSE {})
FromRover == {"rover"} \cup (IF link THEN FromProxy ELSE {})

Send(k, to) ==
  inflight' = [r \in Reader |-> IF r \in to THEN [inflight[r] EXCEPT ![k] = @ + 1]
                                            ELSE inflight[r]]

\* A raise that finds nothing under way and reaches everybody settles the alert.
Publish(k) ==
  LET settles == link /\ k = "raised" IN
  /\ Send(k, FromRover)
  /\ tangled' = (Busy \/ (tangled /\ ~settles))
  /\ apart' = (~link \/ (apart /\ ~settles))

-----------------------------------------------------------------------------
(* The rover. *)

LinkChanges ==
  /\ Occurs
  /\ link' = ~link
  /\ UNCHANGED <<alert, last, row, inflight, request, seed, snapshot, history>>

\* Variant: a reconnection is noted and not published.
PollForgetsUp ==
  LET now == IF link THEN "up" ELSE "down" IN
  /\ last # now /\ last' = now
  /\ IF alert = "proxy_disconnected" /\ last # "unseen" /\ ~link
       THEN Publish("raised") ELSE UNCHANGED <<inflight, tangled, apart>>
  /\ UNCHANGED <<alert, link, row, request, seed, snapshot, events, blind>>

\* LeafWatcher.Run: one tick.  The first one sets the baseline; afterwards an
\* edge raises or resolves proxy_disconnected.
Poll ==
  LET now == IF link THEN "up" ELSE "down" IN
  /\ last # now /\ last' = now
  /\ IF alert = "proxy_disconnected" /\ last # "unseen"
       THEN Publish(IF link THEN "resolved" ELSE "raised")
       ELSE UNCHANGED <<inflight, tangled, apart>>
  /\ UNCHANGED <<alert, link, row, request, seed, snapshot, events, blind>>

RaiseFault ==
  /\ alert = "fault" /\ Occurs
  /\ Publish("raised")
  /\ UNCHANGED <<alert, link, last, row, request, seed, snapshot, blind>>

\* The agent restarts: its queues and the watcher's memory are lost, the store
\* is a file.
AgentRestarts ==
  /\ Occurs
  /\ last' = "unseen"
  /\ inflight' = [inflight EXCEPT !["rover"] = NoEvents]
  /\ tangled' = (tangled \/ inflight["rover"] # NoEvents)
  /\ blind' = (blind \/ last = "down")
  /\ UNCHANGED <<alert, link, row, request, seed, snapshot, apart>>

-----------------------------------------------------------------------------
(* The handlers of the subscriptions. *)

Handle(r, k) ==
  /\ inflight[r][k] > 0
  /\ inflight' = [inflight EXCEPT ![r][k] = @ - 1]
  /\ row' = [row EXCEPT ![r] = IF r = "dash" THEN Dashboard(k, @) ELSE Stored(k, @)]
  /\ UNCHANGED <<alert, link, last, request, seed, snapshot, events, history>>

-----------------------------------------------------------------------------
(* The proxy. *)

\* newAlertsAckHandler, newAlertsResolveHandler: the row must exist; its state
\* is not looked at.
Write(u, op) ==
  /\ Occurs
  /\ request[u] = "none" /\ row["proxy"] # "none"
  /\ request' = [request EXCEPT ![u] = op]
  /\ row' = [row EXCEPT !["proxy"] = Stored(op, @)]
  /\ tangled' = (tangled \/ Busy \/ row["proxy"] = "resolved")
  /\ UNCHANGED <<alert, link, last, inflight, seed, snapshot, apart, blind>>

\* ... and the publish that ends it, on the connection of the sessions account.
Answer(u) ==
  /\ request[u] # "none"
  /\ request' = [request EXCEPT ![u] = "none"]
  /\ Send(request[u], FromProxy)
  /\ apart' = TRUE
  /\ UNCHANGED <<alert, link, last, row, seed, snapshot, events, tangled, blind>>

\* The proxy restarts: its queues and its half-done requests are lost, every
\* rover and every dashboard loses its connection to the hub.
ProxyRestarts ==
  /\ Occurs
  /\ tangled' = (tangled \/ Busy) /\ apart' = (apart \/ Busy)
  /\ link' = FALSE
  /\ inflight' = [inflight EXCEPT !["proxy"] = NoEvents, !["dash"] = NoEvents]
  /\ request' = [u \in Operator |-> "none"]
  /\ seed' = "closed" /\ row' = [row EXCEPT !["dash"] = "none"] /\ snapshot' = "none"
  /\ UNCHANGED <<alert, last, blind>>

-----------------------------------------------------------------------------
(* The dashboard. *)

\* useAlerts mounts: it subscribes and asks for the open alerts.
Mount ==
  /\ seed = "closed" /\ seed' = "asked"
  /\ tangled' = (tangled \/ Busy)
  /\ UNCHANGED <<alert, link, last, row, inflight, request, snapshot, events, apart, blind>>

\* newAlertsListHandler: the rows that are not resolved.
ListActive ==
  /\ seed = "asked" /\ seed' = "read"
  /\ snapshot' = IF Open(row["proxy"]) THEN row["proxy"] ELSE "none"
  /\ UNCHANGED <<alert, link, last, row, inflight, request, events, history>>

\* The answer overwrites what the events since have said.
Seed ==
  /\ seed = "read" /\ seed' = "done"
  /\ row' = [row EXCEPT !["dash"] = IF snapshot # "none" THEN snapshot ELSE @]
  /\ snapshot' = "none"
  /\ UNCHANGED <<alert, link, last, inflight, request, events, history>>

\* The request fails: the dashboard goes on with the events alone.
SeedFails ==
  /\ seed \in {"asked", "read"} /\ seed' = "done"
  /\ snapshot' = "none" /\ tangled' = TRUE
  /\ UNCHANGED <<alert, link, last, row, inflight, request, events, apart, blind>>

\* Every subscription has its goroutine; the watcher ticks every two seconds.
Deliver == \E r \in Reader, k \in Kind : Handle(r, k)

Next ==
  \/ LinkChanges \/ Poll \/ RaiseFault \/ AgentRestarts
  \/ Deliver
  \/ \E u \in Operator, op \in {"acknowledged", "resolved"} : Write(u, op)
  \/ \E u \in Operator : Answer(u)
  \/ ProxyRestarts
  \/ Mount \/ ListActive \/ Seed \/ SeedFails

Spec == Init /\ [][Next]_vars

-----------------------------------------------------------------------------
\* The proxy's mirror agrees with the rover's store (mirror.go,
\* local_subscriber.go) once nothing is under way, unless two changes were under
\* way together (the subscriptions may apply them in either order), or one of
\* them reached a single side: the rover published while the link was down, or an
\* operator acted at the proxy.  A raise that reaches both settles the matter.
MirrorAgrees == ~Busy /\ ~tangled /\ ~apart => row["proxy"] = row["rover"]

\* A dashboard that has been seeded shows exactly the alerts the proxy lists as
\* open, in the same state (useAlerts.ts), unless two changes were under way
\* together, the seed failed, or an operator acted on a resolved alert: the seed,
\* the events and the operator's own requests come together.
DashboardAgrees ==
  seed = "done" /\ ~Busy /\ ~tangled =>
    row["dash"] = (IF Open(row["proxy"]) THEN row["proxy"] ELSE "none")

\* An outage that ends is over on the rover too: once the link stays up,
\* proxy_disconnected does not stay active in the rover's store, unless the agent
\* restarted during the outage (the watcher's first tick only sets a baseline) or
\* the raise and the resolve overtook each other.
OutageEnds ==
  alert = "proxy_disconnected" /\ <>[]link => <>[](row["rover"] # "active" \/ blind \/ tangled)
=============================================================================
