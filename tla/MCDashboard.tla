----------------------------- MODULE MCDashboard -----------------------------
(***************************************************************************)
(* What a dashboard gets from a rover, model-checked side by side: a       *)
(* websocket's messages (Gateway, which implements Feed), the cameras      *)
(* (Cameras), the health of a module (Health) and the alerts (Alerts).     *)
(* They share no state, so a behaviour is one of them; the others stay in  *)
(* an initial state.                                                       *)
(***************************************************************************)
EXTENDS Naturals

CONSTANTS Sub, Pattern, MaxPub, Cap, Viewer, MaxCam, MaxHiccups, MaxPoller, MaxFaults, Operator, MaxEvents

ASSUME DashboardAssumption ==
  /\ MaxPub \in Nat /\ Cap \in Nat /\ MaxCam \in Nat /\ MaxHiccups \in Nat /\ MaxPoller \in Nat
  /\ MaxFaults \in Nat /\ MaxEvents \in Nat

VARIABLES
  part,
  side, sock, broken, live, made, published, queue, hand, out, pen, done, closed, seen, dead, caught,
  plugged, scan, cam, built, running, sup, backoff, tracks, subs, at, pc, hiccups, early,
  baked, up, watcher, notes, attached, health, signalling, change, snapshot, poller, current,
  started, faults, swapped,
  alert, link, last, row, inflight, request, seed, answer, events, tangled, apart, blind

G == INSTANCE Gateway
C == INSTANCE Cameras WITH made <- built, live <- running, faults <- hiccups, MaxFaults <- MaxHiccups
H == INSTANCE Health
A == INSTANCE Alerts WITH snapshot <- answer

gateway == <<side, sock, broken, live, made, published, queue, hand, out, pen, done, closed, seen,
             dead, caught>>
cameras == <<plugged, scan, cam, built, running, sup, backoff, tracks, subs, at, pc, hiccups, early>>
modules == <<baked, up, watcher, notes, attached, health, signalling, change, snapshot, poller,
             current, started, faults, swapped>>
alerts == <<alert, link, last, row, inflight, request, seed, answer, events, tangled, apart, blind>>
vars == <<part, gateway, cameras, modules, alerts>>

Gateway(S) == part = "gateway" /\ S /\ UNCHANGED <<part, cameras, modules, alerts>>
Cameras(S) == part = "cameras" /\ S /\ UNCHANGED <<part, gateway, modules, alerts>>
Health(S) == part = "health" /\ S /\ UNCHANGED <<part, gateway, cameras, alerts>>
Alerts(S) == part = "alerts" /\ S /\ UNCHANGED <<part, gateway, cameras, modules>>

Init ==
  /\ part \in {"gateway", "cameras", "health", "alerts"}
  /\ G!Init /\ C!Init /\ H!Init /\ A!Init
  /\ part # "gateway" => side = "agent"
  /\ part # "cameras" => ~plugged
  /\ part # "health" => ~baked
  /\ part # "alerts" => alert = "fault"

Next == Gateway(G!Next) \/ Cameras(C!Next) \/ Health(H!Next) \/ Alerts(A!Next)

Spec == Init /\ [][Next]_vars

\* Every goroutine and every timer runs, each on its own.  The liveness properties
\* below are stated under the fairness of their part.
GatewayFairness == (\A s \in Sub : WF_vars(Gateway(G!Runs(s)))) /\ WF_vars(Gateway(G!Writes))
CamerasFairness ==
  /\ WF_vars(Cameras(C!Scans))
  /\ \A c \in 1 .. MaxCam : WF_vars(Cameras(C!Supervises(c)))
  /\ \A v \in Viewer : WF_vars(Cameras(C!Serves(v)))
HealthFairness ==
  /\ WF_vars(Health(H!Signal)) /\ WF_vars(Health(H!Publishes)) /\ WF_vars(Health(H!Ticks))
  /\ \A b \in BOOLEAN : WF_vars(Health(H!OnChange(b)))
  /\ \A p \in 1 .. MaxPoller : WF_vars(Health(H!Polls(p)))
AlertsFairness == WF_vars(Alerts(A!Poll)) /\ WF_vars(Alerts(A!Deliver))

-----------------------------------------------------------------------------
\* handleWS and the proxy's Handle implement Feed: in order, no gaps, no repetitions.
IsFeed == G!IsFeed

\* A message of a live subscription reaches the client unless the client leaves
\* (the writer goroutine of handleWS, the mutex of Handle).
Arrives == GatewayFairness => G!Arrives

\* A camera that stays plugged in ends up streaming (supervise and reconcile), and a
\* viewer that fails is released (OnConnectionStateChange in NewSubscriber).
FeedReturns == CamerasFairness => C!FeedReturns /\ C!ViewersAreReleased

\* A module that stays running or dead is shown so in the end (pollHealth, tick).
HealthConverges == HealthFairness => H!HealthConverges

\* Closing a socket panics the agent only if a callback had a message just then
\* (close(out) in handleWS).  At most one Camera object of a device is live, and it is
\* the listed one (reconcile); a camera in use writes frames to no viewer that is gone
\* (removeSubscriber).
FeedsHold ==
  G!TypeOK /\ G!SurvivesIdleClose /\ C!TypeOK /\ C!OnePipeline /\ C!TracksAreLive

\* The copies agree.  A change of the module snapshot is signalled or about to be,
\* and the publisher says what the watcher found unless two reports crossed
\* (SetHealth, signalChange, go h.OnChange); the proxy's mirror agrees with the
\* rover's store, and a seeded dashboard with the proxy, when nothing is under way
\* and unless changes crossed or reached one side only (mirror.go,
\* local_subscriber.go, useAlerts.ts).
CopiesAgree ==
  H!TypeOK /\ H!NoLostChange /\ H!WatcherAgrees /\ A!TypeOK /\ A!MirrorAgrees /\ A!DashboardAgrees

\* An outage that ends does not stay active in the rover's store (LeafWatcher.Run).
OutageEnds == AlertsFairness => A!OutageEnds
=============================================================================
