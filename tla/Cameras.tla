------------------------------- MODULE Cameras -------------------------------
(***************************************************************************)
(* The cameras of the agent (agent/internal/cameras): Manager.reconcile    *)
(* follows one capture device as it is plugged and unplugged, each Camera  *)
(* supervises its pipeline, and viewers come and go over WHEP on the LAN   *)
(* or through the proxy's camera_offer RPC (proxy/internal/cameraproxy).   *)
(* NewSubscriber runs without a lock for as long as ICE gathering takes,   *)
(* while the camera may be stopped and the viewer may give up.  Every      *)
(* Camera object the manager makes for the device has a number.            *)
(***************************************************************************)
EXTENDS Naturals

CONSTANTS
  Viewer,     \* viewing sessions
  MaxCam,     \* Camera objects made
  MaxFaults   \* plugs and unplugs, and pipelines that die or do not start

VARIABLES
  plugged,    \* the device is there
  scan,       \* what reconcile's Discover saw: "none" between two reconciles
  cam,        \* Manager.cams: the object under the device's name, or 0
  made,
  live,       \* objects whose context is live
  sup,        \* supervise of each object: "off", "start", "run", "wait" or "done"
  backoff,    \* its delay, in seconds
  tracks,     \* Camera.curTracks
  subs,       \* Camera.subs
  at,         \* each viewer's offer: the camera and how far NewSubscriber is
  pc,         \* its peer connection
  faults,
  early       \* history: the connection failed before its callback was registered

state == <<plugged, scan, cam, made, live, sup, backoff, tracks, subs, at, pc, faults, early>>

Camera == 1 .. MaxCam
pipelineRestartMin == 1
pipelineRestartMax == 15
Idle == [cam |-> 0, pc |-> "idle"]

TypeOK ==
  /\ plugged \in BOOLEAN /\ scan \in {"none", "there", "missing"} /\ cam \in 0 .. made /\ made \in 0 .. MaxCam
  /\ live \subseteq Camera /\ \A c, d \in live : c = d
  /\ sup \in [Camera -> {"off", "start", "run", "wait", "done"}]
  /\ \A c \in Camera : backoff[c] \in pipelineRestartMin .. pipelineRestartMax
  /\ \A c \in Camera : tracks[c] \subseteq Viewer /\ subs[c] \subseteq Viewer
  /\ pc \in [Viewer -> {"none", "open", "failed", "closed"}]
  /\ early \subseteq Viewer

Init ==
  /\ plugged \in BOOLEAN /\ scan = "none" /\ cam = 0 /\ made = 0 /\ live = {}
  /\ sup = [c \in Camera |-> "off"] /\ backoff = [c \in Camera |-> pipelineRestartMin]
  /\ tracks = [c \in Camera |-> {}] /\ subs = [c \in Camera |-> {}]
  /\ at = [v \in Viewer |-> Idle] /\ pc = [v \in Viewer |-> "none"]
  /\ faults = 0 /\ early = {}

Fault == faults < MaxFaults /\ faults' = faults + 1

-----------------------------------------------------------------------------
(* The device and Manager.reconcile, at boot and every 30 s. *)

Plug ==
  /\ Fault /\ plugged' = ~plugged
  /\ UNCHANGED <<scan, cam, made, live, sup, backoff, tracks, subs, at, pc, early>>

\* discoverCameras: the nodes that enumerate a capture format.
Discover ==
  /\ scan = "none" /\ (plugged => cam # 0 \/ made < MaxCam)
  /\ scan' = IF plugged THEN "there" ELSE "missing"
  /\ UNCHANGED <<plugged, cam, made, live, sup, backoff, tracks, subs, at, pc, faults, early>>

\* startCamera: a new object, whose supervise starts at once.
StartCamera ==
  /\ made < MaxCam /\ made' = made + 1 /\ cam' = made + 1
  /\ live' = live \cup {made + 1} /\ sup' = [sup EXCEPT ![made + 1] = "start"]
  /\ UNCHANGED <<backoff, tracks, subs, pc>>

\* Camera.Stop: the context is cancelled and the viewers closed; their tracks stay
\* in the list of an object nobody uses.
StopCamera ==
  /\ cam' = 0 /\ live' = live \ {cam}
  /\ pc' = [v \in Viewer |-> IF v \in subs[cam] THEN "closed" ELSE pc[v]]
  /\ subs' = [subs EXCEPT ![cam] = {}]
  /\ UNCHANGED <<made, sup, backoff, tracks>>

\* Start what appeared, stop what is gone, leave the rest.
Reconcile ==
  /\ scan # "none" /\ scan' = "none"
  /\ \/ scan = "there" /\ cam = 0 /\ StartCamera
     \/ scan = "missing" /\ cam # 0 /\ StopCamera
     \/ (scan = "there") = (cam # 0) /\ UNCHANGED <<cam, made, live, sup, backoff, tracks, subs, pc>>
  /\ UNCHANGED <<plugged, at, faults, early>>

-----------------------------------------------------------------------------
(* Camera.supervise. *)

Ends(c) == sup' = [sup EXCEPT ![c] = "done"] /\ UNCHANGED <<backoff, faults>>

\* pipeline.Start: a missing device fails, a present one may.
PipelineStart(c) ==
  /\ sup[c] = "start"
  /\ \/ c \notin live /\ Ends(c)
     \/ c \in live /\ plugged /\ sup' = [sup EXCEPT ![c] = "run"] /\ UNCHANGED <<backoff, faults>>
     \/ c \in live /\ sup' = [sup EXCEPT ![c] = "wait"] /\ UNCHANGED backoff
        /\ IF plugged THEN Fault ELSE UNCHANGED faults
  /\ UNCHANGED <<plugged, scan, cam, made, live, tracks, subs, at, pc, early>>

\* Variant: a pipeline that ends is the end of the camera.
PipelineExitIsFinal(c, healthy) ==
  /\ sup[c] = "run" /\ Ends(c)
  /\ UNCHANGED <<plugged, scan, cam, made, live, tracks, subs, at, pc, early>>

\* The pipeline exits, after a healthy run or soon.
PipelineExit(c, healthy) ==
  /\ sup[c] = "run"
  /\ \/ c \notin live /\ Ends(c)
     \/ /\ c \in live /\ sup' = [sup EXCEPT ![c] = "wait"]
        /\ backoff' = IF healthy THEN [backoff EXCEPT ![c] = pipelineRestartMin] ELSE backoff
        /\ IF plugged THEN Fault ELSE UNCHANGED faults
  /\ UNCHANGED <<plugged, scan, cam, made, live, tracks, subs, at, pc, early>>

\* The delay passes, doubles, and the pipeline is started again.
Backoff(c) ==
  /\ sup[c] = "wait"
  /\ IF c \notin live THEN Ends(c)
     ELSE /\ sup' = [sup EXCEPT ![c] = "start"] /\ UNCHANGED faults
          /\ backoff' = [backoff EXCEPT ![c] =
                           IF 2 * @ < pipelineRestartMax THEN 2 * @ ELSE pipelineRestartMax]
  /\ UNCHANGED <<plugged, scan, cam, made, live, tracks, subs, at, pc, early>>

-----------------------------------------------------------------------------
(* Camera.NewSubscriber, for WHEP's postOffer and handleOfferRPC. *)

Goes(v, step) == at' = [at EXCEPT ![v].pc = step]

\* The camera is looked up; then a peer connection is made, which gathers.
Offer(v) ==
  /\ at[v] = Idle /\ pc[v] = "none" /\ cam # 0
  /\ at' = [at EXCEPT ![v] = [cam |-> cam, pc |-> "gather"]]
  /\ pc' = [pc EXCEPT ![v] = "open"]
  /\ UNCHANGED <<plugged, scan, cam, made, live, sup, backoff, tracks, subs, faults, early>>

AddTrack(v) ==
  /\ at[v].pc = "gather" /\ Goes(v, "track")
  /\ tracks' = [tracks EXCEPT ![at[v].cam] = @ \cup {v}]
  /\ UNCHANGED <<plugged, scan, cam, made, live, sup, backoff, subs, pc, faults, early>>

AddSubscriber(v) ==
  /\ at[v].pc = "track" /\ Goes(v, "sub")
  /\ subs' = [subs EXCEPT ![at[v].cam] = @ \cup {v}]
  /\ UNCHANGED <<plugged, scan, cam, made, live, sup, backoff, tracks, pc, faults, early>>

\* OnConnectionStateChange: from now on changes are seen.  Then the answer, which
\* a viewer that waited through the proxy's five seconds no longer gets.
Watch(v) ==
  /\ at[v].pc = "sub" /\ Goes(v, "watch")
  /\ early' = IF pc[v] = "open" THEN early ELSE early \cup {v}
  /\ UNCHANGED <<plugged, scan, cam, made, live, sup, backoff, tracks, subs, pc, faults>>

\* The viewer leaves, never got the answer, or cannot be reached: the connection fails.
Fails(v) ==
  /\ pc[v] = "open" /\ pc' = [pc EXCEPT ![v] = "failed"]
  /\ UNCHANGED <<plugged, scan, cam, made, live, sup, backoff, tracks, subs, at, faults, early>>

\* Variant: the subscriber goes, its track stays.
RemoveKeepsTrack(c, v) ==
  /\ subs' = [subs EXCEPT ![c] = @ \ {v}]
  /\ pc' = IF v \in subs[c] THEN [pc EXCEPT ![v] = "closed"] ELSE pc
  /\ UNCHANGED tracks

\* removeSubscriber: nothing for a session the camera does not have.
RemoveSubscriber(c, v) ==
  /\ subs' = [subs EXCEPT ![c] = @ \ {v}]
  /\ tracks' = IF v \in subs[c] THEN [tracks EXCEPT ![c] = @ \ {v}] ELSE tracks
  /\ pc' = IF v \in subs[c] THEN [pc EXCEPT ![v] = "closed"] ELSE pc

\* The callback, for the camera the session was made on.
StateChanged(v) ==
  /\ at[v].pc = "watch" /\ v \notin early /\ pc[v] \in {"failed", "closed"}
  /\ RemoveSubscriber(at[v].cam, v) /\ Goes(v, "ended")
  /\ UNCHANGED <<plugged, scan, cam, made, live, sup, backoff, faults, early>>

\* WHEP's deleteSession on the LAN asks the camera that has the name now; the
\* proxy's does nothing.
DeleteSession(v) ==
  /\ at[v].pc = "watch" /\ cam # 0
  /\ RemoveSubscriber(cam, v)
  /\ UNCHANGED <<plugged, scan, cam, made, live, sup, backoff, at, faults, early>>

Next ==
  \/ Plug \/ Discover \/ Reconcile
  \/ \E c \in Camera : PipelineStart(c) \/ Backoff(c) \/ \E b \in BOOLEAN : PipelineExit(c, b)
  \/ \E v \in Viewer :
       \/ Offer(v) \/ AddTrack(v) \/ AddSubscriber(v) \/ Watch(v)
       \/ Fails(v) \/ StateChanged(v) \/ DeleteSession(v)

\* The manager's ticker, supervise's timer and goroutine, NewSubscriber once it
\* runs, and pion's callbacks.
Scans == Discover \/ Reconcile
Supervises(c) == PipelineStart(c) \/ Backoff(c) \/ (c \notin live /\ \E b \in BOOLEAN : PipelineExit(c, b))
Serves(v) == AddTrack(v) \/ AddSubscriber(v) \/ Watch(v) \/ StateChanged(v)

-----------------------------------------------------------------------------
\* A device that stays plugged in ends up streaming, whatever the pipeline did
\* before and however often the device came and went: supervise restarts what
\* exits and reconcile starts what appeared ("a camera that hiccups or briefly
\* disappears recovers on its own").
FeedReturns == (<>[]plugged) => <>[](cam # 0 /\ sup[cam] = "run")

\* Two pipelines are never meant to be running on one device: at most one object
\* has a live context, and it is the one the manager lists.
OnePipeline == live = (IF cam = 0 THEN {} ELSE {cam})

\* A camera in use writes frames to no viewer that is gone: once NewSubscriber is
\* over, a track in its list belongs to a subscriber; the connection of a
\* subscriber is open or its callback is due, unless it failed before the callback
\* was registered.
TracksAreLive ==
  \A v \in Viewer : cam # 0 /\ v \in tracks[cam] =>
    \/ at[v].pc \in {"track", "sub"}
    \/ v \in subs[cam] /\ (pc[v] = "open" \/ at[v].pc = "watch")

\* A viewer that is gone is let go: its track leaves the camera's list, or the
\* camera is stopped; unless the connection failed before the callback was there.
ViewersAreReleased ==
  \A v \in Viewer : (pc[v] = "failed") ~> (pc[v] = "closed" \/ v \in early)
=============================================================================
