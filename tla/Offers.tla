-------------------------------- MODULE Offers --------------------------------
(***************************************************************************)
(* A viewer that is not on the rover's network asks for a camera: the      *)
(* proxy's tunnel (proxy/internal/cameraproxy) sends the offer as a        *)
(* request with a timeout, the agent's one callback for camera_offer takes *)
(* them in turn (Manager.handleOfferRPC), and the servers to meet over are *)
(* those of the agent's own environment and those it asked the proxy for   *)
(* once, when it started (agent/internal/cameras/ice).  Cameras has what a *)
(* subscriber does afterwards.                                             *)
(***************************************************************************)
EXTENDS Naturals, Sequences, FiniteSets, SequencesExt

CONSTANTS
  Viewer,
  RPCTimeout,   \* ticks the proxy waits for the answer
  Gather,       \* ticks that gathering may take, at most
  MaxLives,     \* lives of the agent
  MaxFaults     \* changes of the link, of a role and of the proxy's key

VARIABLES
  link,         \* the leaf is up
  turn,         \* CLOUDFLARE_TURN_KEY of the proxy: "unset", "malformed" or a key
  local,        \* and of the agent
  role,         \* what each viewer may do on the rover
  asked,        \* RequestFromProxy: "due", "done" or "missed"
  proxyIce,     \* the servers of the proxy
  queue,        \* requests that have reached the agent
  busy,         \* the request in NewSubscriber, with the ticks it has left
  wait,         \* per viewer, ticks until the proxy gives up; 0: it is not waiting
  view,         \* what the viewer got: "none", "answer" or an error
  subs,         \* subscribers in the agent, with the servers each was made with
  hist

vars == <<link, turn, local, role, asked, proxyIce, queue, busy, wait, view, subs, hist>>

Nobody == [viewer |-> "-", left |-> 0, ice |-> {}]
Key == {"unset", "malformed", "key"}

Init ==
  /\ link \in BOOLEAN /\ turn \in Key /\ local \in {"unset", "key"}
  /\ role = [v \in Viewer |-> "monitor"] /\ asked = "due" /\ proxyIce = {}
  /\ queue = <<>> /\ busy = Nobody /\ wait = [v \in Viewer |-> 0]
  /\ view = [v \in Viewer |-> "none"] /\ subs = [v \in Viewer |-> {}]
  /\ hist = [lives |-> 1, faults |-> 0, in |-> {}, near |-> {}, late |-> {}, cut |-> {}]

-----------------------------------------------------------------------------
(* The servers. *)

\* "<id>:<token>", or no server.
iceServersFromEnv == IF turn = "key" THEN {"proxy's"} ELSE {}
iceServersReply == iceServersFromEnv
envProvided == IF local = "key" THEN {"own"} ELSE {}
SetProxyProvided(servers) == proxyIce' = servers
Resolve == envProvided \cup proxyIce

\* Once, in a goroutine of its own; without an answer it is not asked again.
RequestFromProxy ==
  /\ asked = "due"
  /\ IF link THEN asked' = "done" /\ SetProxyProvided(iceServersReply)
     ELSE asked' = "missed" /\ UNCHANGED proxyIce
  /\ UNCHANGED <<link, turn, local, role, queue, busy, wait, view, subs, hist>>

-----------------------------------------------------------------------------
(* The proxy. *)

\* RequireCameraAccess: the role as it is now; RequireUser came before.
RequireCameraAccess(v) == role[v] # "none"

\* Variant: a viewer without a role is let through.
postOfferAnybody(v) ==
  /\ wait[v] = 0 /\ view[v] = "none"
  /\ IF link THEN /\ queue' = Append(queue, v) /\ wait' = [wait EXCEPT ![v] = RPCTimeout]
                  /\ UNCHANGED view
     ELSE view' = [view EXCEPT ![v] = "unreachable"] /\ UNCHANGED <<queue, wait>>
  /\ hist' = [hist EXCEPT !.in = IF role[v] = "none" THEN @ ELSE @ \cup {v}]
  /\ UNCHANGED <<link, turn, local, role, asked, proxyIce, busy, subs>>

\* postOffer: without a responder on the other side the request fails at once.
postOffer(v) ==
  /\ wait[v] = 0 /\ view[v] = "none" /\ RequireCameraAccess(v)
  /\ IF link THEN /\ queue' = Append(queue, v) /\ wait' = [wait EXCEPT ![v] = RPCTimeout]
                  /\ UNCHANGED view
     ELSE view' = [view EXCEPT ![v] = "unreachable"] /\ UNCHANGED <<queue, wait>>
  /\ hist' = [hist EXCEPT !.in = @ \cup {v}]
  /\ UNCHANGED <<link, turn, local, role, asked, proxyIce, busy, subs>>

-----------------------------------------------------------------------------
(* The agent. *)

\* The reply, which goes nowhere if the leaf is down or the proxy has given up.
Reply(v, what) ==
  IF link /\ wait[v] > 0
    THEN view' = [view EXCEPT ![v] = what] /\ wait' = [wait EXCEPT ![v] = 0]
    ELSE UNCHANGED <<view, wait>>

\* replyOfferErr: no such camera, or NewSubscriber failed.
Refuses ==
  /\ busy = Nobody /\ queue # <<>> /\ queue' = Tail(queue)
  /\ Reply(Head(queue), "refused")
  /\ UNCHANGED <<link, turn, local, role, asked, proxyIce, busy, subs, hist>>

\* handleOfferRPC: the next one, when the callback is done with the last.
Takes(n) ==
  /\ busy = Nobody /\ queue # <<>> /\ n \in 1 .. Gather
  /\ busy' = [viewer |-> Head(queue), left |-> n, ice |-> Resolve] /\ queue' = Tail(queue)
  /\ UNCHANGED <<link, turn, local, role, asked, proxyIce, wait, view, subs, hist>>

Answers ==
  LET v == busy.viewer IN
  /\ busy # Nobody /\ busy.left = 0 /\ busy' = Nobody
  /\ subs' = [subs EXCEPT ![v] = busy.ice \cup {"lan"}]
  /\ Reply(v, "answer")
  /\ hist' = IF link /\ wait[v] > 0 THEN hist ELSE [hist EXCEPT !.late = @ \cup {v}]
  /\ UNCHANGED <<link, turn, local, role, asked, proxyIce, queue>>

\* On the rover's own network an offer has a goroutine of its own (whep).
postLocalOffer(v) ==
  /\ wait[v] = 0 /\ view[v] = "none"
  /\ subs' = [subs EXCEPT ![v] = Resolve \cup {"lan"}]
  /\ view' = [view EXCEPT ![v] = "answer"] /\ hist' = [hist EXCEPT !.near = @ \cup {v}]
  /\ UNCHANGED <<link, turn, local, role, asked, proxyIce, queue, busy, wait>>

\* Time passes, not past the moment an answer is ready.
Tick ==
  /\ busy # Nobody => busy.left > 0
  /\ busy = Nobody => queue = <<>>
  /\ \E v \in Viewer : wait[v] > 0
  /\ busy' = IF busy = Nobody THEN busy ELSE [busy EXCEPT !.left = @ - 1]
  /\ wait' = [v \in Viewer |-> IF wait[v] = 0 THEN 0 ELSE wait[v] - 1]
  /\ view' = [v \in Viewer |-> IF wait[v] = 1 THEN "unreachable" ELSE view[v]]
  /\ UNCHANGED <<link, turn, local, role, asked, proxyIce, queue, subs, hist>>

\* A peer connection that never connects fails, and its subscriber goes.
Forgotten(v) ==
  /\ subs[v] # {} /\ view[v] # "answer" /\ subs' = [subs EXCEPT ![v] = {}]
  /\ hist' = [hist EXCEPT !.late = @ \ {v}]
  /\ UNCHANGED <<link, turn, local, role, asked, proxyIce, queue, busy, wait, view>>

-----------------------------------------------------------------------------
Fault == hist.faults < MaxFaults /\ hist' = [hist EXCEPT !.faults = @ + 1]

LinkChanges ==
  /\ Fault /\ link' = ~link
  /\ UNCHANGED <<turn, local, role, asked, proxyIce, queue, busy, wait, view, subs>>

\* The proxy is deployed with another key; requests in progress end.
KeyChanges(k) ==
  /\ k # turn /\ Fault /\ turn' = k
  /\ wait' = [v \in Viewer |-> 0]
  /\ view' = [v \in Viewer |-> IF wait[v] > 0 THEN "unreachable" ELSE view[v]]
  /\ UNCHANGED <<link, local, role, asked, proxyIce, queue, busy, subs>>

Revoke(v) ==
  /\ role[v] # "none" /\ Fault /\ role' = [role EXCEPT ![v] = "none"]
  /\ UNCHANGED <<link, turn, local, asked, proxyIce, queue, busy, wait, view, subs>>

Restart ==
  /\ hist.lives < MaxLives
  /\ hist' = [hist EXCEPT !.lives = @ + 1, !.late = {}, !.cut = {v \in Viewer : view[v] = "answer"}]
  /\ asked' = "due" /\ proxyIce' = {} /\ queue' = <<>> /\ busy' = Nobody
  /\ subs' = [v \in Viewer |-> {}]
  /\ UNCHANGED <<link, turn, local, role, wait, view>>

Next ==
  \/ RequestFromProxy \/ Refuses \/ Answers \/ Tick \/ LinkChanges \/ Restart
  \/ \E n \in 1 .. Gather : Takes(n)
  \/ \E v \in Viewer : postOffer(v) \/ postLocalOffer(v) \/ Forgotten(v) \/ Revoke(v)
  \/ \E k \in Key : KeyChanges(k)

Spec == Init /\ [][Next]_vars

-----------------------------------------------------------------------------
TypeOK ==
  /\ turn \in Key /\ asked \in {"due", "done", "missed"} /\ proxyIce \subseteq {"proxy's"}
  /\ Range(queue) \subseteq Viewer /\ wait \in [Viewer -> 0 .. RPCTimeout]
  /\ view \in [Viewer -> {"none", "answer", "refused", "unreachable"}]

\* A viewer with an answer has a subscriber of its own in the agent, until the agent
\* starts again, and was let in with a role; a subscriber without such a viewer is
\* one whose answer came too late (postOffer, handleOfferRPC).
AnswersHaveSubscribers ==
  \A v \in Viewer :
    /\ view[v] = "answer" => v \in hist.in \cup hist.near /\ (subs[v] # {} \/ v \in hist.cut)
    /\ subs[v] # {} => v \in hist.in \cup hist.near /\ (view[v] = "answer" \/ v \in hist.late)

\* Nobody waits in vain: while the link and both processes stay as they are, an offer
\* is answered in time if the ones before it and its own gathering fit in the
\* timeout; only then.  One at a time, they add up.
InTime ==
  \A v \in Viewer : hist.faults = 0 /\ hist.lives = 1 /\ view[v] = "unreachable" =>
    ~link \/ Gather * Cardinality(hist.in) >= RPCTimeout

\* A viewer far away is given the proxy's servers, unless the agent had no link when
\* it asked, has not asked yet, or the key was changed since: nothing asks again.
ServersAreKnown ==
  hist.faults = 0 /\ asked # "due" => proxyIce = IF asked = "done" THEN iceServersReply ELSE {}
=============================================================================
