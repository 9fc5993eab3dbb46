------------------------------- MODULE Serving -------------------------------
(***************************************************************************)
(* The life of a module that uses the SDK (sdk/wpmodule): Run, the servers *)
(* of its components with their publish loops and command subscriptions,   *)
(* and the shutdown.  Servers are started by setup or, later, by the       *)
(* module's own goroutines, and stopped by their owner or by Run.          *)
(***************************************************************************)
EXTENDS Naturals, Sequences, SequencesExt

CONSTANTS
  Server,     \* calls of ServeArm, ServeBase and ServeSensor
  Sensor,     \* the last ones among them, which have no commands
  MaxTicks    \* ticks of the publish loops and commands

VARIABLES
  pc,         \* Run: "off", "connected", "ready", "stopping", "returned" or "failed"
  creds,      \* the creds file the agent writes: "none", "torn" or "whole"
  conn,       \* the connection: "none", "open", "draining" or "closed"
  health,     \* the responder of health.ready
  stats,      \* the stop channel of the heartbeat: "none", "open" or "closed"
  stops,      \* M.stops
  todo,       \* what runStops has taken
  srv,        \* each server: "none", "subscribed", "looping", "registered"
  sub,        \* servers that are subscribed
  open,       \* servers whose stop channel is open
  loop,       \* the goroutine of each server: "none", "wait", "build" or "done"
  busy,       \* servers whose command callback is running
  ticks,
  after,      \* history: servers that took a command after their stop
  late        \* history: servers that were registered after runStops had taken the list

run == <<pc, creds, conn, health, stats>>
lists == <<stops, todo>>
servers == <<srv, sub, open, loop, busy>>
hist == <<after, late>>
vars == <<run, lists, servers, ticks, hist>>

TypeOK ==
  /\ pc \in {"off", "connected", "ready", "stopping", "returned", "failed"}
  /\ conn \in {"none", "open", "draining", "closed"} /\ stats \in {"none", "open", "closed"}
  /\ sub \cup open \cup busy \cup after \cup late \subseteq Server
  /\ srv \in [Server -> {"none", "subscribed", "looping", "registered"}]
  /\ loop \in [Server -> {"none", "wait", "build", "done"}]

Init ==
  /\ pc = "off" /\ creds = "none" /\ conn = "none" /\ health = FALSE /\ stats = "none"
  /\ stops = <<>> /\ todo = <<>> /\ srv = [s \in Server |-> "none"] /\ sub = {} /\ open = {}
  /\ loop = [s \in Server |-> "none"] /\ busy = {} /\ ticks = 0
  /\ after = {} /\ late = {}

-----------------------------------------------------------------------------
(* Run. *)

\* WriteRuntimeFiles of the agent, which is not atomic (external here).
WriteCreds ==
  /\ creds # "whole" /\ creds' = IF creds = "none" THEN "torn" ELSE "whole"
  /\ UNCHANGED <<pc, conn, health, stats, lists, servers, ticks, hist>>

\* loadCredsEnv needs both lines.
loadCredsEnv == creds = "whole"

startStats == stats' = "open"

\* Connect, the responder of health.ready and the heartbeat, before setup.
Connect ==
  /\ pc = "off" /\ loadCredsEnv /\ pc' = "connected"
  /\ conn' = "open" /\ health' = TRUE /\ startStats
  /\ UNCHANGED <<creds, lists, servers, ticks, hist>>

\* Setup returned; systemd is told.
SetupDone ==
  /\ pc = "connected" /\ pc' = "ready"
  /\ UNCHANGED <<creds, conn, health, stats, lists, servers, ticks, hist>>

\* Setup failed: Run returns through its deferred calls, past runStops.
SetupFails ==
  /\ pc = "connected" /\ pc' = "failed" /\ stats' = "closed" /\ health' = FALSE /\ conn' = "draining"
  /\ UNCHANGED <<creds, lists, servers, ticks, hist>>

\* SIGTERM: done is closed, and runStops takes the list.
Shutdown ==
  /\ pc = "ready" /\ pc' = "stopping" /\ todo' = Reverse(stops) /\ stops' = <<>>
  /\ UNCHANGED <<creds, conn, health, stats, servers, ticks, hist>>

\* A stop func: the channel is closed and the subscription ended, once.
Stop(s) ==
  /\ open' = open \ {s} /\ sub' = sub \ {s}
  /\ UNCHANGED <<srv, loop, busy>>

RunStop ==
  /\ pc = "stopping" /\ todo # <<>> /\ Stop(Head(todo)) /\ todo' = Tail(todo)
  /\ UNCHANGED <<run, stops, ticks, hist>>

\* The deferred calls: heartbeat, responder, and the drain, which goes on after the
\* return.
Return ==
  /\ pc = "stopping" /\ todo = <<>> /\ pc' = "returned"
  /\ stats' = "closed" /\ health' = FALSE /\ conn' = "draining"
  /\ UNCHANGED <<creds, lists, servers, ticks, hist>>

\* Drain: the subscriptions end, callbacks under way finish, then it is closed.
Drained ==
  /\ conn = "draining" /\ busy = {} /\ conn' = "closed" /\ sub' = {}
  /\ UNCHANGED <<pc, creds, health, stats, lists, srv, open, loop, busy, ticks, hist>>

-----------------------------------------------------------------------------
(* The servers. *)

\* ServeArm, ServeBase: the subscription, which a closing connection refuses.
Subscribe(s) ==
  /\ pc \notin {"off", "failed"} /\ srv[s] = "none" /\ (s \in Sensor \/ conn = "open")
  /\ srv' = [srv EXCEPT ![s] = "subscribed"] /\ sub' = IF s \in Sensor THEN sub ELSE sub \cup {s}
  /\ UNCHANGED <<run, lists, open, loop, busy, ticks, hist>>

\* serveState.
StartLoop(s) ==
  /\ srv[s] = "subscribed" /\ srv' = [srv EXCEPT ![s] = "looping"]
  /\ loop' = [loop EXCEPT ![s] = "wait"] /\ open' = open \cup {s}
  /\ UNCHANGED <<run, lists, sub, busy, ticks, hist>>

\* register: addStop.  The caller has the stop func from now on.
Register(s) ==
  /\ srv[s] = "looping" /\ srv' = [srv EXCEPT ![s] = "registered"] /\ stops' = Append(stops, s)
  /\ late' = IF pc \in {"stopping", "returned"} THEN late \cup {s} ELSE late
  /\ UNCHANGED <<run, todo, sub, open, loop, busy, ticks, after>>

\* The owner of a server stops it.
OwnerStops(s) ==
  /\ srv[s] = "registered" /\ s \in open /\ Stop(s)
  /\ UNCHANGED <<run, lists, ticks, hist>>

\* The publish loop: a tick, with the stop channel open or, when both are there, closed.
Tick(s) ==
  /\ loop[s] = "wait" /\ ticks < MaxTicks /\ ticks' = ticks + 1
  /\ loop' = [loop EXCEPT ![s] = "build"]
  /\ UNCHANGED <<run, lists, srv, sub, open, busy, hist>>

Publish(s) ==
  /\ loop[s] = "build" /\ loop' = [loop EXCEPT ![s] = "wait"]
  /\ UNCHANGED <<run, lists, srv, sub, open, busy, ticks, hist>>

LoopEnds(s) ==
  /\ loop[s] = "wait" /\ s \notin open /\ loop' = [loop EXCEPT ![s] = "done"]
  /\ UNCHANGED <<run, lists, srv, sub, open, busy, ticks, hist>>

\* Variant: what is still queued is delivered after the subscription has ended.
CommandWhenOpen(s) ==
  /\ srv[s] # "none" /\ s \notin Sensor /\ s \notin busy /\ conn \in {"open", "draining"}
  /\ ticks < MaxTicks /\ ticks' = ticks + 1 /\ busy' = busy \cup {s}
  /\ after' = IF srv[s] = "registered" /\ s \notin open THEN after \cup {s} ELSE after
  /\ UNCHANGED <<run, lists, srv, sub, open, loop, late>>

\* A command is delivered to the subscription's callback.
Command(s) ==
  /\ s \in sub /\ s \notin busy /\ conn \in {"open", "draining"}
  /\ ticks < MaxTicks /\ ticks' = ticks + 1 /\ busy' = busy \cup {s}
  /\ after' = IF srv[s] = "registered" /\ s \notin open THEN after \cup {s} ELSE after
  /\ UNCHANGED <<run, lists, srv, sub, open, loop, late>>

CommandDone(s) ==
  /\ s \in busy /\ busy' = busy \ {s}
  /\ UNCHANGED <<run, lists, srv, sub, open, loop, ticks, hist>>

Next ==
  \/ WriteCreds \/ Connect \/ SetupDone \/ SetupFails \/ Shutdown \/ RunStop \/ Return \/ Drained
  \/ \E s \in Server :
       \/ Subscribe(s) \/ StartLoop(s) \/ Register(s) \/ OwnerStops(s)
       \/ Tick(s) \/ Publish(s) \/ LoopEnds(s) \/ Command(s) \/ CommandDone(s)

Spec == Init /\ [][Next]_vars

-----------------------------------------------------------------------------
\* When Run has returned after a signal, every server is stopped: its loop's channel
\* is closed and it takes no more commands (runStops), although owners stop servers
\* themselves meanwhile; except those that were registered, or were about to be,
\* after runStops had taken the list, which nothing stops.
ServersAreStopped ==
  pc = "returned" =>
    \A s \in Server : srv[s] = "registered" /\ s \notin late => s \notin open \cup sub

\* A server that was stopped takes no further command.
NoCommandAfterStop == after = {}

\* The drain comes last: while a server has still to be stopped by Run the
\* connection is open, so that its last state and its answers go out.
StopsBeforeDrain == todo # <<>> => conn = "open" /\ health
===============================================================================
