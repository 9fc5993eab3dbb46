----------------------------- MODULE AgentLife -----------------------------
(* The life of the agent process: the order in which main starts the parts, *)
(* what ends the process and what it does without, the goroutine that       *)
(* declares the boot healthy, the socket the core comes in by, and the      *)
(* order in which the deferred calls take everything down again.            *)
EXTENDS Naturals, Sequences, FiniteSets, SequencesExt

CONSTANTS
  MaxLives,  \* bound: how often systemd starts the agent
  MaxFaults, \* bound: steps that fail
  MaxAlerts  \* bound: alerts raised in all

VARIABLES
  pc,      \* the step main is at, "serving", "closing" or "dead"
  at,      \* the next of Main's steps
  up,      \* the parts that are up
  defers,  \* the deferred calls, the last one first
  ident,   \* identity.toml: what it holds
  timer,   \* "off", "armed" or "fired": the goroutine that waits 3 seconds
  healthy, \* /run/waypoint/healthy exists
  sock,    \* the socket file: "none", "live" (someone accepts) or "stale"
  core,    \* the core's connection through the relay: in or out
  inbox,   \* alerts on their way to the local subscriber
  hist     \* what has happened: lives, faults, alerts, missed, deaf
           \*   missed: alerts the subscriber of this process could not be stored
           \*   deaf: the relay's accept loop has ended

vars == <<pc, at, up, defers, ident, timer, healthy, sock, core, inbox, hist>>

(* ---- The steps of main --------------------------------------------------- *)

\* fails: what a failure does ("exit", "warn", or "never" for a go statement).
\* closed: a deferred call takes the part down.
Step(n, f, d) == [name |-> n, fails |-> f, closed |-> d]

\* identity.toml: which of the fields are there, and the cameras' names.
Identity(p, key, jwt, cams) == [rover |-> TRUE, token |-> TRUE, proxy |-> p, key |-> key, jwt |-> jwt, cams |-> cams]
Identities ==
  {Identity(FALSE, FALSE, FALSE, <<>>), Identity(TRUE, TRUE, TRUE, <<"front">>),
   Identity(TRUE, TRUE, FALSE, <<>>), Identity(FALSE, FALSE, FALSE, <<"front", "front">>)}

validate(i) ==
  /\ i.rover /\ i.token /\ (i.proxy => i.key /\ i.jwt)
  /\ \A n, m \in DOMAIN i.cams : i.cams[n] # "" /\ (n # m => i.cams[n] # i.cams[m])

Proxied == ident.proxy

LoadIdentity == Step("identity", "exit", FALSE)
ModuleManager == Step("modules", "warn", FALSE)
AttachToOptions == Step("leaf", "exit", FALSE)
StartEmbedded == Step("nats", "exit", TRUE)
WaitReady == Step("ready", "exit", FALSE)
BusSink == Step("diag", "exit", FALSE)
StartRelay == Step("relay", "exit", TRUE)

\* Variant: the socket is there before the bus.
BusRelayFirst(p) ==
  <<LoadIdentity, ModuleManager, StartRelay>> \o (IF p THEN <<AttachToOptions>> ELSE <<>>)
    \o <<StartEmbedded, WaitReady, BusSink>>

Bus(p) ==
  <<LoadIdentity, ModuleManager>> \o (IF p THEN <<AttachToOptions>> ELSE <<>>)
    \o <<StartEmbedded, WaitReady, BusSink, StartRelay>>

\* The connection main's publishers share, the context they run under, the
\* module manager's goroutine, and the two stores with their subscribers.
Stores(p) ==
  <<Step("conn", "exit", TRUE), Step("ctx", "never", TRUE),
    Step("manager", "never", FALSE), Step("audit", "exit", TRUE),
    Step("auditSub", "exit", FALSE), Step("alerts", "exit", TRUE),
    Step("alertsSub", "exit", FALSE)>>

\* The image publisher, the apply handler, the telemetry, clock and heartbeat
\* goroutines, the leaf watcher with a proxy, and the goroutine that waits.
Publishers(p) ==
  <<Step("image", "warn", FALSE), Step("apply", "exit", FALSE),
    Step("publishers", "never", FALSE)>>
    \o (IF p THEN <<Step("watcher", "never", TRUE)>> ELSE <<>>)
    \o <<Step("timer", "never", FALSE)>>

\* The session key, the cameras on a connection of their own, the recorder,
\* the HTTP server's goroutine and the mDNS name.
Doors(p) ==
  <<Step("issuer", "exit", FALSE), Step("camConn", "exit", TRUE)>>
    \o (IF p THEN <<Step("ice", "warn", FALSE)>> ELSE <<>>)
    \o <<Step("cameras", "exit", TRUE), Step("recorder", "warn", FALSE),
         Step("http", "never", FALSE), Step("mdns", "warn", TRUE)>>

Main(p) == Bus(p) \o Stores(p) \o Publishers(p) \o Doors(p)

Parts == {s.name : s \in Range(Main(TRUE))}

\* What a part calls on while it is up.
Uses(s) ==
  CASE s \in {"ready", "diag", "relay", "conn", "camConn"} -> {"nats"}
    [] s = "manager" -> {"modules", "conn", "ctx"}
    [] s = "auditSub" -> {"conn", "ctx", "audit"}
    [] s = "alertsSub" -> {"conn", "ctx", "alerts"}
    [] s \in {"image", "publishers"} -> {"conn", "ctx"}
    [] s = "apply" -> {"conn"}
    [] s = "watcher" -> {"nats", "conn"}
    [] s = "cameras" -> {"camConn"}
    [] s = "recorder" -> {"conn", "cameras"}
    [] s = "http" -> {"nats", "issuer", "cameras"}
    [] OTHER -> {}

\* Ended by the cancelled context, some time after.
Followers == {"manager", "auditSub", "alertsSub", "image", "publishers"}

(* ---- A process starts ---------------------------------------------------- *)

NoHist == [lives |-> 1, faults |-> 0, alerts |-> 0, missed |-> 0, deaf |-> FALSE]

Init ==
  /\ ident \in Identities
  /\ pc = "starting" /\ at = 1 /\ up = {} /\ defers = <<>> /\ timer = "off"
  /\ healthy = FALSE /\ sock = "none" /\ core = "out" /\ inbox = 0 /\ hist = NoHist

\* The process is gone: its goroutines, its connections and its memory; files
\* stay. os.Exit runs no deferred call, so the socket file stays too.
Gone ==
  /\ pc' = "dead" /\ up' = {} /\ defers' = <<>> /\ timer' = "off" /\ core' = "out"
  /\ inbox' = 0 /\ sock' = (IF sock = "live" THEN "stale" ELSE sock)

Exit(faults) ==
  /\ Gone
  /\ hist' = [hist EXCEPT !.faults = faults]
  /\ UNCHANGED <<at, ident, healthy>>

\* A step of main succeeds.
Starts(s) ==
  /\ s.name = "identity" => validate(ident)
  /\ s.name = "manager" => "modules" \in up
  /\ at' = at + 1 /\ pc' = (IF at = Len(Main(Proxied)) THEN "serving" ELSE "starting")
  /\ up' = up \cup {s.name}
  /\ defers' = (IF s.closed THEN <<s.name>> \o defers ELSE defers)
  /\ timer' = (IF s.name = "timer" THEN "armed" ELSE timer)
  /\ sock' = (IF s.name = "relay" THEN "live" ELSE sock)
  /\ UNCHANGED <<ident, healthy, core, inbox, hist>>

\* A step of main fails and is only logged, or is left out: there is no
\* manager to run.
Skips(s) ==
  /\ \/ s.fails = "warn" /\ hist.faults < MaxFaults
        /\ hist' = [hist EXCEPT !.faults = @ + 1]
     \/ s.name = "manager" /\ "modules" \notin up /\ UNCHANGED hist
  /\ at' = at + 1 /\ pc' = (IF at = Len(Main(Proxied)) THEN "serving" ELSE "starting")
  /\ UNCHANGED <<up, defers, ident, timer, healthy, sock, core, inbox>>

Fails(s) ==
  /\ s.fails = "exit"
  /\ \/ hist.faults < MaxFaults /\ Exit(hist.faults + 1)
     \/ s.name = "identity" /\ ~validate(ident) /\ Exit(hist.faults)

StartStep ==
  pc = "starting" /\ LET s == Main(Proxied)[at] IN Starts(s) \/ Skips(s) \/ Fails(s)

(* ---- While it runs ------------------------------------------------------- *)

\* The three seconds are over: the marker is written. main may be anywhere
\* past the step that started the goroutine, and closing too.
SignalHealthy ==
  /\ timer = "armed" /\ timer' = "fired" /\ healthy' = TRUE
  /\ UNCHANGED <<pc, at, up, defers, ident, sock, core, inbox, hist>>

\* The HTTP server cannot listen, or its listener fails: os.Exit in a goroutine.
HttpFails ==
  /\ "http" \in up /\ pc \in {"starting", "serving"} /\ hist.faults < MaxFaults
  /\ Exit(hist.faults + 1)

\* The core comes in by the socket; the relay dials the bus for it.
Accept ==
  /\ core = "out" /\ "relay" \in up /\ sock = "live" /\ "nats" \in up
  /\ core' = "in"
  /\ UNCHANGED <<pc, at, up, defers, ident, timer, healthy, sock, inbox, hist>>

\* Accept returns an error: the loop logs it and ends, the listener stays open.
\* Connections it has handed on live on; no new one is taken.
AcceptFails ==
  /\ "relay" \in up /\ sock = "live" /\ pc # "dead" /\ hist.faults < MaxFaults
  /\ sock' = "stale" /\ hist' = [hist EXCEPT !.faults = @ + 1, !.deaf = TRUE]
  /\ UNCHANGED <<pc, at, up, defers, ident, timer, healthy, core, inbox>>

\* Either copy loop of a connection ends: both sides are closed.
HandleEnds ==
  /\ core = "in" /\ core' = "out"
  /\ UNCHANGED <<pc, at, up, defers, ident, timer, healthy, sock, inbox, hist>>

\* The watcher, the apply handler, the recorder or the core raises an alert.
Raise ==
  /\ \/ up \cap {"watcher", "apply", "recorder"} # {} /\ {"conn", "nats"} \subseteq up
     \/ core = "in"
  /\ hist.alerts < MaxAlerts /\ hist' = [hist EXCEPT !.alerts = @ + 1]
  /\ inbox' = (IF "alertsSub" \in up THEN inbox + 1 ELSE inbox)
  /\ UNCHANGED <<pc, at, up, defers, ident, timer, healthy, sock, core>>

\* The subscriber's callback: it stores the alert, or logs that it cannot.
Deliver ==
  /\ inbox > 0 /\ "alertsSub" \in up /\ "conn" \in up /\ inbox' = inbox - 1
  /\ hist' = (IF "alerts" \in up THEN hist ELSE [hist EXCEPT !.missed = @ + 1])
  /\ UNCHANGED <<pc, at, up, defers, ident, timer, healthy, sock, core>>

(* ---- The end ------------------------------------------------------------- *)

\* SIGTERM. Until main listens for it, the signal kills the process.
Killed == pc = "starting" /\ Exit(hist.faults)
Sigterm ==
  /\ pc = "serving" /\ pc' = "closing" /\ up' = up \ {"http"}
  /\ UNCHANGED <<at, defers, ident, timer, healthy, sock, core, inbox, hist>>

\* Stop: the listener and the connections are closed and the file is removed.
RelayStops ==
  /\ sock' = "none" /\ core' = "out"

\* The deferred calls, the last one first.
RunDefer ==
  /\ pc = "closing" /\ defers # <<>>
  /\ up' = up \ {Head(defers)} /\ defers' = Tail(defers)
  /\ IF Head(defers) = "relay" THEN RelayStops ELSE UNCHANGED <<sock, core>>
  /\ UNCHANGED <<pc, at, ident, timer, healthy, inbox, hist>>

\* A goroutine sees its cancelled context and returns; its subscriptions end
\* and what they still held is dropped.
Follow(s) ==
  /\ s \in Followers \cap up /\ "ctx" \notin up /\ pc = "closing"
  /\ up' = up \ {s} /\ inbox' = (IF s = "alertsSub" THEN 0 ELSE inbox)
  /\ UNCHANGED <<pc, at, defers, ident, timer, healthy, sock, core, hist>>

\* main returns: the process ends with whatever still runs.
Return ==
  /\ pc = "closing" /\ defers = <<>> /\ Gone
  /\ UNCHANGED <<at, ident, healthy, hist>>

\* systemd starts the agent again.
Restart ==
  /\ pc = "dead" /\ hist.lives < MaxLives
  /\ pc' = "starting" /\ at' = 1 /\ hist' = [hist EXCEPT !.lives = @ + 1, !.missed = 0, !.deaf = FALSE]
  /\ UNCHANGED <<up, defers, ident, timer, healthy, sock, core, inbox>>

Next ==
  \/ StartStep \/ SignalHealthy \/ HttpFails \/ Accept \/ AcceptFails \/ HandleEnds
  \/ Raise \/ Deliver \/ Killed \/ Sigterm \/ RunDefer \/ Return \/ Restart
  \/ \E s \in Followers : Follow(s)

Spec == Init /\ [][Next]_vars

(* ---- Properties ---------------------------------------------------------- *)

TypeOK ==
  /\ pc \in {"starting", "serving", "closing", "dead"} /\ at \in 1 .. Len(Main(Proxied)) + 1
  /\ up \subseteq Parts /\ Range(defers) \subseteq Parts /\ ident \in Identities
  /\ timer \in {"off", "armed", "fired"} /\ healthy \in BOOLEAN
  /\ sock \in {"none", "live", "stale"} /\ core \in {"in", "out"} /\ inbox \in 0 .. MaxAlerts
  /\ hist.lives \in 1 .. MaxLives /\ hist.faults \in 0 .. MaxFaults
  /\ hist.alerts \in 0 .. MaxAlerts /\ hist.missed \in 0 .. MaxAlerts /\ hist.deaf \in BOOLEAN

\* A process that declares the boot healthy has the bus, the relay the core
\* comes in by and the apply handler: the image that becomes the steady-state
\* one can be replaced, from the proxy too when there is one. It need not have come up: what main starts after the
\* goroutine can still end the process.
HealthyIsReplaceable ==
  timer = "fired" /\ pc # "closing" =>
    /\ {"nats", "ready", "relay", "conn", "auditSub", "alertsSub", "apply"} \subseteq up
    /\ ident.proxy => ident.jwt /\ {"leaf", "watcher"} \subseteq up

\* An agent that has come up keeps every alert it is given: only one that is
\* closing has closed the store under its subscriber.
AlertsAreKept == hist.missed > 0 => pc \in {"closing", "dead"}

\* What the deferred calls take down before a part that still calls on it:
\* the stores before their subscribers, the cameras before the recorder, the
\* connections and the bus before the goroutines that only end on their own,
\* and the context before those that wait for it.
OutOfOrder ==
  {<<"auditSub", "audit">>, <<"alertsSub", "alerts">>, <<"recorder", "cameras">>,
   <<"recorder", "conn">>, <<"apply", "conn">>, <<"diag", "nats">>, <<"ready", "nats">>}
    \cup (Followers \X {"ctx", "conn"})

\* main starts nothing before what it calls on, and the deferred calls close
\* nothing under a part that calls on it but for the pairs above.
UsesAreUp ==
  \A s \in up : \A u \in Uses(s) :
    u \in up \/ (pc = "closing" /\ <<s, u>> \in OutOfOrder)

\* The core is on the bus only through a relay that is up, a socket an earlier
\* process left is replaced, and only a failed accept leaves an agent that
\* serves behind a socket nobody answers.
CoreHasARelay ==
  /\ core = "in" => {"relay", "nats"} \subseteq up
  /\ "relay" \in up /\ ~hist.deaf => sock = "live"

=============================================================================
