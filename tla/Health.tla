-------------------------------- MODULE Health --------------------------------
(***************************************************************************)
(* How the agent knows and tells that a module is healthy                  *)
(* (agent/internal/modules/health.go, publisher.go, manager.go), for one   *)
(* module.  One that is baked into the image has a HealthWatcher that asks *)
(* it on the bus and reports each transition from a goroutine of its own;  *)
(* one the reconciler attaches has a poller that reports every sample.     *)
(* The publisher keeps the last report and sends a snapshot every second   *)
(* and whenever it is signalled.                                           *)
(***************************************************************************)
EXTENDS Naturals

CONSTANTS
  MaxPoller,  \* pollers started
  MaxFaults   \* the module dying and coming back, and replies that come late

VARIABLES
  baked,      \* the module is baked, or attached by the reconciler
  up,         \* it runs and answers
  watcher,    \* HealthWatcher: healthy and misses
  notes,      \* OnChange goroutines under way, by what they report
  attached,   \* it is in SnapshotPublisher.runtime
  health,     \* SnapshotPublisher.healthy: FALSE when there is no entry
  signalling, \* setters between their unlock and the signal
  change,     \* the channel change holds a signal
  snapshot,   \* the last one published
  poller,     \* each poller: "none", "idle", "yes" or "no" to report, "ended"
  current,    \* the poller whose context is live, or 0
  started, faults,
  swapped     \* history: two reports of the watcher were under way at once

state == <<baked, up, watcher, notes, attached, health, signalling, change, snapshot, poller,
           current, started, faults, swapped>>

Poller == 1 .. MaxPoller
healthMissThreshold == 3
Listed == baked \/ attached
\* buildSnapshot: a runtime module, or a baked one it does not shadow.
BuildSnapshot == [present |-> Listed, healthy |-> Listed /\ health]

TypeOK ==
  /\ {baked, up, attached, health, change, swapped} \subseteq BOOLEAN
  /\ watcher \in [healthy : BOOLEAN, misses : 0 .. healthMissThreshold]
  /\ notes \in [BOOLEAN -> Nat] /\ signalling \in Nat
  /\ poller \in [Poller -> {"none", "idle", "yes", "no", "ended"}]
  /\ current \in Poller \cup {0} /\ started \in 0 .. MaxPoller
  /\ snapshot \in [present : BOOLEAN, healthy : BOOLEAN]

Init ==
  /\ baked \in BOOLEAN /\ up = FALSE
  /\ watcher = [healthy |-> FALSE, misses |-> 0] /\ notes = [b \in BOOLEAN |-> 0]
  /\ attached = FALSE /\ health = FALSE /\ signalling = 0 /\ change = FALSE
  /\ snapshot = [present |-> baked, healthy |-> FALSE]
  /\ poller = [p \in Poller |-> "none"] /\ current = 0 /\ started = 0
  /\ faults = 0 /\ swapped = FALSE

Fault == faults < MaxFaults /\ faults' = faults + 1

\* The module's process starts or dies.
ModuleChanges ==
  /\ Fault /\ up' = ~up
  /\ UNCHANGED <<baked, watcher, notes, attached, health, signalling, change, snapshot, poller,
                 current, started, swapped>>

-----------------------------------------------------------------------------
\* SetHealth; the signal comes after the lock is released.
SetHealth(b) ==
  /\ health' = b
  /\ signalling' = IF health # b THEN signalling + 1 ELSE signalling

\* signalChange: one signal is enough.
Signal ==
  /\ signalling > 0 /\ signalling' = signalling - 1 /\ change' = TRUE
  /\ UNCHANGED <<baked, up, watcher, notes, attached, health, snapshot, poller, current, started,
                 faults, swapped>>

\* SnapshotPublisher.Run, on its ticker or on a signal.
Publish(signalled) ==
  /\ signalled => change
  /\ change' = IF signalled THEN FALSE ELSE change
  /\ snapshot' = BuildSnapshot
  /\ UNCHANGED <<baked, up, watcher, notes, attached, health, signalling, poller, current, started,
                 faults, swapped>>

-----------------------------------------------------------------------------
(* HealthWatcher. *)

Reports(b) ==
  /\ notes' = IF watcher.healthy # b THEN [notes EXCEPT ![b] = @ + 1] ELSE notes
  /\ swapped' = (swapped \/ (watcher.healthy # b /\ notes[~b] > 0))

\* tick: a reply, or none in time; misses count up to the threshold.
Tick(replied) ==
  LET missed == IF watcher.misses < healthMissThreshold THEN watcher.misses + 1 ELSE healthMissThreshold IN
  /\ baked /\ (replied => up)
  /\ IF ~replied /\ up THEN Fault ELSE UNCHANGED faults
  /\ watcher' = IF replied THEN [healthy |-> TRUE, misses |-> 0]
                ELSE [healthy |-> watcher.healthy /\ missed < healthMissThreshold, misses |-> missed]
  /\ Reports(watcher'.healthy)
  /\ UNCHANGED <<baked, up, attached, health, signalling, change, snapshot, poller, current, started>>

\* go h.OnChange: in any order.
OnChange(b) ==
  /\ notes[b] > 0 /\ notes' = [notes EXCEPT ![b] = @ - 1]
  /\ SetHealth(b)
  /\ UNCHANGED <<baked, up, watcher, attached, change, snapshot, poller, current, started, faults,
                 swapped>>

-----------------------------------------------------------------------------
(* onModuleAttached, onModuleDetached and pollHealth. *)

\* Also for an update of a module that is attached: the old poller is cancelled.
Attach ==
  /\ ~baked /\ started < MaxPoller /\ started' = started + 1
  /\ attached' = TRUE /\ signalling' = signalling + 1
  /\ current' = started + 1 /\ poller' = [poller EXCEPT ![started + 1] = "idle"]
  /\ UNCHANGED <<baked, up, watcher, notes, health, change, snapshot, faults, swapped>>

Detach ==
  /\ attached /\ attached' = FALSE /\ current' = 0
  /\ health' = FALSE /\ signalling' = signalling + 1
  /\ UNCHANGED <<baked, up, watcher, notes, change, snapshot, poller, started, faults, swapped>>

\* check: IsActive, which fails when the context is cancelled.
Ask(p) ==
  /\ poller[p] = "idle"
  /\ poller' = [poller EXCEPT ![p] = IF p = current /\ up THEN "yes" ELSE "no"]
  /\ UNCHANGED <<baked, up, watcher, notes, attached, health, signalling, change, snapshot, current,
                 started, faults, swapped>>

\* Variant: one sample, and no ticker.
SetsOnce(p) ==
  /\ poller[p] \in {"yes", "no"} /\ SetHealth(poller[p] = "yes")
  /\ poller' = [poller EXCEPT ![p] = "ended"]
  /\ UNCHANGED <<baked, up, watcher, notes, attached, change, snapshot, current, started, faults, swapped>>

Sets(p) ==
  /\ poller[p] \in {"yes", "no"} /\ SetHealth(poller[p] = "yes")
  /\ poller' = [poller EXCEPT ![p] = IF p = current THEN "idle" ELSE "ended"]
  /\ UNCHANGED <<baked, up, watcher, notes, attached, change, snapshot, current, started, faults, swapped>>

Next ==
  \/ ModuleChanges \/ Signal \/ Attach \/ Detach
  \/ \E b \in BOOLEAN : Publish(b) \/ Tick(b) \/ OnChange(b)
  \/ \E p \in Poller : Ask(p) \/ Sets(p)

\* What runs by itself: the tickers and the goroutines.
Polls(p) == Ask(p) \/ Sets(p)
Ticks == Tick(up)
Publishes == Publish(change)

-----------------------------------------------------------------------------
\* A change of what a snapshot would say is never left waiting for the ticker: a
\* signal is in the channel, or whoever made the change is about to send one
\* (the channel holds one signal, and a second change may find it full).
NoLostChange == snapshot # BuildSnapshot => change \/ signalling > 0

\* When no report is under way the publisher says what the watcher found, unless
\* two reports overtook each other, which nothing corrects before the next
\* transition.
WatcherAgrees ==
  baked /\ (\A b \in BOOLEAN : notes[b] = 0) => health = watcher.healthy \/ swapped

\* A module that stays as it is, running or dead, is shown so in the end, whatever
\* late report of an old poller or watcher came in between; unless two reports of
\* the watcher overtook each other.
HealthConverges ==
  \A b \in BOOLEAN : (<>[](Listed /\ up = b)) => <>[](snapshot.healthy = b \/ swapped)
=============================================================================
