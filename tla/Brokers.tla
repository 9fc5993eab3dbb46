------------------------------- MODULE Brokers -------------------------------
(***************************************************************************)
(* The agent's brokers between a sandboxed module and the rover's bus      *)
(* (agent/internal/modules/servo_broker.go, drive_broker.go,               *)
(* teleop_input_broker.go), for one module and one of its streams.  A      *)
(* broker's subscriptions each have a queue and a goroutine; the mode is   *)
(* another subscription of the broker.  Starting a stream that is started  *)
(* subscribes first and unsubscribes the old one after.                    *)
(***************************************************************************)
EXTENDS Naturals, Sequences, FiniteSets

CONSTANTS
  Wheel,      \* bus ids the descriptor gives to the platform: the deny list
  Joint,      \* other bus ids
  MaxMsg,     \* messages sent on the stream
  MaxMode,    \* mode changes and announcements of the core
  MaxStart    \* starts of the module's stream

VARIABLES
  stream,     \* the stream followed: "servo", "sync", "drive" or "input"
  dev,        \* a development image: a wildcard subscription does the servo and drive commands
  mode,       \* the core's mode
  events,     \* mode events on their way to the broker
  known,      \* the broker's mode
  heard,      \* mode events it has had
  changes,
  subs,       \* subscriptions that are live
  registered, \* those the broker has under the module's id
  made,
  queue,      \* messages queued at each subscription
  hand,       \* what its callback is doing
  sent,
  ids,        \* the bus ids each message names
  relayed,    \* how often each message was passed on
  passed,     \* bus ids the core was given
  doubled,    \* history: messages sent between the two halves of a start
  ended,      \* history: messages sent while no subscription was live
  breach      \* history: a message was passed on in a mode the broker knew was wrong

state == <<stream, dev, mode, events, known, heard, changes, subs, registered, made, queue, hand,
           sent, ids, relayed, passed, doubled, ended, breach>>

Mode == {"SAFE", "MANUAL", "AUTONOMOUS"}
Msg == 1 .. MaxMsg
Subn == 0 .. MaxStart
Idle == [msg |-> 0, ok |-> FALSE, at |-> 0]

\* The mode a stream is gated on; servo streams are not.
Gate == CASE stream = "drive" -> {"AUTONOMOUS"} [] stream = "input" -> {"MANUAL"} [] OTHER -> Mode
Gated == stream \in {"drive", "input"}
\* A start has subscribed and not yet registered.
Starting == made # 0 /\ made \in subs \ registered
\* startDev: subscription 0.
Wildcard == dev /\ stream # "input"

TypeOK ==
  /\ stream \in {"servo", "sync", "drive", "input"} /\ mode \in Mode /\ known \in Mode \cup {"UNSPECIFIED"}
  /\ subs \subseteq Subn /\ registered \subseteq subs
  /\ relayed \in [Msg -> Nat] /\ passed \subseteq Wheel \cup Joint
  /\ \A s \in Subn : hand[s].msg \in 0 .. MaxMsg
  /\ {dev, breach} \subseteq BOOLEAN /\ doubled \cup ended \subseteq Msg

Init ==
  /\ stream \in {"servo", "sync", "drive", "input"} /\ dev \in BOOLEAN
  /\ mode = "SAFE" /\ events = <<>> /\ known = "UNSPECIFIED" /\ heard = 0 /\ changes = 0
  /\ subs = (IF Wildcard THEN {0} ELSE {}) /\ registered = {} /\ made = 0
  /\ queue = [s \in Subn |-> <<>>] /\ hand = [s \in Subn |-> Idle]
  /\ sent = 0 /\ ids = [m \in Msg |-> {}] /\ relayed = [m \in Msg |-> 0] /\ passed = {}
  /\ doubled = {} /\ ended = {} /\ breach = FALSE

-----------------------------------------------------------------------------
\* The core changes its mode or announces it again: one event for every subscriber.
CoreMode(m) ==
  /\ Gated /\ changes < MaxMode /\ changes' = changes + 1
  /\ mode' = m /\ events' = Append(events, m)
  /\ UNCHANGED <<stream, dev, known, heard, subs, registered, made, queue, hand, sent, ids, relayed,
                 passed, doubled, ended, breach>>

\* The callback of ensureModeSub.
ModeEvent ==
  /\ events # <<>> /\ events' = Tail(events) /\ heard' = heard + 1
  /\ known' = Head(events)
  /\ UNCHANGED <<stream, dev, mode, changes, subs, registered, made, queue, hand, sent, ids, relayed,
                 passed, doubled, ended, breach>>

\* start: subscribe.  onModuleAttached leaves it to the wildcard where there is one.
Subscribe ==
  /\ made < MaxStart /\ ~Wildcard /\ ~Starting /\ made' = made + 1
  /\ subs' = subs \cup {made + 1}
  /\ UNCHANGED <<stream, dev, mode, events, known, heard, changes, registered, queue, hand, sent, ids,
                 relayed, passed, doubled, ended, breach>>

Ends(gone) ==
  /\ subs' = subs \ gone
  /\ queue' = [s \in Subn |-> IF s \in gone THEN <<>> ELSE queue[s]]

\* start: the old one is unsubscribed and the new one registered.
Register ==
  /\ Starting /\ registered' = {made}
  /\ Ends(registered)
  /\ UNCHANGED <<stream, dev, mode, events, known, heard, changes, made, hand, sent, ids, relayed,
                 passed, doubled, ended, breach>>

\* stop; the reconciler runs it between two starts, never during one.
Stop ==
  /\ registered # {} /\ subs \ {0} = registered /\ registered' = {}
  /\ Ends(registered)
  /\ UNCHANGED <<stream, dev, mode, events, known, heard, changes, made, hand, sent, ids, relayed,
                 passed, doubled, ended, breach>>

-----------------------------------------------------------------------------
\* The module sends a command, or the operator the gamepad: to every subscription.
Send(named) ==
  /\ sent < MaxMsg /\ sent' = sent + 1 /\ ids' = [ids EXCEPT ![sent'] = named]
  /\ Cardinality(named) = (IF stream = "servo" THEN 1 ELSE IF stream = "sync" THEN 2 ELSE 0)
  /\ queue' = [s \in Subn |-> IF s \in subs THEN Append(queue[s], sent') ELSE queue[s]]
  /\ ended' = IF subs = {} THEN ended \cup {sent'} ELSE ended
  /\ doubled' = IF Starting THEN doubled \cup {sent'} ELSE doubled
  /\ UNCHANGED <<stream, dev, mode, events, known, heard, changes, subs, registered, made, hand, relayed,
                 passed, breach>>

\* The callback reads the mode under the lock.
Check(s) ==
  /\ hand[s] = Idle /\ queue[s] # <<>>
  /\ queue' = [queue EXCEPT ![s] = Tail(@)]
  /\ hand' = [hand EXCEPT ![s] = [msg |-> Head(queue[s]), ok |-> ~Gated \/ known \in Gate, at |-> heard]]
  /\ UNCHANGED <<stream, dev, mode, events, known, heard, changes, subs, registered, made, sent, ids,
                 relayed, passed, doubled, ended, breach>>

\* Variant: a sync write is refused only when it names nothing but wheels.
AllowedWhole(m) == IF ids[m] \subseteq Wheel THEN {} ELSE ids[m]

\* The drive-wheel guard: one id, or what is left of a sync write.
Allowed(m) == ids[m] \ Wheel

\* ... and publishes, unless nothing is left or the gate was closed.
Relay(s) ==
  LET m == hand[s].msg
      goes == hand[s].ok /\ (stream \in {"servo", "sync"} => Allowed(m) # {})
  IN
  /\ hand[s] # Idle /\ hand' = [hand EXCEPT ![s] = Idle]
  /\ relayed' = IF goes THEN [relayed EXCEPT ![m] = @ + 1] ELSE relayed
  /\ passed' = IF goes THEN passed \cup Allowed(m) ELSE passed
  /\ breach' = (breach \/ (goes /\ mode \notin Gate /\ events = <<>> /\ hand[s].at = heard))
  /\ UNCHANGED <<stream, dev, mode, events, known, heard, changes, subs, registered, made, queue, sent,
                 ids, doubled, ended>>

Next ==
  \/ \E m \in Mode : CoreMode(m)
  \/ ModeEvent \/ Subscribe \/ Register \/ Stop
  \/ \E named \in SUBSET (Wheel \cup Joint) : Send(named)
  \/ \E s \in Subn : Check(s) \/ Relay(s)

-----------------------------------------------------------------------------
\* No module moves a wheel over the servo bus, not by naming it among joints either.
WheelsAreTheCores == passed \cap Wheel = {}

\* A command or an input is passed on outside its mode only while the event that
\* ended the mode was still on its way to the broker or came in between the
\* check and the publish; before the broker has heard any mode, never.
GateHolds == ~breach /\ (Gated /\ heard = 0 => \A m \in Msg : relayed[m] = 0)

\* A message is passed on at most once, unless it fell into the overlap of two
\* starts of the stream; and not at all when it was sent after stop.
PassedOnce ==
  \A m \in Msg : (relayed[m] <= 1 \/ m \in doubled) /\ (m \in ended => relayed[m] = 0)
=============================================================================
