------------------------------- MODULE Audit -------------------------------
(* The audit trail: events published on a rover's infra.audit, kept twice,  *)
(* in the rover's SQLite store and in the proxy's table, and read back      *)
(* through GET /api/audit. The one event the code emits is the deletion of  *)
(* a rover, on the proxy; the others are whatever the bus carries.          *)
EXTENDS Naturals, Sequences, FiniteSets, SequencesExt

CONSTANTS
  Rover,    \* rovers
  MaxEvents \* bound on events

None == <<>>
Side == {"rover", "proxy"}
Known == {"command", "access", "session_open", "session_close", "image"}

VARIABLES
  emitted, \* the reference: every event there was
  inbox,   \* per side, events on their way to the subscriber
  tab,     \* per side, the rows of audit_events
  rows,    \* the rovers that still have their row in the fleet's table
  hist     \* lost: ids that reached a side and were not stored: failed inserts,
           \* ids that are no uuid, what a restart of the proxy dropped

vars == <<emitted, inbox, tab, rows, hist>>

(* ---- Publisher ----------------------------------------------------------- *)

\* A fresh id, the time and the actor; uuid: the id parses. Time is counted in
\* halves of a second, one for each event.
base(r) == [id |-> Cardinality(emitted), at |-> Cardinality(emitted), rover |-> r, actor |-> <<"admin">>, uuid |-> TRUE]

LogRoverDeleted(r) == [kind |-> "rover_deleted"] @@ base(r)

\* The proxy's event is published in the sessions account: its own subscriber
\* hears it, the rover does not.
publish(e, sides) ==
  /\ emitted' = emitted \cup {e}
  /\ inbox' = [s \in Side |-> IF s \in sides THEN inbox[s] \cup {e} ELSE inbox[s]]

\* newDeleteRoverHandler: the event first, then the row, whose delete may fail.
DeleteRover(r, ok) ==
  /\ r \in rows /\ Cardinality(emitted) < MaxEvents
  /\ publish(LogRoverDeleted(r), {"proxy"})
  /\ rows' = (IF ok THEN rows \ {r} ELSE rows)
  /\ UNCHANGED <<tab, hist>>

\* Some client of the rover's bus publishes an event; with the leaf down the
\* proxy never hears of it. It need not have a proper id, kind or actor.
Emit(r, k, u, a, sides) ==
  /\ Cardinality(emitted) < MaxEvents /\ "rover" \in sides
  /\ publish([id |-> Cardinality(emitted), at |-> Cardinality(emitted), rover |-> r, kind |-> k, actor |-> a, uuid |-> u], sides)
  /\ UNCHANGED <<tab, rows, hist>>

(* ---- Subscribers --------------------------------------------------------- *)

kindAndPayload(s, k) ==
  IF k \in Known \/ (s = "proxy" /\ k = "rover_deleted") THEN k ELSE "unknown"

\* SQLite keeps whole seconds, and an empty actor as NULL.
RoverRow(e) == [id |-> e.id, at |-> e.at \div 2, rover |-> e.rover, actor |-> e.actor, kind |-> kindAndPayload("rover", e.kind)]

\* An actor that is no uuid is logged and left out.
ProxyRow(e) ==
  [id |-> e.id, at |-> e.at, rover |-> e.rover, kind |-> kindAndPayload("proxy", e.kind),
   actor |-> IF e.actor = <<"admin">> THEN e.actor ELSE None]

\* ON CONFLICT (id) DO NOTHING.
Insert(t, row) == IF \E r \in t : r.id = row.id THEN t ELSE t \cup {row}

\* StartLocalSubscriber's callback. again: the message will come once more.
RoverStores(e, ok, again) ==
  /\ e \in inbox["rover"] /\ inbox' = [inbox EXCEPT !["rover"] = IF again THEN @ ELSE @ \ {e}]
  /\ tab' = [tab EXCEPT !["rover"] = IF ok THEN Insert(@, RoverRow(e)) ELSE @]
  /\ hist' = (IF ok THEN hist ELSE [hist EXCEPT !["rover"] = @ \cup {e.id}])
  /\ UNCHANGED <<emitted, rows>>

\* Start's callback: an id that is no uuid is dropped.
ProxyStores(e, ok, again) ==
  LET kept == ok /\ e.uuid IN
  /\ e \in inbox["proxy"] /\ inbox' = [inbox EXCEPT !["proxy"] = IF again THEN @ ELSE @ \ {e}]
  /\ tab' = [tab EXCEPT !["proxy"] = IF kept THEN Insert(@, ProxyRow(e)) ELSE @]
  /\ hist' = (IF kept THEN hist ELSE [hist EXCEPT !["proxy"] = @ \cup {e.id}])
  /\ UNCHANGED <<emitted, rows>>

\* The proxy restarts: what its subscription held is gone.
ProxyDies ==
  /\ inbox["proxy"] # {}
  /\ hist' = [hist EXCEPT !["proxy"] = @ \cup {e.id : e \in inbox["proxy"]}]
  /\ inbox' = [inbox EXCEPT !["proxy"] = {}]
  /\ UNCHANGED <<emitted, tab, rows>>

(* ---- Reading back -------------------------------------------------------- *)

\* ORDER BY occurred_at DESC LIMIT n; rows of one instant in any order, here
\* by id.
Newest(t, n) ==
  LET s == SetToSortSeq(t, LAMBDA a, b : a.at > b.at \/ (a.at = b.at /\ a.id < b.id))
  IN IF Len(s) <= n THEN s ELSE SubSeq(s, 1, n)

\* The two List's: a limit that is not positive means the default.
Default == 3
ListRover(r, since, n) ==
  Newest({x \in tab["rover"] : (r = None \/ <<x.rover>> = r) /\ (since = None \/ x.at >= since[1] \div 2)},
         IF n <= 0 THEN Default ELSE n)
ListProxy(r, since, n) ==
  Newest({x \in tab["proxy"] : (r = None \/ <<x.rover>> = r) /\ (since = None \/ x.at >= since[1])},
         IF n <= 0 THEN Default ELSE n)

\* newAuditListHandler: an admin sees everything, anyone else one rover they
\* have a role on. The empty answer stands for every refusal.
Cap == 2
auditList(admin, roles, r, since, n) ==
  IF ~admin /\ (r = None \/ (r # None /\ r \notin {<<x>> : x \in roles})) THEN <<>>
  ELSE IF n # None /\ n[1] <= 0 THEN <<>>
  ELSE ListProxy(r, since, IF n = None THEN Default ELSE Min({n[1], Cap}))

Init ==
  /\ emitted = {} /\ rows = Rover
  /\ inbox = [s \in Side |-> {}] /\ tab = [s \in Side |-> {}] /\ hist = [s \in Side |-> {}]

Next ==
  \/ ProxyDies
  \/ \E r \in Rover, ok \in BOOLEAN : DeleteRover(r, ok)
  \/ \E r \in Rover, s \in {{"rover"}, Side} :
       Emit(r, "command", TRUE, <<"admin">>, s) \/ Emit(r, "unheard of", FALSE, <<"module">>, s)
  \/ \E ok, again \in BOOLEAN :
       \/ \E e \in inbox["rover"] : RoverStores(e, ok, again)
       \/ \E e \in inbox["proxy"] : ProxyStores(e, ok, again)

Spec == Init /\ [][Next]_vars

(* ---- Properties ---------------------------------------------------------- *)

TypeOK ==
  /\ rows \subseteq Rover /\ Cardinality(emitted) <= MaxEvents
  /\ \A s \in Side : inbox[s] \subseteq emitted /\ hist[s] \subseteq 0 .. MaxEvents

\* Each side has one row for an event, however often it came, and the row says
\* what the event said: its rover and time, its kind where the side knows it,
\* and an actor only if the event had that one. What neither waits nor is
\* stored was lost on the way or in one of the named accidents.
TrailIsTrue ==
  \A s \in Side :
    /\ \A x, y \in tab[s] : x.id = y.id => x = y
    /\ \A x \in tab[s] : \E e \in emitted :
         /\ e.id = x.id /\ e.rover = x.rover /\ x.actor \in {None, e.actor}
         /\ x.at = (IF s = "proxy" THEN e.at ELSE e.at \div 2)
         /\ x.kind = (IF e.kind = "unheard of" THEN "unknown" ELSE e.kind)

\* The deletion of a rover is in the proxy's trail, unless the insert failed
\* or the proxy died with the event in hand.
DeletionIsRecorded ==
  \A r \in Rover \ rows : \E e \in emitted :
    /\ e.rover = r /\ e.kind = "rover_deleted"
    /\ \/ e \in inbox["proxy"] \/ e.id \in hist["proxy"]
       \/ \E x \in tab["proxy"] : x.id = e.id /\ x.kind = "rover_deleted"

\* Nothing is left out of a list that is newer than what is in it.
Complete(out, may) == out \subseteq may /\ \A x \in out, y \in may \ out : x.at >= y.at

\* The answer of GET /api/audit, and the rover's own list: rows of rovers the
\* reader may see only, none older than asked for (to the second on the rover),
\* and the newest of them.
ListIsNewest ==
  \A r \in {None} \cup {<<x>> : x \in Rover}, since \in {None, <<1>>}, n \in 0 .. 1 :
    LET ofRover(t) == {x \in t : r = None \/ <<x.rover>> = r} IN
    /\ Complete(Range(ListRover(r, since, n)), {x \in ofRover(tab["rover"]) : since = None \/ x.at >= 0})
    /\ \A admin \in BOOLEAN, roles \in {{}} \cup {{x} : x \in Rover} :
         Complete(Range(auditList(admin, roles, r, since, IF n = 0 THEN None ELSE <<n>>)),
                  {x \in ofRover(tab["proxy"]) : (admin \/ x.rover \in roles) /\ (since = None \/ x.at >= since[1])})

=============================================================================
