--------------------------------- MODULE Hub ---------------------------------
(***************************************************************************)
(* The proxy's process and the accounts of its NATS hub: what main starts, *)
(* and in which order (proxy/cmd/waypoint-proxy/main.go), the claims the   *)
(* operator mints (proxy/internal/operator), and who hears whom under them *)
(* (natshub).  Fleet has the requests in their parts and at the same time; *)
(* here each is one step, and what the tokens say is looked at.            *)
(*                                                                         *)
(* A subject is a rover and a leaf, or the inbox of a request; a list of   *)
(* patterns is the set of subjects it matches.                             *)
(***************************************************************************)
EXTENDS Naturals, Sequences, FiniteSets, SequencesExt

CONSTANTS
  Rover,
  MaxKey,     \* accounts ever made
  MaxLives,   \* starts of the proxy
  MaxFaults   \* steps of main that fail

VARIABLES
  at,         \* main: the next step, 0 when the process is dead
  up,         \* the parts of the proxy that are up
  rows,       \* the rovers table: the account and the shape of the stored JWT
  store,      \* the resolver of the hub: account claims, by account
  kps,        \* Operator.accountKPs
  ident,      \* the account of a rover's identity file, 0 for none
  conn,       \* the connections: claims of their users
  rpc,        \* Dispatcher.subs: rovers whose responders are there
  hist        \* keys made, lives, faults, rovers whose responders failed

vars == <<at, up, rows, store, kps, ident, conn, rpc, hist>>

Key == 1 .. MaxKey
Sessions == 0   \* the sessions account; its key comes from the operator's seed
NoRow == [key |-> 0, old |-> FALSE, creds |-> FALSE]

Leaf == {"infra", "alert", "cmd", "mode", "rpc", "ice_servers", "basemap_tile", "modules"}
Under(r) == {<<r, l>> : l \in Leaf}
Waypoint == UNION {Under(r) : r \in Rover}
Inbox == {<<"_INBOX", "reply">>}

-----------------------------------------------------------------------------
(* The claims. *)

Account(k, allow, exports, imports) ==
  [key |-> k, pub |-> allow, sub |-> allow, exports |-> exports, imports |-> imports,
   revoked |-> FALSE]
NoAccount == [Account(0, {}, {}, {}) EXCEPT !.revoked = TRUE]

MintSessionAccountJWT(imports) == Account(Sessions, Waypoint, {}, imports)

encodeAccountJWT(r, k) == Account(k, Under(r) \cup Inbox, Under(r), {})

MintAccountJWT(r, k) == encodeAccountJWT(r, k)

\* From the stored seed, with the claims of today.
RestoreAccountJWT(r, k) == encodeAccountJWT(r, k)

\* What was minted before there were exports and inboxes.
Former(r, k) == Account(k, Under(r), {}, {})

MintRevokedAccountJWT(k) == [Account(k, {}, {}, {}) EXCEPT !.revoked = TRUE]

User(who, r, k, pub, sub) == [who |-> who, rover |-> r, account |-> k, pub |-> pub, sub |-> sub]

\* No lists of its own: the user of a rover has what its account allows.
MintRoverUserJWT(r, k) == User("rover", r, k, {}, {})
MintRoverInternalUserJWT(r, k) == User("pool", r, k, Under(r) \cup Inbox, Under(r) \cup Inbox)
MintInternalUserJWT == User("internal", "-", Sessions, Waypoint \cup Inbox, Waypoint \cup Inbox)
MintSessionUserJWT(r) ==
  User("session", r, Sessions, {<<r, "cmd">>, <<r, "mode">>}, Under(r))

-----------------------------------------------------------------------------
(* How the server reads them (external). *)

Accepts(u) == ~store[u.account].revoked
MayPublish(u, s) == s \in IF u.pub = {} THEN store[u.account].pub ELSE u.pub
MaySubscribe(u, s) == s \in IF u.sub = {} THEN store[u.account].sub ELSE u.sub

\* In its own account, and in the one that imports what the account exports.
Hears(v, u, s) ==
  /\ MayPublish(u, s) /\ MaySubscribe(v, s)
  /\ \/ v.account = u.account
     \/ s \in store[u.account].exports
        /\ \E i \in store[v.account].imports : i.key = u.account /\ s \in Under(i.rover)

-----------------------------------------------------------------------------
(* The steps of main. *)

Part(n, f) == [name |-> n, fails |-> f]

Load == Part("config", "exit")
LoadFromSeed == Part("operator", "exit")
NewPool == Part("database", "exit")
Migrate == Part("tables", "exit")
Start == Part("hub", "exit")

\* Last the account of the sessions, without imports.
Base == <<Load, LoadFromSeed, NewPool, Migrate, Start, Part("sessions", "exit")>>

\* The accounts, the proxy's own connection, and its subscribers.
Subscribers ==
  <<Part("restore", "exit"), Part("internal", "exit"), Part("relay", "exit"),
    Part("heartbeat", "exit"), Part("audit", "exit"), Part("alerts", "exit")>>

\* A basemap that cannot be opened is left out; the other responders are not.
Responders == <<Part("basemap", "warn"), Part("rpc", "exit")>>

\* The routes of the leaf and of the API, and the URL a rover is given.
LeafRoute == <<Part("leaf url", "exit")>>

\* The module registry: its storage, the key of its secrets.
Registry == <<Part("blobs", "exit"), Part("token key", "exit")>>

Serve == <<Part("http", "exit")>>

\* Variant: the HTTP server comes up with the hub.
MainServesEarly == Base \o Serve \o Subscribers \o Responders \o LeafRoute \o Registry

\* A rover reaches the hub by the HTTP server, which comes last.
Main == Base \o Subscribers \o Responders \o LeafRoute \o Registry \o Serve

-----------------------------------------------------------------------------
Init ==
  /\ at = 1 /\ up = {} /\ kps = {} /\ conn = {} /\ rpc = {}
  /\ store = [k \in Key \cup {Sessions} |-> NoAccount]
  /\ \E r \in Rover : \E old, creds \in BOOLEAN :
       /\ rows = [q \in Rover |-> IF q = r THEN [key |-> 1, old |-> old, creds |-> creds] ELSE NoRow]
       /\ ident = [q \in Rover |-> IF q = r THEN 1 ELSE 0]
  /\ hist = [keys |-> 1, lives |-> 1, faults |-> 0, deaf |-> {}]

Enrolled == {r \in Rover : rows[r].key # 0}
Restorable == {r \in Enrolled : rows[r].creds}

\* RefreshSessionsAccount: every row, whether its account could be restored or not.
Imports(t) == {[rover |-> r, key |-> t[r].key] : r \in {q \in Rover : t[q].key # 0}}

\* restoreRoverAccounts: the claims are minted again, from the stored seed.
restoreRoverAccounts ==
  /\ store' = [k \in DOMAIN store |->
       IF k = Sessions THEN MintSessionAccountJWT(Imports(rows))
       ELSE IF \E r \in Restorable : rows[r].key = k
         THEN RestoreAccountJWT(CHOOSE r \in Restorable : rows[r].key = k, k) ELSE store[k]]
  /\ kps' = {rows[r].key : r \in Restorable}

\* Ensure: credentials need the cached key, the connection an account; a rover for
\* which it fails is skipped.
CanEnsure(r) == rows[r].key \in kps
EnsureAll(broken) ==
  LET S == {r \in Enrolled \ broken : CanEnsure(r)} IN
  /\ rpc' = S /\ conn' = conn \cup {MintRoverInternalUserJWT(r, rows[r].key) : r \in S}
  /\ hist' = [hist EXCEPT !.deaf = Enrolled \ S]

Starts(s, broken) ==
  /\ at' = at + 1 /\ up' = up \cup {s.name}
  /\ CASE s.name = "sessions" ->
            /\ store' = [store EXCEPT ![Sessions] = MintSessionAccountJWT({})]
            /\ UNCHANGED <<kps, conn, rpc, hist>>
       [] s.name = "restore" -> restoreRoverAccounts /\ UNCHANGED <<conn, rpc, hist>>
       [] s.name = "internal" ->
            conn' = conn \cup {MintInternalUserJWT} /\ UNCHANGED <<store, kps, rpc, hist>>
       [] s.name = "rpc" -> EnsureAll(broken) /\ UNCHANGED <<store, kps>>
       [] OTHER -> UNCHANGED <<store, kps, conn, rpc, hist>>
  /\ UNCHANGED <<rows, ident>>

\* The process is gone, and with it the hub and every connection.
Gone(faults) ==
  /\ at' = 0 /\ up' = {} /\ kps' = {} /\ conn' = {} /\ rpc' = {}
  /\ store' = [k \in DOMAIN store |-> NoAccount]
  /\ hist' = [hist EXCEPT !.faults = faults, !.deaf = {}]
  /\ UNCHANGED <<rows, ident>>

Fails(s) ==
  /\ hist.faults < MaxFaults
  /\ \/ s.fails = "exit" /\ Gone(hist.faults + 1)
     \/ /\ s.fails = "warn" /\ at' = at + 1 /\ hist' = [hist EXCEPT !.faults = @ + 1]
        /\ UNCHANGED <<up, rows, store, kps, ident, conn, rpc>>

StartStep ==
  /\ at \in 1 .. Len(Main)
  /\ Fails(Main[at]) \/ \E broken \in SUBSET Rover : Starts(Main[at], broken)

Dies == at # 0 /\ hist.lives < MaxLives /\ Gone(hist.faults)
Restart ==
  /\ at = 0 /\ hist.lives < MaxLives /\ at' = 1 /\ hist' = [hist EXCEPT !.lives = @ + 1]
  /\ UNCHANGED <<up, rows, store, kps, ident, conn, rpc>>

-----------------------------------------------------------------------------
(* Requests and rovers. *)

\* RegisterAccount: new claims count for the connections there are.
RegisterAccounts(a, t) ==
  store' = [store EXCEPT ![a.key] = a, ![Sessions] = MintSessionAccountJWT(Imports(t))]

\* newEnrollHandler; the responders may fail.
Enroll(r, ok) ==
  LET k == hist.keys + 1
      t == [rows EXCEPT ![r] = [key |-> k, old |-> FALSE, creds |-> TRUE]]
  IN
  /\ "http" \in up /\ rows[r] = NoRow /\ k \in Key
  /\ RegisterAccounts(MintAccountJWT(r, k), t) /\ kps' = kps \cup {k} /\ rows' = t
  /\ ident' = [ident EXCEPT ![r] = k]
  /\ IF ok THEN rpc' = rpc \cup {r} /\ conn' = conn \cup {MintRoverInternalUserJWT(r, k)}
     ELSE UNCHANGED <<rpc, conn>>
  /\ hist' = [hist EXCEPT !.keys = k, !.deaf = IF ok THEN @ ELSE @ \cup {r}]
  /\ UNCHANGED <<at, up>>

\* newDeleteRoverHandler, RevokeAccount: the clients of the account are dropped.
Delete(r) ==
  LET k == rows[r].key IN
  /\ "http" \in up /\ rows[r] # NoRow
  /\ store' = [store EXCEPT ![k] = MintRevokedAccountJWT(k)] /\ kps' = kps \ {k}
  /\ conn' = {u \in conn : u.account # k} /\ rows' = [rows EXCEPT ![r] = NoRow]
  /\ rpc' = rpc \ {r} /\ hist' = [hist EXCEPT !.deaf = @ \ {r}]
  /\ UNCHANGED <<at, up, ident>>

\* The pool connects when a connection is first asked for.
PoolConnects(r) ==
  /\ "http" \in up /\ rows[r] # NoRow /\ CanEnsure(r)
  /\ conn' = conn \cup {MintRoverInternalUserJWT(r, rows[r].key)}
  /\ UNCHANGED <<at, up, rows, store, kps, ident, rpc, hist>>

Connects(u) ==
  /\ "http" \in up /\ Accepts(u) /\ conn' = conn \cup {u}
  /\ UNCHANGED <<at, up, rows, store, kps, ident, rpc, hist>>
LeafConnects(r) == ident[r] # 0 /\ Connects(MintRoverUserJWT(r, ident[r]))
SessionConnects(r) == rows[r] # NoRow /\ Connects(MintSessionUserJWT(r))

Disconnects(u) ==
  /\ u.who \in {"rover", "session"} /\ conn' = conn \ {u}
  /\ UNCHANGED <<at, up, rows, store, kps, ident, rpc, hist>>

Next ==
  \/ StartStep \/ Dies \/ Restart
  \/ \E r \in Rover :
       \/ Delete(r) \/ PoolConnects(r) \/ LeafConnects(r) \/ SessionConnects(r)
       \/ \E ok \in BOOLEAN : Enroll(r, ok)
  \/ \E u \in conn : Disconnects(u)

Spec == Init /\ [][Next]_vars

-----------------------------------------------------------------------------
TypeOK ==
  /\ at \in 0 .. Len(Main) + 1 /\ up \subseteq {s.name : s \in Range(Main)}
  /\ kps \subseteq Key /\ rpc \subseteq Rover /\ ident \in [Rover -> 0 .. MaxKey]
  /\ \A k \in DOMAIN store : store[k].key \in {0, k}

Of(who) == {u \in conn : u.who = who}

\* A rover that is connected is heard: by then the heartbeat consumer, the audit
\* subscriber, the mirror of the alerts and the relay are there, and the claims let
\* its messages through to the sessions account, whatever code enrolled it (the order
\* of main, restoreRoverAccounts, RefreshSessionsAccount).
RoversAreHeard ==
  \A u \in Of("rover") :
    /\ {"relay", "heartbeat", "audit", "alerts"} \subseteq up
    /\ \A l \in {"infra", "alert"} : \E v \in Of("internal") : Hears(v, u, <<u.rover, l>>)

\* A command of a session with control gets to its rover over the relay and the
\* connection in the rover's account; a request of the proxy gets there, and the
\* answer comes back (MintRoverInternalUserJWT, encodeAccountJWT).
CommandsGetThrough ==
  \A u \in Of("rover"), v \in Of("pool") : u.account = v.account =>
    /\ \A s \in Of("session") : s.rover = u.rover =>
         \E i \in Of("internal") : Hears(i, s, <<u.rover, "cmd">>)
    /\ Hears(u, v, <<u.rover, "cmd">>) /\ Hears(u, v, <<u.rover, "rpc">>)
    /\ \A m \in Inbox : Hears(v, u, m)

\* A request of a rover is answered by the responders in its account, unless they
\* could not be started, with or without a basemap (roverrpc.Ensure, EnsureAll).
RequestsAreAnswered ==
  \A u \in Of("rover") : u.rover \notin hist.deaf =>
    \E v \in Of("pool") :
      /\ Hears(v, u, <<u.rover, "ice_servers">>) /\ \A m \in Inbox : Hears(u, v, m)
      /\ v.rover \in rpc

\* What a rover or the proxy publishes in one rover's account is heard by no other
\* rover, and what a session publishes by no rover without the relay
\* (encodeAccountJWT: the account is the rover's own).
AccountsAreApart ==
  \A u, v \in conn : v.who = "rover" /\ (u.rover # v.rover \/ u.account = Sessions) =>
    \A s \in Waypoint : ~Hears(v, u, s)
=============================================================================
