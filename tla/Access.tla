-------------------------------- MODULE Access --------------------------------
(***************************************************************************)
(* What a dashboard may do on the rovers: grants (api/access.go,           *)
(* db/access.go) and the session JWTs its socket runs under                *)
(* (operator.MintSessionUserJWT, authkit/natscred.go, gateway/ws.go).      *)
(*                                                                         *)
(* Rights are read from the tables when a credential is made and live in   *)
(* it until it ends.  The people have signed in (SignIn); the clock counts *)
(* fractions of SessionJWTTTL.                                             *)
(***************************************************************************)
EXTENDS Naturals

CONSTANTS
  Admin,      \* users with is_admin
  User,       \* the others
  Rover,
  JwtTTL,     \* SessionJWTTTL: an hour
  MaxClock,
  MaxEdits    \* grants, revocations, enrolments, deletions and restarts

Person == Admin \cup User

VARIABLES
  clock,
  enrolled,   \* the rovers table
  grant,      \* user_rover_access
  sock,       \* the socket of each person: the accesses of its JWT, and its end
  edits,
  lost        \* history: since when a socket has had a right its person does not

vars == <<clock, enrolled, grant, sock, edits, lost>>

No == "none"
Role == {"monitor", "control", "admin"}
Nowhere == [r \in Rover |-> No]
Shut == [may |-> Nowhere, exp |-> 0]

TypeOK ==
  /\ enrolled \subseteq Rover /\ grant \in [Person -> [Rover -> Role \cup {No}]]
  /\ \A p \in Person : sock[p].may \in [Rover -> Role \cup {No}]
  /\ \A p \in Person, r \in Rover \ enrolled : grant[p][r] = No

Init ==
  /\ clock = 1 /\ enrolled = Rover /\ grant = [p \in Person |-> Nowhere]
  /\ sock = [p \in Person |-> Shut] /\ edits = 0
  /\ lost = [p \in Person |-> [r \in Rover |-> 0]]

Edits == edits < MaxEdits /\ edits' = edits + 1

-----------------------------------------------------------------------------
(* The tables. *)

\* newEnrollHandler and newDeleteRoverHandler; grants go with the rover's row.
Enroll(r) ==
  /\ Edits /\ r \notin enrolled /\ enrolled' = enrolled \cup {r}
  /\ UNCHANGED <<clock, grant, sock>>

Delete(r) ==
  /\ Edits /\ r \in enrolled /\ enrolled' = enrolled \ {r}
  /\ grant' = [p \in Person |-> [grant[p] EXCEPT ![r] = No]]
  /\ UNCHANGED <<clock, sock>>

\* AccessRepo: an upsert, whose row needs its rover, or a delete.
SetRow(p, r, role) ==
  /\ role # No => r \in enrolled
  /\ grant' = [grant EXCEPT ![p][r] = role]

\* newGrantHandler and newRevokeHandler.
Grant(p, r, role) == Edits /\ SetRow(p, r, role) /\ UNCHANGED <<clock, enrolled, sock>>

Revoke(p, r) == Edits /\ grant[p][r] # No /\ SetRow(p, r, No) /\ UNCHANGED <<clock, enrolled, sock>>

EffectiveRole(p, r) == IF p \in Admin THEN "admin" ELSE grant[p][r]

\* The accesses of a session: every rover for an admin, ListForUser for others.
\* newListHandler shows a person the same rovers.
SessionAccess(p) == [r \in Rover |-> IF r \in enrolled THEN EffectiveRole(p, r) ELSE No]

-----------------------------------------------------------------------------
(* The dashboard's socket. *)

Control == {"cmd", "control rpc", "module"}
Subject == (Rover \X (Control \cup {"rpc", "telemetry"})) \cup {<<"inbox">>}

\* What each role adds to Pub.Allow.
PubAllow(r, role) ==
  CASE role = "control" -> {r} \X Control
    [] role = "admin" -> ({r} \X (Control \cup {"rpc"})) \cup {<<"inbox">>}
    [] OTHER -> {}

\* MintSessionUserJWT: the lists of all accesses; nothing to publish is Deny ">".
MintSessionUserJWT(sa) ==
  LET allow == UNION {PubAllow(r, sa[r]) : r \in Rover} IN
  [allow |-> allow, deny |-> allow = {}]

\* The hub (external): lists that are both empty mean the account's default.
MayPublish(jwt, subject) == ~jwt.deny /\ (jwt.allow = {} \/ subject \in jwt.allow)

\* NatsCred: a JWT of this moment's accesses.
Credential(p) == [may |-> SessionAccess(p), exp |-> clock + JwtTTL]

\* Variant: the end of the old credential is moved, its accesses stay.
HandleExtends(p) ==
  /\ sock' = [sock EXCEPT ![p] =
       [may |-> IF sock[p] = Shut THEN SessionAccess(p) ELSE sock[p].may, exp |-> clock + JwtTTL]]
  /\ UNCHANGED <<clock, enrolled, grant, edits>>

\* Handle: a new credential, and a new connection under it.
Handle(p) ==
  /\ sock' = [sock EXCEPT ![p] = Credential(p)]
  /\ UNCHANGED <<clock, enrolled, grant, edits>>

\* The socket closes; with the proxy all of them do.
Disconnect(ps) ==
  /\ \E p \in ps : sock[p] # Shut
  /\ sock' = [p \in Person |-> IF p \in ps THEN Shut ELSE sock[p]]
  /\ UNCHANGED <<clock, enrolled, grant, edits>>

\* The hub drops a connection whose JWT is over (external).
Tick ==
  /\ clock < MaxClock /\ clock' = clock + 1
  /\ sock' = [p \in Person |-> IF sock[p].exp < clock' THEN Shut ELSE sock[p]]
  /\ UNCHANGED <<enrolled, grant, edits>>

Step ==
  \/ \E p \in Person : Handle(p) \/ \E r \in Rover : Revoke(p, r) \/ \E x \in Role : Grant(p, r, x)
  \/ \E r \in Rover : Enroll(r) \/ Delete(r)
  \/ \E ps \in {{p} : p \in Person} \cup {Person} : Disconnect(ps)
  \/ Tick

Remember ==
  lost' = [p \in Person |-> [r \in Rover |->
             IF sock'[p].may[r] \in {No, SessionAccess(p)'[r]} THEN 0
             ELSE IF lost[p][r] # 0 THEN lost[p][r] ELSE clock']]

Next == Step /\ Remember

Spec == Init /\ [][Next]_vars

-----------------------------------------------------------------------------
\* A right ends at most SessionJWTTTL after it was taken away: what a live socket
\* may do on a rover its user could do, by the tables, within that time (Handle),
\* although a revocation, a deletion and a new rover under the old id leave the
\* socket alone.
RightsEnd == \A p \in Person, r \in Rover : lost[p][r] # 0 => clock - lost[p][r] <= JwtTTL

\* A socket publishes where its roles say and nowhere else, however they are
\* combined: without a role, or as a monitor, nowhere; control reaches no RPC but
\* the three of its list; nobody publishes telemetry (MintSessionUserJWT).
PublishesByRole ==
  \A p \in Person, s \in Subject :
    sock[p] # Shut /\ MayPublish(MintSessionUserJWT(sock[p].may), s) =>
      IF s = <<"inbox">> THEN \E r \in Rover : sock[p].may[r] = "admin"
      ELSE \/ s[2] \in Control /\ sock[p].may[s[1]] \in {"control", "admin"}
           \/ s[2] = "rpc" /\ sock[p].may[s[1]] = "admin"
===============================================================================
