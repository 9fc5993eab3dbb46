-------------------------------- MODULE SignIn --------------------------------
(***************************************************************************)
(* Signing in at the proxy: Login, Callback and Logout of authkit, with    *)
(* the users table of db/users.go.  A person has one browser, whose        *)
(* sign-ins at the identity provider (external) may overlap.               *)
(***************************************************************************)
EXTENDS Naturals, FiniteSets

CONSTANTS
  Person,
  MaxLogins,  \* sign-ins started
  MaxRestarts \* restarts of the proxy

VARIABLES
  users,      \* the users table
  signing,    \* UpsertFromWorkOS: what the open transaction counted
  state,      \* the state cookie of each browser
  away,       \* sign-ins at the provider: a browser and a state
  logins,
  cookie,     \* browsers with a session cookie
  restarts,
  accepted,   \* history: the last state of each browser that was accepted
  late,       \* history: one was accepted after a younger one
  raced       \* history: two first sign-ins overlapped

vars == <<users, signing, state, away, logins, cookie, restarts, accepted, late, raced>>

No == "none"

TypeOK ==
  /\ users \in [Person -> {No, "user", "admin"}] /\ signing \in [Person -> {No, "first", "later"}]
  /\ state \in [Person -> 0 .. logins] /\ away \subseteq Person \X (1 .. logins)
  /\ cookie \subseteq Person /\ raced \in BOOLEAN

Init ==
  /\ users = [p \in Person |-> No] /\ signing = [p \in Person |-> No]
  /\ state = [p \in Person |-> 0] /\ away = {} /\ logins = 0 /\ cookie = {} /\ restarts = 0
  /\ accepted = [p \in Person |-> 0] /\ late = FALSE /\ raced = FALSE

\* StateCodec: the cookie a sign-in leaves in the browser, over an older one; 0 clears it.
SetState(p, s) == state' = [state EXCEPT ![p] = s]
StateMatches(p, s) == s = state[p]

\* Login: a fresh state in the browser's cookie and in the address of the provider.
Login(p) ==
  /\ logins < MaxLogins /\ logins' = logins + 1
  /\ SetState(p, logins') /\ away' = away \cup {<<p, logins'>>}
  /\ UNCHANGED <<users, signing, cookie, restarts, accepted, late, raced>>

\* Session.Set, and the state is cleared.
SignedIn(p) == cookie' = cookie \cup {p} /\ SetState(p, 0)

\* Callback, for the state in the cookie: UpsertFromWorkOS finds the user, or
\* counts the users it sees.
Callback(p, s) ==
  /\ <<p, s>> \in away /\ StateMatches(p, s) /\ signing[p] = No /\ away' = away \ {<<p, s>>}
  /\ accepted' = [accepted EXCEPT ![p] = s] /\ late' = (late \/ s <= accepted[p])
  /\ signing' = [signing EXCEPT ![p] =
                   IF users[p] # No THEN No
                   ELSE IF \A q \in Person : users[q] = No THEN "first" ELSE "later"]
  /\ IF users[p] # No THEN SignedIn(p) ELSE UNCHANGED <<cookie, state>>
  /\ UNCHANGED <<users, logins, restarts, raced>>

\* Another state, or the provider refuses.
CallbackRefused(p, s) ==
  /\ <<p, s>> \in away /\ away' = away \ {<<p, s>>}
  /\ UNCHANGED <<users, signing, state, logins, cookie, restarts, accepted, late, raced>>

\* The insert and its commit.
Insert(p) ==
  /\ signing[p] # No /\ signing' = [signing EXCEPT ![p] = No]
  /\ users' = [users EXCEPT ![p] = IF signing[p] = "first" THEN "admin" ELSE "user"]
  /\ raced' = (raced \/ (signing[p] = "first" /\ \E q \in Person : users[q] # No))
  /\ SignedIn(p)
  /\ UNCHANGED <<away, logins, restarts, accepted, late>>

\* The transaction is rolled back.
InsertFails(p) ==
  /\ signing[p] # No /\ signing' = [signing EXCEPT ![p] = No]
  /\ UNCHANGED <<users, state, away, logins, cookie, restarts, accepted, late, raced>>

Logout(p) ==
  /\ p \in cookie /\ cookie' = cookie \ {p}
  /\ UNCHANGED <<users, signing, state, away, logins, restarts, accepted, late, raced>>

\* Open transactions end with the proxy; cookies are sealed with a configured key.
Restart ==
  /\ restarts < MaxRestarts /\ restarts' = restarts + 1
  /\ signing' = [p \in Person |-> No]
  /\ UNCHANGED <<users, state, away, logins, cookie, accepted, late, raced>>

\* SPAGate lets a page load pass by its cookie; RequireUser reads the table as well,
\* at every request, and RequireAdmin the flag in it.
HasSession(p) == p \in cookie
RequireUser(p) == HasSession(p) /\ users[p] # No
RequireAdmin(p) == RequireUser(p) /\ users[p] = "admin"

Next ==
  \/ \E p \in Person :
       \/ Login(p) \/ Insert(p) \/ InsertFails(p) \/ Logout(p)
       \/ \E s \in 1 .. MaxLogins : Callback(p, s) \/ CallbackRefused(p, s)
  \/ Restart

Spec == Init /\ [][Next]_vars

-----------------------------------------------------------------------------
\* The first person to sign in runs the fleet (UpsertFromWorkOS): there is never a
\* user and no admin, whatever failed or restarted, and one person only who passes
\* RequireAdmin, unless two first sign-ins overlapped, each counting before the
\* other's commit.
OneAdmin ==
  LET admins == {p \in Person : users[p] = "admin"} IN
  /\ (\E p \in Person : users[p] # No) => admins # {}
  /\ raced \/ Cardinality({p \in admins : RequireAdmin(p)}) <= 1

\* Who is given the dashboard is served by the API (SPAGate, RequireUser): a cookie
\* is never ahead of the table.
CookieIsKnown == \A p \in Person : HasSession(p) => RequireUser(p)

\* Callbacks are accepted in the order of the sign-ins, each one once: an older tab
\* that comes back from the provider late is refused (Callback compares the state
\* with the cookie, which Login overwrites).
AcceptedInOrder == ~late
===============================================================================
