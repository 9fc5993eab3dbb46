----------------------------- MODULE LocalSession -----------------------------
(***************************************************************************)
(* How a browser gets into a rover's own dashboard: the local sessions of  *)
(* the agent (agent/internal/gateway/ws.go and session_store.go) and the   *)
(* proxy's magic links (proxy/internal/api/magiclink.go,                   *)
(* magiclink/sign.go).  A browser is on the rover's network or not.        *)
(***************************************************************************)
EXTENDS Naturals

CONSTANTS
  Browser,
  LinkTTL,    \* a magic link: 5 minutes
  SessionTTL, \* localSessionCookieTTL: a week
  MaxClock,
  MaxTokens,  \* sessions issued
  MaxBoots    \* starts of the agent

VARIABLES
  clock,
  near,       \* browsers on the rover's network
  role,       \* browsers whose user has a role on the rover, by the proxy's tables
  link,       \* the magic link a browser holds: when it ends
  store,      \* sessionStore.m: tokens and when they end
  cookie,     \* wp_local_token of each browser, with its end and the start it is from
  tokens,
  boots,
  lost,       \* history: since when a browser's user has had no role
  late        \* history: a link was used more than LinkTTL after the role ended

proxy == <<role, link, lost>>
sessions == <<store, cookie, tokens>>
vars == <<clock, near, proxy, sessions, boots, late>>

Empty == [t \in {} |-> 0]

TypeOK ==
  /\ near \subseteq Browser /\ role \subseteq Browser /\ DOMAIN store \subseteq 1 .. tokens
  /\ late \in BOOLEAN /\ \A b \in Browser : cookie[b].token <= tokens

Init ==
  /\ clock = 1 /\ near \in SUBSET Browser /\ role \in SUBSET Browser
  /\ link = [b \in Browser |-> 0] /\ store = Empty
  /\ cookie = [b \in Browser |-> [token |-> 0, end |-> 0, boot |-> 0]]
  /\ tokens = 0 /\ boots = 1
  /\ lost = [b \in Browser |-> IF b \in role THEN 0 ELSE 1] /\ late = FALSE

-----------------------------------------------------------------------------
(* sessionStore. *)

\* valid: known and not over.
Valid(t) == t \in DOMAIN store /\ clock <= store[t]

\* pruneLocked.
Pruned == {t \in DOMAIN store : clock <= store[t]}

SetSessionCookie(b, t) ==
  cookie' = [cookie EXCEPT ![b] = [token |-> t, end |-> clock + SessionTTL, boot |-> boots]]

\* issue, and the token goes to the browser.
Issue(b) ==
  /\ tokens < MaxTokens /\ tokens' = tokens + 1
  /\ store' = [t \in Pruned \cup {tokens'} |-> IF t = tokens' THEN clock + SessionTTL ELSE store[t]]
  /\ SetSessionCookie(b, tokens')

-----------------------------------------------------------------------------
(* Getting in. *)

\* Mint and Verify: a signed link says when it ends.
Mint == clock + LinkTTL
Verify(b) == link[b] # 0 /\ clock <= link[b]

\* newMagicLinkHandler: for a user with a role.
MagicLink(b) ==
  /\ b \in role /\ link' = [link EXCEPT ![b] = Mint]
  /\ UNCHANGED <<clock, near, role, lost, sessions, boots, late>>

HandleLogin(b) ==
  /\ Verify(b) /\ Issue(b)
  /\ late' = (late \/ (lost[b] # 0 /\ clock > lost[b] + LinkTTL))
  /\ UNCHANGED <<clock, near, proxy, boots>>

\* isLocalHost, isLocalAddr and isLocalIP: both ends of the connection are local.
IsLocal(b) == b \in near

ShouldIssueSession(b) == IsLocal(b) /\ ~Valid(cookie[b].token)

\* A page load from the rover's network without a valid session.
WithLocalSession(b) ==
  /\ ShouldIssueSession(b) /\ Issue(b)
  /\ UNCHANGED <<clock, near, proxy, boots, late>>

\* localAuthorized, by the cookie.
LocalAuthorized(b) == IsLocal(b) /\ Valid(cookie[b].token)

\* A credential or a socket is refused (handleNatsCred, handleWS): the session that
\* is over is forgotten.
LocalRefused(b) ==
  /\ IsLocal(b) /\ ~LocalAuthorized(b) /\ cookie[b].token \in DOMAIN store
  /\ store' = [t \in DOMAIN store \ {cookie[b].token} |-> store[t]]
  /\ UNCHANGED <<clock, near, proxy, cookie, tokens, boots, late>>

-----------------------------------------------------------------------------
RoleEnds(b) ==
  /\ b \in role /\ role' = role \ {b} /\ lost' = [lost EXCEPT ![b] = clock]
  /\ UNCHANGED <<clock, near, link, sessions, boots, late>>

\* The agent starts again, without sessions.
Restart ==
  /\ boots < MaxBoots /\ boots' = boots + 1 /\ store' = Empty
  /\ UNCHANGED <<clock, near, proxy, cookie, tokens, late>>

Tick ==
  /\ clock < MaxClock /\ clock' = clock + 1
  /\ UNCHANGED <<near, proxy, sessions, boots, late>>

Next ==
  \/ \E b \in Browser :
       \/ MagicLink(b) \/ HandleLogin(b) \/ WithLocalSession(b) \/ LocalRefused(b) \/ RoleEnds(b)
  \/ Restart \/ Tick

Spec == Init /\ [][Next]_vars

-----------------------------------------------------------------------------
\* A link lets in nobody whose role ended more than LinkTTL ago (newMagicLinkHandler
\* looks at the role, Verify at the end).
LinksEnd == ~late

\* A browser that was let in stays in until its session is over, whoever else comes,
\* goes or is pruned; only a restart of the agent ends it sooner (sessionStore).
StaysIn ==
  \A b \in Browser :
    cookie[b].boot = boots /\ clock <= cookie[b].end => Valid(cookie[b].token)
===============================================================================
