-------------------------------- MODULE Fleet --------------------------------
(***************************************************************************)
(* The rovers of a proxy: enrolment and deletion (proxy/internal/api), the *)
(* NATS accounts behind them (operator, natshub), the proxy's own          *)
(* connection and RPC responders in each rover's account (roverconn,       *)
(* roverrpc), the command relay (cmdrelay), and the restore at start-up.   *)
(*                                                                         *)
(* Every enrolment makes a new account, named by a number.  The rovers     *)
(* table outlives the proxy; the hub's resolver, the operator's key cache, *)
(* the connections and the responders do not.  Requests are goroutines and *)
(* each call that changes something is a step; deletion is by rover id,    *)
(* revocation by account.                                                  *)
(***************************************************************************)
EXTENDS Naturals, FiniteSets

CONSTANTS
  Rover,      \* rover ids
  Handler,    \* requests served at the same time
  MaxAcc,     \* enrolments started
  MaxOps      \* deletions, restarts of the proxy and operators' commands

ASSUME FleetAssumption == MaxAcc \in Nat /\ MaxOps \in Nat /\ "-" \notin Rover

Acc == 1 .. MaxAcc
No == 0
Free == [op |-> "free", pc |-> "done", rover |-> "-", acc |-> No, list |-> {},
         stale |-> FALSE]

VARIABLES
  row,        \* the rovers table: the account of each rover
  resolver,   \* the hub: what it has stored for an account
  keys,       \* Operator.accountKPs
  imports,    \* accounts the registered sessions JWT imports
  issued,     \* accounts an identity file was handed out for
  leaf,       \* accounts with a rover connected
  pool,       \* roverconn.Pool: the account of the cached connection
  subs,       \* roverrpc.Dispatcher.subs: the account the responders are in
  h,          \* the requests
  firehose,   \* commands in the sessions account: a rover, and relayed or not
  sent, arrived,
  nextAcc, ops,
  gone,       \* history: accounts whose deletion was answered with success
  crossed,    \* history: requests about the rover overlapped since the proxy started
  failed,     \* history: a request about the rover failed, or its responders did
  raced,      \* history: a row was added between the last refresh and its list
  stray       \* history: a command reached an account that is not its rover's

memory == <<resolver, keys, imports, leaf, pool, subs>>
commands == <<firehose, sent, arrived, stray>>
history == <<gone, crossed, failed, raced>>
vars == <<row, memory, issued, h, commands, nextAcc, ops, history>>

TypeOK ==
  /\ row \in [Rover -> Acc \cup {No}]
  /\ resolver \in [Acc -> {"none", "valid", "revoked"}]
  /\ keys \subseteq Acc /\ imports \subseteq Acc /\ issued \subseteq Acc /\ leaf \subseteq issued
  /\ pool \in [Rover -> Acc \cup {No}] /\ subs \in [Rover -> Acc \cup {No}]
  /\ firehose \subseteq Rover \X BOOLEAN
  /\ gone \subseteq Acc /\ raced \in BOOLEAN /\ stray \in BOOLEAN
  /\ crossed \in [Rover -> BOOLEAN] /\ failed \in [Rover -> BOOLEAN]

Init ==
  /\ row = [r \in Rover |-> No]
  /\ resolver = [n \in Acc |-> "none"] /\ keys = {} /\ imports = {} /\ issued = {} /\ leaf = {}
  /\ pool = [r \in Rover |-> No] /\ subs = [r \in Rover |-> No]
  /\ h = [i \in Handler |-> Free]
  /\ firehose = {} /\ sent = 0 /\ arrived = 0 /\ stray = FALSE
  /\ nextAcc = 1 /\ ops = 0
  /\ gone = {} /\ raced = FALSE
  /\ crossed = [r \in Rover |-> FALSE] /\ failed = [r \in Rover |-> FALSE]

Occurs == ops < MaxOps /\ ops' = ops + 1
Rows == {row[r] : r \in Rover} \ {No}
Goes(i, next) == h' = [h EXCEPT ![i] = next]
Step(i, pc) == Goes(i, [h[i] EXCEPT !.pc = pc])
\* A request about r begins, perhaps while another one is running.
Begins(i, r) ==
  crossed' = [crossed EXCEPT ![r] = @ \/ \E j \in Handler \ {i} : h[j].rover = r]

-----------------------------------------------------------------------------
(* newEnrollHandler. *)

\* MintAccountJWT, MintRoverUserJWT and RegisterAccount: before any row exists.
Enroll(i, r) ==
  /\ h[i] = Free /\ nextAcc <= MaxAcc /\ nextAcc' = nextAcc + 1
  /\ keys' = keys \cup {nextAcc}
  /\ resolver' = [resolver EXCEPT ![nextAcc] = "valid"]
  /\ Goes(i, [Free EXCEPT !.op = "enroll", !.pc = "create", !.rover = r, !.acc = nextAcc])
  /\ Begins(i, r)
  /\ UNCHANGED <<row, imports, issued, leaf, pool, subs, commands, ops, gone, failed, raced>>

\* RoversRepo.Create: an id that is taken ends the request; the account stays.
Create(i) ==
  LET r == h[i].rover IN
  /\ h[i].pc = "create"
  /\ IF row[r] # No THEN Goes(i, Free) /\ UNCHANGED <<row, failed>>
     ELSE /\ row' = [row EXCEPT ![r] = h[i].acc]
          /\ failed' = [failed EXCEPT ![r] = FALSE]
          /\ h' = [j \in Handler |->
                    IF j = i THEN [h[i] EXCEPT !.pc = "list"]
                    ELSE [h[j] EXCEPT !.stale = h[j].pc = "refresh"]]
  /\ UNCHANGED <<memory, issued, commands, nextAcc, ops, gone, crossed, raced>>

\* RefreshSessionsAccount: the rovers are listed ...
List(i) ==
  /\ h[i].pc = "list"
  /\ Goes(i, [h[i] EXCEPT !.pc = "refresh", !.list = Rows])
  /\ UNCHANGED <<row, memory, issued, commands, nextAcc, ops, history>>

\* ... and the sessions account registered with them.
Refresh(i) ==
  /\ h[i].pc = "refresh" /\ imports' = h[i].list
  /\ raced' = h[i].stale
  /\ Goes(i, [h[i] EXCEPT !.pc = "ensure", !.list = {}, !.stale = FALSE])
  /\ UNCHANGED <<row, resolver, keys, issued, leaf, pool, subs, commands, nextAcc, ops,
                 gone, crossed, failed>>

\* Pool.Conn: the cached connection, or one with fresh credentials, which need
\* the row, the cached key and an account the hub accepts.
CanConnect(r) == row[r] # No /\ row[r] \in keys /\ resolver[row[r]] = "valid"
Conn(r) == IF pool[r] # No THEN pool[r] ELSE IF CanConnect(r) THEN row[r] ELSE No

\* Dispatcher.Ensure: nothing to do when the rover has an entry.  A failure is
\* logged and the enrolment goes on.
Ensure(i) ==
  LET r == h[i].rover IN
  /\ h[i].pc = "ensure" /\ Step(i, "answer")
  /\ IF subs[r] # No THEN UNCHANGED <<pool, subs, failed>>
     ELSE \/ /\ Conn(r) # No
             /\ pool' = [pool EXCEPT ![r] = Conn(r)] /\ subs' = [subs EXCEPT ![r] = Conn(r)]
             /\ UNCHANGED failed
          \/ failed' = [failed EXCEPT ![r] = TRUE] /\ UNCHANGED <<pool, subs>>
  /\ UNCHANGED <<row, resolver, keys, imports, leaf, issued, commands, nextAcc, ops,
                 gone, crossed, raced>>

Answer(i) ==
  /\ h[i].pc = "answer" /\ Goes(i, Free)
  /\ issued' = issued \cup {h[i].acc}
  /\ UNCHANGED <<row, memory, commands, nextAcc, ops, history>>

-----------------------------------------------------------------------------
(* newDeleteRoverHandler. *)

\* Get, then MintRevokedAccountJWT, which drops the cached key.
Delete(i, r) ==
  /\ Occurs /\ h[i] = Free /\ row[r] # No
  /\ keys' = keys \ {row[r]}
  /\ Goes(i, [Free EXCEPT !.op = "delete", !.pc = "revoke", !.rover = r, !.acc = row[r]])
  /\ Begins(i, r)
  /\ UNCHANGED <<row, resolver, imports, leaf, pool, subs, issued, commands, nextAcc,
                 gone, failed, raced>>

\* Variant: the stored JWT is replaced and the connections are left alone.
RevokeKeepsClients(i) ==
  /\ h[i].pc = "revoke" /\ Step(i, "row")
  /\ resolver' = [resolver EXCEPT ![h[i].acc] = "revoked"]
  /\ UNCHANGED <<row, keys, imports, leaf, pool, subs, issued, commands, nextAcc, ops, history>>

\* Hub.RevokeAccount: new connections fail, the present ones are dropped.
RevokeAccount(i) ==
  /\ h[i].pc = "revoke" /\ Step(i, "row")
  /\ resolver' = [resolver EXCEPT ![h[i].acc] = "revoked"]
  /\ leaf' = leaf \ {h[i].acc}
  /\ UNCHANGED <<row, keys, imports, pool, subs, issued, commands, nextAcc, ops, history>>

\* The audit event, then RoversRepo.Delete, by id.
DeleteRow(i) ==
  /\ h[i].pc = "row" /\ Step(i, "remove")
  /\ row' = [row EXCEPT ![h[i].rover] = No]
  /\ UNCHANGED <<memory, issued, commands, nextAcc, ops, history>>

\* Dispatcher.Remove and Pool.Remove, by id; the sessions account keeps its import.
Remove(i) ==
  LET r == h[i].rover IN
  /\ h[i].pc = "remove" /\ Goes(i, Free)
  /\ subs' = [subs EXCEPT ![r] = No] /\ pool' = [pool EXCEPT ![r] = No]
  /\ gone' = gone \cup {h[i].acc}
  /\ UNCHANGED <<row, resolver, keys, imports, leaf, issued, commands, nextAcc, ops,
                 crossed, failed, raced>>

\* A call fails: the request ends where it is.
Fails(i) ==
  /\ h[i].pc \in {"create", "list", "refresh", "revoke", "row"}
  /\ Goes(i, Free)
  /\ failed' = [failed EXCEPT ![h[i].rover] = @ \/ h[i].pc # "create"]
  /\ UNCHANGED <<row, memory, issued, commands, nextAcc, ops, gone, crossed, raced>>

-----------------------------------------------------------------------------
(* The rovers and the proxy's life. *)

\* A rover with an identity file connects its leaf, or loses it.
LeafConnects(n) ==
  /\ n \in issued \ leaf /\ resolver[n] = "valid"
  /\ leaf' = leaf \cup {n}
  /\ UNCHANGED <<row, resolver, keys, imports, pool, subs, issued, h, commands, nextAcc, ops, history>>

LeafDrops(n) ==
  /\ n \in leaf /\ leaf' = leaf \ {n}
  /\ UNCHANGED <<row, resolver, keys, imports, pool, subs, issued, h, commands, nextAcc, ops, history>>

\* The client library gives up a connection the hub no longer accepts.
ConnCloses(r) ==
  /\ pool[r] # No /\ resolver[pool[r]] # "valid"
  /\ pool' = [pool EXCEPT ![r] = No]
  /\ UNCHANGED <<row, resolver, keys, imports, leaf, subs, issued, h, commands, nextAcc, ops, history>>

\* The proxy dies and main starts again: restoreRoverAccounts, then EnsureAll,
\* which skips the rovers it cannot connect to.
Restart(broken) ==
  LET ok(r) == row[r] # No /\ r \notin broken IN
  /\ Occurs
  /\ resolver' = [n \in Acc |-> IF n \in Rows THEN "valid" ELSE "none"]
  /\ keys' = Rows /\ imports' = Rows /\ leaf' = {}
  /\ pool' = [r \in Rover |-> IF ok(r) THEN row[r] ELSE No]
  /\ subs' = [r \in Rover |-> IF ok(r) THEN row[r] ELSE No]
  /\ h' = [i \in Handler |-> Free] /\ firehose' = {}
  /\ raced' = FALSE /\ crossed' = [r \in Rover |-> FALSE]
  /\ failed' = [r \in Rover |-> r \in broken]
  /\ UNCHANGED <<row, issued, sent, arrived, stray, nextAcc, gone>>

-----------------------------------------------------------------------------
(* cmdrelay: a dashboard's command goes from the sessions account to the   *)
(* rover's, whose subjects the sessions account imports.                   *)

Command(r) ==
  /\ Occurs /\ <<r, FALSE>> \notin firehose
  /\ firehose' = firehose \cup {<<r, FALSE>>} /\ sent' = sent + 1
  /\ UNCHANGED <<row, memory, issued, h, arrived, stray, nextAcc, history>>

\* A marked command is the relay's own and dropped.  Others are published in the
\* rover's account, marked, and come back through the import.
Relay(r, relayed) ==
  LET n == Conn(r)
      delivers == ~relayed /\ n # No /\ resolver[n] = "valid"
  IN
  /\ <<r, relayed>> \in firehose
  /\ pool' = IF relayed THEN pool ELSE [pool EXCEPT ![r] = n]
  /\ firehose' = (firehose \ {<<r, relayed>>})
                   \cup (IF delivers /\ n \in imports THEN {<<r, TRUE>>} ELSE {})
  /\ arrived' = IF delivers /\ n \in leaf THEN arrived + 1 ELSE arrived
  /\ stray' = (stray \/ (delivers /\ n \in leaf /\ n # row[r] /\ ~crossed[r]))
  /\ UNCHANGED <<row, resolver, keys, imports, leaf, subs, issued, h, sent, nextAcc, ops, history>>

Next ==
  \/ \E i \in Handler :
       \/ \E r \in Rover : Enroll(i, r) \/ Delete(i, r)
       \/ Create(i) \/ List(i) \/ Refresh(i) \/ Ensure(i) \/ Answer(i)
       \/ RevokeAccount(i) \/ DeleteRow(i) \/ Remove(i) \/ Fails(i)
  \/ \E n \in Acc : LeafConnects(n) \/ LeafDrops(n)
  \/ \E r \in Rover : ConnCloses(r) \/ Command(r) \/ \E b \in BOOLEAN : Relay(r, b)
  \/ \E broken \in SUBSET Rover : Restart(broken)

Spec == Init /\ [][Next]_vars

-----------------------------------------------------------------------------
Settled(r) == ~crossed[r] /\ ~failed[r] /\ \A i \in Handler : h[i].rover # r

\* A rover that is enrolled is served: the hub accepts its account, the proxy can
\* mint credentials for it, its telemetry is imported, and its RPC responders are
\* in its account (newEnrollHandler; restoreRoverAccounts and EnsureAll after a
\* restart).  Unless a request about it failed, or requests about it overlapped
\* (Ensure is a no-op on the entry of a rover being deleted, and Remove goes by
\* id); the import also unless the list of another enrolment overwrote it.
EnrolledIsServed ==
  \A r \in Rover : Settled(r) /\ row[r] # No =>
    /\ resolver[row[r]] = "valid" /\ row[r] \in keys
    /\ subs[r] = row[r] /\ pool[r] = row[r]
    /\ raced \/ row[r] \in imports

\* Once a deletion is answered the rover's account is out for good, whatever else
\* ran at the same time and however often the proxy restarts: it is not connected,
\* the hub does not accept it and no row would restore it (newDeleteRoverHandler:
\* the account is revoked before the row goes).
DeletedIsOut ==
  \A n \in gone : n \notin leaf /\ resolver[n] # "valid" /\ n \notin Rows

\* An identity file works only for a rover the table knows, unless two requests
\* about its id overlapped: the second of two deletions removes, by id, the row of
\* a rover enrolled in between and revokes the account of the old one.
NoGhosts ==
  \A n \in issued : resolver[n] = "valid" /\ (\A i \in Handler : h[i] = Free) =>
    n \in Rows \/ \E r \in Rover : crossed[r]

\* A command reaches a rover at most once although the relay hears its own
\* republish, and never a rover other than the one the table names for the id.
RelayedOnce == arrived <= sent /\ ~stray
=============================================================================
