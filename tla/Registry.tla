------------------------------ MODULE Registry ------------------------------
(***************************************************************************)
(* The proxy's module registry (proxy/internal/modules, db/modules_repo):  *)
(* registering a module, ingesting its releases, what each rover should    *)
(* run, and the pushes that tell the rover.                                *)
(*                                                                         *)
(* Every HTTP request is a goroutine and every database or blob call of it *)
(* a step of its own; no transaction spans two of them.  Modules have no   *)
(* state in common, so the model has one.  The bytes of a release are      *)
(* named by the identity that signed them (and the version they are        *)
(* stored under), which is also what their checksum tells apart.           *)
(***************************************************************************)
EXTENDS Naturals, FiniteSets

CONSTANTS
  Rover,
  San,        \* signing identities, one per source repository
  Handler,    \* requests served at the same time
  MaxVer,     \* releases of a repository
  MaxOps      \* requests, releases and changes of a rover's link

Ver == 1 .. MaxVer
NoVer == 0
None == "none"
Empty == "empty"        \* config_toml ''
Cfg == {Empty, "typed"}
NoRow == [ver |-> NoVer, cfg |-> Empty, auto |-> FALSE]
Row == [ver : Ver, cfg : Cfg, auto : BOOLEAN] \cup {NoRow}
\* An entry of a DesiredModuleSet; ver is NoVer when the module is not in it.
NoEntry == [ver |-> NoVer, cfg |-> Empty, sha |-> None]
Entry == [ver : Ver, cfg : Cfg, sha : San \cup {None}] \cup {NoEntry}
NoRover == "no rover"
Free == [op |-> "free", pc |-> "done", san |-> None, ver |-> NoVer, rover |-> NoRover,
         auto |-> FALSE, todo |-> {}, snap |-> NoEntry]

VARIABLES
  latest,    \* GitHub: the newest release of each repository
  registry,  \* module_registry: the identity the module is pinned to
  versions,  \* module_versions: the checksum of each version
  blob,      \* the blob store: whose bytes are stored for a version
  static,    \* the static tree cached for a version
  desired,   \* rover_module_state
  got,       \* the last desired set each rover received
  online,    \* rovers the hub has a leaf connection to
  h,         \* the requests being served
  ops,
  asked,     \* history: the last version and config an admin gave, auto_update as asked
  tangled,   \* history: two requests about the rover overlapped
  lost,      \* history: the rover missed a push
  crossed,   \* history: two requests that write the registry overlapped
  behind     \* history: a version landed outside a check that ran to its end

tables == <<registry, versions, desired>>
store == <<blob, static>>
vars == <<latest, tables, store, got, online, h, ops, asked, tangled, lost, crossed, behind>>

TypeOK ==
  /\ latest \in [San -> 0 .. MaxVer]
  /\ registry \in San \cup {None}
  /\ versions \in [Ver -> San \cup {None}]
  /\ blob \in [Ver -> San \cup {None}] /\ static \in [Ver -> San \cup {None}]
  /\ desired \in [Rover -> Row] /\ got \in [Rover -> Entry] /\ online \subseteq Rover
  /\ \A i \in Handler : h[i].rover \in Rover \cup {NoRover} /\ h[i].snap \in Entry
  /\ tangled \in [Rover -> BOOLEAN] /\ lost \in [Rover -> BOOLEAN]
  /\ crossed \in BOOLEAN /\ behind \in [Rover -> BOOLEAN]

Init ==
  /\ latest = [s \in San |-> 1]
  /\ registry = None /\ versions = [v \in Ver |-> None]
  /\ blob = [v \in Ver |-> None] /\ static = [v \in Ver |-> None]
  /\ desired = [r \in Rover |-> NoRow] /\ got = [r \in Rover |-> NoEntry] /\ online = Rover
  /\ h = [i \in Handler |-> Free] /\ ops = 0
  /\ asked = [r \in Rover |-> NoRow]
  /\ tangled = [r \in Rover |-> FALSE] /\ lost = [r \in Rover |-> FALSE]
  /\ crossed = FALSE /\ behind = [r \in Rover |-> FALSE]

Known == {v \in Ver : versions[v] # None}
IsNewerVersion(v) == \A w \in Known : v > w
Newest(v) == \A w \in Known : w <= v

\* What a request still has to do concerns rover r, or the registry's rows.
Touches(hs, i, r) == hs[i].rover = r \/ r \in hs[i].todo
Writes(hs, i) == hs[i].op = "delete" \/ hs[i].pc \in {"put", "row", "ingest"}

\* Every step ends here: the histories of what overlaps, with those that a step
\* clears.  moved: the checksum a push may have read is no longer the row's.
Overlapping(settled, cleaned, moved) ==
  /\ tangled' = [r \in Rover |->
       \/ tangled[r] /\ r \notin settled
       \/ \E i, j \in Handler : i # j /\ Touches(h', i, r) /\ Touches(h', j, r)
       \/ moved /\ \E i \in Handler : h[i].pc = "send" /\ h[i].rover = r]
  /\ crossed' = (\/ crossed /\ ~cleaned
                 \/ \E i, j \in Handler : i # j /\ Writes(h', i) /\ Writes(h', j))

Overlaps == Overlapping({}, FALSE, FALSE)

Occurs == ops < MaxOps /\ ops' = ops + 1
Goes(i, next) == h' = [h EXCEPT ![i] = next]
Step(i, pc) == Goes(i, [h[i] EXCEPT !.pc = pc])

(***************************************************************************)
(* The queries that change rover_module_state.  SetDesired overwrites the  *)
(* config, SetDesiredVersion keeps it; neither touches auto_update.        *)
(***************************************************************************)
SetDesired(r, v, c) == desired' = [desired EXCEPT ![r] = [ver |-> v, cfg |-> c, auto |-> @.auto]]
SetDesiredVersion(r, v) == desired' = [desired EXCEPT ![r] = [@ EXCEPT !.ver = v]]

\* DesiredForRover and ListVersions: what a push would say of the module.
DesiredModule(r) ==
  IF desired[r].ver = NoVer THEN NoEntry
  ELSE [ver |-> desired[r].ver, cfg |-> desired[r].cfg, sha |-> versions[desired[r].ver]]

-----------------------------------------------------------------------------
(* HandleRegister. *)

\* The manifest of the latest release, the identity pin, the version check.
Register(i, s) ==
  /\ Occurs /\ h[i] = Free
  /\ registry \in {None, s} /\ IsNewerVersion(latest[s])
  /\ Goes(i, [Free EXCEPT !.op = "register", !.pc = "put", !.san = s, !.ver = latest[s]])
  /\ Overlaps
  /\ UNCHANGED <<latest, tables, store, got, online, asked, lost, behind>>

\* Variant: the static tree is not cached again when there is one.
PutKeepsStatic(i) ==
  /\ h[i].pc = "put"
  /\ blob' = [blob EXCEPT ![h[i].ver] = h[i].san]
  /\ static' = [static EXCEPT ![h[i].ver] = IF @ = None THEN h[i].san ELSE @]
  /\ Step(i, IF h[i].op = "register" THEN "row" ELSE "ingest")
  /\ Overlaps
  /\ UNCHANGED <<latest, tables, got, online, ops, asked, lost, behind>>

\* The verified image and its static tree are stored under the version.
Put(i) ==
  /\ h[i].pc = "put"
  /\ blob' = [blob EXCEPT ![h[i].ver] = h[i].san]
  /\ static' = [static EXCEPT ![h[i].ver] = h[i].san]
  /\ Step(i, IF h[i].op = "register" THEN "row" ELSE "ingest")
  /\ Overlaps
  /\ UNCHANGED <<latest, tables, got, online, ops, asked, lost, behind>>

RegisterModule(i) ==
  /\ h[i].pc = "row" /\ Step(i, "ingest")
  /\ registry' = h[i].san
  /\ Overlaps
  /\ UNCHANGED <<latest, versions, desired, store, got, online, ops, asked, lost, behind>>

\* IngestVersion: a version there is stays; without the module's row the
\* foreign key refuses it and the request ends.
IngestVersion(i) ==
  LET v == h[i].ver IN
  /\ h[i].pc = "ingest"
  /\ IF registry = None THEN UNCHANGED <<versions, lost, behind>>
     ELSE /\ versions' = [versions EXCEPT ![v] = IF @ = None THEN h[i].san ELSE @]
          /\ lost' = [r \in Rover |-> lost[r] \/ (desired[r].ver = v /\ versions[v] = None)]
          /\ behind' = [r \in Rover |-> behind[r] \/ (h[i].op = "register" /\ desired[r].ver < v)]
  /\ IF registry # None /\ h[i].op = "check" THEN Step(i, "rovers") ELSE Goes(i, Free)
  /\ Overlapping({}, FALSE, registry # None)
  /\ UNCHANGED <<latest, registry, desired, store, got, online, ops, asked>>

-----------------------------------------------------------------------------
(* CheckUpdater.CheckModule. *)

\* The newest release of the pinned repository, if it is newer than every
\* version known; older ones are then no longer newer.
CheckModule(i) ==
  /\ Occurs /\ h[i] = Free /\ registry # None
  /\ IsNewerVersion(latest[registry])
  /\ Goes(i, [Free EXCEPT !.op = "check", !.pc = "put", !.san = registry, !.ver = latest[registry]])
  /\ Overlaps
  /\ UNCHANGED <<latest, tables, store, got, online, asked, lost, behind>>

\* RoversForModule: the rovers to move are chosen once, before the first write.
RoversForModule(i) ==
  LET rs == {r \in Rover : desired[r].auto /\ desired[r].ver \notin {NoVer, h[i].ver}} IN
  /\ h[i].pc = "rovers"
  /\ Goes(i, IF rs = {} THEN Free ELSE [h[i] EXCEPT !.pc = "bump", !.todo = rs])
  /\ Overlaps
  /\ UNCHANGED <<latest, tables, store, got, online, ops, asked, lost, behind>>

\* One rover of the list gets the version; auto_update is set again after it.
Bump(i, r) ==
  /\ h[i].pc = "bump" /\ r \in h[i].todo
  /\ IF registry = None
       THEN UNCHANGED <<desired, asked, behind>> /\ Goes(i, Free)
       ELSE /\ SetDesiredVersion(r, h[i].ver)
            /\ asked' = [asked EXCEPT ![r].cfg = IF desired[r] = NoRow THEN Empty ELSE @]
            /\ behind' = [behind EXCEPT ![r] = ~Newest(h[i].ver)]
            /\ Goes(i, [h[i] EXCEPT !.pc = "auto", !.rover = r, !.todo = @ \ {r}, !.auto = TRUE])
  /\ Overlaps
  /\ UNCHANGED <<latest, registry, versions, store, got, online, ops, lost>>

-----------------------------------------------------------------------------
(* The admin's requests about a rover; the foreign key wants the module. *)

\* The version need not be one the registry knows.
Ask(i, r, v, op, pc, a) ==
  /\ Occurs /\ h[i] = Free /\ registry # None
  /\ Goes(i, [Free EXCEPT !.op = op, !.pc = pc, !.rover = r, !.auto = a])
  /\ behind' = [behind EXCEPT ![r] = ~Newest(v)]
  /\ Overlapping({r}, FALSE, FALSE)
  /\ UNCHANGED <<latest, registry, versions, store, got, online, lost>>

HandleSetDesired(i, r, v, c) ==
  /\ Ask(i, r, v, "set", "push", FALSE)
  /\ SetDesired(r, v, c)
  /\ asked' = [asked EXCEPT ![r] = [ver |-> v, cfg |-> c, auto |-> desired[r].auto]]

\* HandleDeploy, for one rover of its list: the config is kept when none is given.
HandleDeploy(i, r, v, a) ==
  /\ Ask(i, r, v, "deploy", "auto", a)
  /\ \/ /\ SetDesiredVersion(r, v)
        /\ asked' = [asked EXCEPT ![r] = [@ EXCEPT !.ver = v]]
     \/ /\ SetDesired(r, v, "typed")
        /\ asked' = [asked EXCEPT ![r] = [@ EXCEPT !.ver = v, !.cfg = "typed"]]

HandleUnpin(i, r) ==
  /\ Occurs /\ h[i] = Free
  /\ desired' = [desired EXCEPT ![r] = NoRow] /\ asked' = [asked EXCEPT ![r] = NoRow]
  /\ Goes(i, [Free EXCEPT !.op = "unpin", !.pc = "push", !.rover = r])
  /\ Overlapping({r}, FALSE, FALSE)
  /\ UNCHANGED <<latest, registry, versions, store, got, online, lost, behind>>

SetAutoUpdate(i) ==
  LET r == h[i].rover IN
  /\ h[i].pc = "auto" /\ Step(i, "push")
  /\ IF desired[r] = NoRow THEN UNCHANGED <<desired, asked, behind>>
     ELSE /\ desired' = [desired EXCEPT ![r].auto = h[i].auto]
          /\ asked' = IF h[i].op = "deploy" THEN [asked EXCEPT ![r].auto = h[i].auto] ELSE asked
          /\ behind' = [behind EXCEPT ![r] = @ \/ ~Newest(desired[r].ver)]
  /\ Overlaps
  /\ UNCHANGED <<latest, registry, versions, store, got, online, ops, lost>>

-----------------------------------------------------------------------------
(* DesiredPusher.Push: the rows are read, then published. *)

PushRead(i) ==
  /\ h[i].pc = "push"
  /\ Goes(i, [h[i] EXCEPT !.pc = "send", !.snap = DesiredModule(h[i].rover)])
  /\ Overlaps
  /\ UNCHANGED <<latest, tables, store, got, online, ops, asked, lost, behind>>

\* A rover that is not connected misses the message; nothing sends it again.
PushSend(i) ==
  LET r == h[i].rover IN
  /\ h[i].pc = "send"
  /\ got' = IF r \in online THEN [got EXCEPT ![r] = h[i].snap] ELSE got
  /\ lost' = [lost EXCEPT ![r] = r \notin online]
  /\ Goes(i, IF h[i].todo # {}
               THEN [h[i] EXCEPT !.pc = "bump", !.rover = NoRover, !.snap = NoEntry]
               ELSE Free)
  /\ Overlaps
  /\ UNCHANGED <<latest, tables, store, online, ops, asked, behind>>

-----------------------------------------------------------------------------
(* HandleDeleteModule. *)

\* Refused while a rover has the module pinned.
HandleDeleteModule(i) ==
  /\ Occurs /\ h[i] = Free /\ registry # None
  /\ \A r \in Rover : desired[r] = NoRow
  /\ Goes(i, [Free EXCEPT !.op = "delete", !.pc = "drop", !.todo = Rover])
  /\ Overlaps
  /\ UNCHANGED <<latest, tables, store, got, online, asked, lost, behind>>

\* ListVersions and DeleteModule: versions and pairings go with the row.
DeleteModule(i) ==
  /\ h[i].pc = "drop"
  /\ registry' = None /\ versions' = [v \in Ver |-> None]
  /\ desired' = [r \in Rover |-> NoRow] /\ asked' = [r \in Rover |-> NoRow]
  /\ lost' = [r \in Rover |-> lost[r] \/ desired[r] # NoRow]
  /\ behind' = [r \in Rover |-> FALSE]
  /\ Goes(i, [h[i] EXCEPT !.pc = "clean", !.todo = Known])
  /\ Overlapping({}, FALSE, TRUE)
  /\ UNCHANGED <<latest, store, got, online, ops>>

\* The artifacts of the versions it listed, as far as the store lets it.
DeleteBlobs(i, failed) ==
  LET vs == h[i].todo \ failed IN
  /\ h[i].pc = "clean" /\ failed \subseteq h[i].todo
  /\ blob' = [v \in Ver |-> IF v \in vs THEN None ELSE blob[v]]
  /\ static' = [v \in Ver |-> IF v \in vs THEN None ELSE static[v]]
  /\ Goes(i, Free)
  /\ Overlapping({}, Known = {} /\ (\A j \in Handler \ {i} : ~Writes(h, j)), FALSE)
  /\ UNCHANGED <<latest, tables, got, online, ops, asked, lost, behind>>

-----------------------------------------------------------------------------
\* A call fails, or the proxy dies: the request ends where it is.
Fails(i) ==
  /\ h[i] # Free
  /\ Goes(i, Free)
  /\ lost' = [r \in Rover |-> lost[r] \/ (h[i].rover = r)]
  /\ behind' = [r \in Rover |->
       behind[r] \/ (h[i].op = "check" /\ h[i].pc \notin {"put", "ingest"} /\ desired[r].ver < h[i].ver)]
  /\ Overlaps
  /\ UNCHANGED <<latest, tables, store, got, online, ops, asked>>

\* HandleServeStatic: a file missing from the cache is extracted again.
RepairStatic(r) ==
  LET v == desired[r].ver IN
  /\ v # NoVer /\ versions[v] # None /\ static[v] = None /\ blob[v] # None
  /\ static' = [static EXCEPT ![v] = blob[v]]
  /\ UNCHANGED <<latest, tables, blob, got, online, h, ops, asked, tangled, lost, crossed, behind>>

Release(s) ==
  /\ Occurs /\ latest[s] < MaxVer
  /\ latest' = [latest EXCEPT ![s] = @ + 1]
  /\ UNCHANGED <<tables, store, got, online, h, asked, tangled, lost, crossed, behind>>

LinkChanges(r) ==
  /\ Occurs
  /\ online' = IF r \in online THEN online \ {r} ELSE online \cup {r}
  /\ UNCHANGED <<latest, tables, store, got, h, asked, tangled, lost, crossed, behind>>

Next ==
  \/ \E i \in Handler :
       \/ \E s \in San : Register(i, s)
       \/ Put(i) \/ RegisterModule(i) \/ IngestVersion(i)
       \/ CheckModule(i) \/ RoversForModule(i)
       \/ \E r \in Rover : Bump(i, r)
       \/ \E r \in Rover, v \in Ver, c \in Cfg : HandleSetDesired(i, r, v, c)
       \/ \E r \in Rover, v \in Ver, a \in BOOLEAN : HandleDeploy(i, r, v, a)
       \/ \E r \in Rover : HandleUnpin(i, r)
       \/ SetAutoUpdate(i) \/ PushRead(i) \/ PushSend(i)
       \/ HandleDeleteModule(i) \/ DeleteModule(i)
       \/ \E failed \in SUBSET Ver : DeleteBlobs(i, failed)
       \/ Fails(i)
  \/ \E r \in Rover : RepairStatic(r) \/ LinkChanges(r)
  \/ \E s \in San : Release(s)

Spec == Init /\ [][Next]_vars

-----------------------------------------------------------------------------
Quiet(r) == \A i \in Handler : ~Touches(h, i, r)

\* HandleServeRaw: the bytes a rover is given for a version.
Served(v) == IF versions[v] = None THEN None ELSE blob[v]

\* A rover has been told what the tables say (HandleSetDesired, HandleDeploy,
\* HandleUnpin and CheckModule all push after they write), unless a push was lost,
\* or requests about the rover overlapped: Push publishes what it read earlier.
RoverIsTold ==
  \A r \in Rover : Quiet(r) /\ ~tangled[r] /\ ~lost[r] => got[r] = DesiredModule(r)

\* A rover an admin took off auto-update stays on the version they chose
\* (CheckModule moves only rovers with auto_update), unless a check was under way
\* when they did: it goes by the list it read.
AdminWins ==
  \A r \in Rover : Quiet(r) /\ ~tangled[r] /\ ~asked[r].auto => desired[r].ver = asked[r].ver

\* Whatever moves a rover to another version, its config is the one an admin
\* typed for it (SetDesiredVersion).
ConfigIsKept == \A r \in Rover : desired[r] # NoRow => desired[r].cfg = asked[r].cfg

\* A rover on auto-update runs the newest version the registry has, unless that
\* version came by HandleRegister or by a check that failed half-way (a later check
\* finds nothing new and moves nobody), or an admin chose an older one.
AutoFollows ==
  \A r \in Rover : desired[r] # NoRow /\ desired[r].auto /\ ~behind[r] /\ ~tangled[r]
                   /\ (\A i \in Handler : h[i] = Free) => Newest(desired[r].ver)

\* The image and the static tree served for a version are the bytes whose
\* checksum the rover is given, unless two requests that write the registry
\* overlapped: both Put under the version, and only the first row counts.
ArtifactsMatch ==
  \A v \in Known : ~crossed => Served(v) = versions[v] /\ static[v] \in {None, versions[v]}

\* The signing identity of a registered module never changes; the module has to be
\* deleted first (HandleRegister), unless two first registrations overlapped.
IdentityIsPinned ==
  [][registry # None => registry' \in {registry, None} \/ crossed]_vars
=============================================================================
