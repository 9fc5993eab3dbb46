--------------------------- MODULE DashboardProofs ---------------------------
(***************************************************************************)
(* Proofs about what a dashboard gets from a rover (MCDashboard), for any  *)
(* number of subscriptions, messages, viewers, cameras, pollers, operators *)
(* and faults: the copies of an alert and of a module's health agree       *)
(* (CopiesAgree), a closed socket and a stopped camera leave nothing       *)
(* behind (FeedsHold).                                                     *)
(***************************************************************************)
EXTENDS MCDashboard, Sequences, TLAPS

-----------------------------------------------------------------------------
(* The health of a module.                                                  *)

HealthTyped ==
  /\ baked \in BOOLEAN /\ up \in BOOLEAN /\ attached \in BOOLEAN /\ health \in BOOLEAN
  /\ change \in BOOLEAN /\ swapped \in BOOLEAN
  /\ watcher \in [healthy : BOOLEAN, misses : 0 .. 3]
  /\ snapshot \in [present : BOOLEAN, healthy : BOOLEAN]

CountsTyped ==
  /\ notes \in [BOOLEAN -> Nat] /\ signalling \in Nat
  /\ poller \in [H!Poller -> {"none", "idle", "yes", "no", "ended"}]
  /\ current \in H!Poller \cup {0} /\ started \in 0 .. MaxPoller

\* The watcher's reports say what it found last, and a baked module has no poller.
ReportsAgree ==
  /\ baked => ~attached /\ \A p \in H!Poller : poller[p] = "none"
  /\ baked /\ ~swapped =>
       /\ \A b \in BOOLEAN : b # watcher.healthy => notes[b] = 0
       /\ notes[watcher.healthy] = 0 => health = watcher.healthy

HealthInv == HealthTyped /\ CountsTyped /\ H!NoLostChange /\ ReportsAgree

LEMMA HealthTypes == H!TypeOK <=> HealthTyped /\ CountsTyped
<1>1. {baked, up, attached, health, change, swapped} \subseteq BOOLEAN
        <=> /\ baked \in BOOLEAN /\ up \in BOOLEAN /\ attached \in BOOLEAN /\ health \in BOOLEAN
            /\ change \in BOOLEAN /\ swapped \in BOOLEAN
  BY Zenon
<1> QED
  BY <1>1, Zenon DEF H!TypeOK, H!healthMissThreshold, HealthTyped, CountsTyped

LEMMA HealthInit ==
  ASSUME H!Init
  PROVE  HealthInv
<1>1. HealthTyped
  <2>1. 0 \in 0 .. 3
    OBVIOUS
  <2> QED
    BY <2>1, Zenon DEF H!Init, HealthTyped
<1>2. CountsTyped
  BY DashboardAssumption DEF H!Init, CountsTyped
<1>3. H!NoLostChange
  <2>1. H!BuildSnapshot = [present |-> baked, healthy |-> FALSE]
    BY Zenon DEF H!Init, H!BuildSnapshot, H!Listed
  <2> QED
    BY <2>1, Zenon DEF H!Init, H!NoLostChange
<1>4. ReportsAgree
  BY Zenon DEF H!Init, ReportsAgree
<1> QED
  BY <1>1, <1>2, <1>3, <1>4 DEF HealthInv

\* SetHealth signals a change of what a snapshot would say.
LEMMA SetHealthStep ==
  ASSUME HealthInv, NEW b \in BOOLEAN, H!SetHealth(b), UNCHANGED <<baked, attached, change, snapshot>>
  PROVE  health' \in BOOLEAN /\ signalling' \in Nat /\ H!NoLostChange'
<1>1. health' \in BOOLEAN
  BY Zenon DEF H!SetHealth
<1>2. signalling' \in Nat /\ (health' # health => signalling' > 0) /\ (health' = health => signalling' = signalling)
  <2>1. \A k \in Nat : k + 1 \in Nat /\ k + 1 > 0
    OBVIOUS
  <2>2. signalling \in Nat
    BY Zenon DEF HealthInv, CountsTyped
  <2>3. CASE health # b
    BY <2>1, <2>2, <2>3, Zenon DEF H!SetHealth
  <2>4. CASE health = b
    BY <2>2, <2>4, Zenon DEF H!SetHealth
  <2> QED
    BY <2>3, <2>4, Zenon
<1>3. health' = health => H!BuildSnapshot' = H!BuildSnapshot
  <2>1. baked' = baked /\ attached' = attached
    OBVIOUS
  <2>2. ASSUME health' = health PROVE H!BuildSnapshot' = H!BuildSnapshot
    BY <2>1, <2>2 DEF H!BuildSnapshot, H!Listed
  <2> QED
    BY <2>2
<1>4. H!NoLostChange'
  BY <1>2, <1>3, Zenon DEF HealthInv, H!NoLostChange
<1> QED
  BY <1>1, <1>2, <1>4

LEMMA HealthStep ==
  ASSUME HealthInv, H!Next
  PROVE  HealthInv'
<1>0. HealthTyped /\ CountsTyped /\ H!NoLostChange /\ ReportsAgree
  BY DEF HealthInv
<1>1. CASE H!ModuleChanges
  <2>1. UNCHANGED <<baked, watcher, notes, attached, health, signalling, change, snapshot, poller, current, started, swapped>>
    BY <1>1, Zenon DEF H!ModuleChanges
  <2>2. up' \in BOOLEAN
    BY <1>0, <1>1, Zenon DEF H!ModuleChanges, HealthTyped
  <2> QED
    BY <1>0, <2>1, <2>2, Zenon DEF HealthInv, HealthTyped, CountsTyped, H!NoLostChange, H!BuildSnapshot, H!Listed, ReportsAgree
<1>2. CASE H!Signal
  <2>1. UNCHANGED <<baked, up, watcher, notes, attached, health, snapshot, poller, current, started, swapped>> /\ change' = TRUE
    BY <1>2, Zenon DEF H!Signal
  <2>2. signalling' \in Nat
    BY <1>0, <1>2 DEF H!Signal, CountsTyped
  <2> QED
    BY <1>0, <2>1, <2>2, Zenon DEF HealthInv, HealthTyped, CountsTyped, H!NoLostChange, H!BuildSnapshot, H!Listed, ReportsAgree
<1>3. ASSUME NEW b \in BOOLEAN, H!Publish(b) PROVE HealthInv'
  <2>1. /\ UNCHANGED <<baked, up, watcher, notes, attached, health, signalling, poller, current, started, swapped>>
        /\ change' \in {FALSE, change} /\ snapshot' = H!BuildSnapshot
    BY <1>3, Zenon DEF H!Publish
  <2>2. H!BuildSnapshot' = H!BuildSnapshot /\ H!BuildSnapshot \in [present : BOOLEAN, healthy : BOOLEAN]
    BY <1>0, <2>1, Zenon DEF H!BuildSnapshot, H!Listed, HealthTyped
  <2>3. change' \in BOOLEAN
    BY <1>0, <2>1, Zenon DEF HealthTyped
  <2> QED
    BY <1>0, <2>1, <2>2, <2>3, Zenon DEF HealthInv, HealthTyped, CountsTyped, H!NoLostChange, ReportsAgree
<1>4. CASE H!Attach
  <2>1. /\ UNCHANGED <<baked, up, watcher, notes, health, change, snapshot, swapped>>
        /\ ~baked /\ attached' = TRUE
    BY <1>4, Zenon DEF H!Attach
  <2>2. CountsTyped' /\ signalling' > 0
    BY <1>0, <1>4, DashboardAssumption DEF H!Attach, CountsTyped, H!Poller
  <2> QED
    BY <1>0, <2>1, <2>2, Zenon DEF HealthInv, HealthTyped, H!NoLostChange, ReportsAgree
<1>5. CASE H!Detach
  <2>1. /\ UNCHANGED <<baked, up, watcher, notes, change, snapshot, swapped, poller, started>>
        /\ attached /\ attached' = FALSE /\ health' = FALSE
    BY <1>5, Zenon DEF H!Detach
  <2>2. CountsTyped' /\ signalling' > 0
    BY <1>0, <1>5 DEF H!Detach, CountsTyped
  <2> QED
    BY <1>0, <2>1, <2>2, Zenon DEF HealthInv, HealthTyped, H!NoLostChange, ReportsAgree
<1>6. ASSUME NEW b \in BOOLEAN, H!Tick(b) PROVE HealthInv'
  <2>1. /\ UNCHANGED <<baked, up, attached, health, signalling, change, snapshot, poller, current, started>>
        /\ H!Reports(watcher'.healthy)
    BY <1>6, Zenon DEF H!Tick
  <2>2. watcher' \in [healthy : BOOLEAN, misses : 0 .. 3]
    <3> DEFINE missed == IF watcher.misses < 3 THEN watcher.misses + 1 ELSE 3
    <3>1. missed \in 0 .. 3 /\ 0 \in 0 .. 3
      BY <1>0 DEF HealthTyped
    <3>2. watcher' = IF b THEN [healthy |-> TRUE, misses |-> 0]
                     ELSE [healthy |-> watcher.healthy /\ missed < 3, misses |-> missed]
      BY <1>6, Zenon DEF H!Tick, H!healthMissThreshold
    <3> HIDE DEF missed
    <3> QED
      BY <1>0, <3>1, <3>2, Zenon DEF HealthTyped
  <2>3. watcher.healthy \in BOOLEAN /\ watcher'.healthy \in BOOLEAN
    BY <1>0, <2>2, Zenon DEF HealthTyped
  <2>4. swapped' \in BOOLEAN /\ (swapped => swapped')
    BY <1>0, <2>1, Zenon DEF H!Reports, HealthTyped
  <2>5. CASE watcher'.healthy = watcher.healthy
    <3>1. notes' = notes
      BY <2>1, <2>5, Zenon DEF H!Reports
    <3> QED
      BY <1>0, <2>1, <2>2, <2>4, <2>5, <3>1, Zenon DEF HealthInv, HealthTyped, CountsTyped, H!NoLostChange, H!BuildSnapshot, H!Listed, ReportsAgree
  <2>6. CASE watcher'.healthy # watcher.healthy
    <3> DEFINE n == watcher'.healthy
    <3>1. n \in BOOLEAN /\ watcher.healthy = ~n
      BY <2>3, <2>6, Zenon
    <3>2. notes' = [notes EXCEPT ![n] = @ + 1] /\ (~swapped' => ~(notes[~n] > 0))
      BY <2>1, <2>6, Zenon DEF H!Reports
    <3>3. \A c \in BOOLEAN : notes[c] \in Nat
      BY <1>0, Zenon DEF CountsTyped
    <3>4. notes[n] + 1 \in Nat /\ notes[n] + 1 # 0 /\ (~(notes[~n] > 0) => notes[~n] = 0)
      <4>1. \A k \in Nat : k + 1 \in Nat /\ k + 1 # 0 /\ (~(k > 0) => k = 0)
        OBVIOUS
      <4>2. notes[n] \in Nat /\ notes[~n] \in Nat
        BY <3>1, <3>3, Zenon
      <4> QED
        BY <4>1, <4>2, Zenon
    <3>5. notes' \in [BOOLEAN -> Nat] /\ notes'[n] = notes[n] + 1 /\ \A c \in BOOLEAN : c # n => notes'[c] = notes[c]
      BY <1>0, <3>1, <3>2, <3>4, Zenon DEF CountsTyped
    <3>6. ~swapped' => \A c \in BOOLEAN : c # n => notes'[c] = 0
      BY <3>1, <3>2, <3>4, <3>5, Zenon
    <3> QED
      BY <1>0, <2>1, <2>2, <2>4, <3>4, <3>5, <3>6, Zenon DEF HealthInv, HealthTyped, CountsTyped, H!NoLostChange, H!BuildSnapshot, H!Listed, ReportsAgree
  <2> QED
    BY <2>5, <2>6
<1>7. ASSUME NEW b \in BOOLEAN, H!OnChange(b) PROVE HealthInv'
  <2>1. /\ UNCHANGED <<baked, up, watcher, attached, change, snapshot, poller, current, started, swapped>>
        /\ H!SetHealth(b) /\ health' = b /\ notes[b] > 0 /\ notes' = [notes EXCEPT ![b] = @ - 1]
    BY <1>7, Zenon DEF H!OnChange, H!SetHealth
  <2>2. health' \in BOOLEAN /\ signalling' \in Nat /\ H!NoLostChange'
    BY <2>1, SetHealthStep, Zenon
  <2>3. notes[b] \in Nat /\ notes[b] - 1 \in Nat /\ notes[b] # 0
    <3>1. \A k \in Nat : k > 0 => k - 1 \in Nat /\ k # 0
      OBVIOUS
    <3> QED
      BY <1>0, <2>1, <3>1, Zenon DEF CountsTyped
  <2>4. notes' \in [BOOLEAN -> Nat] /\ \A c \in BOOLEAN : c # b => notes'[c] = notes[c]
    BY <1>0, <2>1, <2>3, Zenon DEF CountsTyped
  <2>5. watcher.healthy \in BOOLEAN
    BY <1>0, Zenon DEF HealthTyped
  <2>6. baked /\ ~swapped => b = watcher.healthy
    BY <1>0, <2>3, Zenon DEF ReportsAgree
  <2>7. ReportsAgree'
    BY <1>0, <2>1, <2>4, <2>6, Zenon DEF ReportsAgree
  <2> QED
    BY <1>0, <2>1, <2>2, <2>4, <2>7, Zenon DEF HealthInv, HealthTyped, CountsTyped
<1>8. ASSUME NEW p \in H!Poller, H!Ask(p) PROVE HealthInv'
  <2>1. /\ UNCHANGED <<baked, up, watcher, notes, attached, health, signalling, change, snapshot, current, started, swapped>>
        /\ poller[p] = "idle"
    BY <1>8, Zenon DEF H!Ask
  <2>2. poller' \in [H!Poller -> {"none", "idle", "yes", "no", "ended"}]
    BY <1>0, <1>8 DEF H!Ask, CountsTyped
  <2>3. ~baked
    BY <1>0, <2>1 DEF ReportsAgree
  <2> QED
    BY <1>0, <2>1, <2>2, <2>3, Zenon DEF HealthInv, HealthTyped, CountsTyped, H!NoLostChange, H!BuildSnapshot, H!Listed, ReportsAgree
<1>9. ASSUME NEW p \in H!Poller, H!Sets(p) PROVE HealthInv'
  <2>1. /\ UNCHANGED <<baked, up, watcher, notes, attached, change, snapshot, current, started, swapped>>
        /\ poller[p] \in {"yes", "no"} /\ H!SetHealth(poller[p] = "yes")
    BY <1>9, Zenon DEF H!Sets
  <2>2. health' \in BOOLEAN /\ signalling' \in Nat /\ H!NoLostChange'
    <3>1. (poller[p] = "yes") \in BOOLEAN
      BY Zenon
    <3> QED
      BY <2>1, <3>1, SetHealthStep, Zenon
  <2>3. poller' \in [H!Poller -> {"none", "idle", "yes", "no", "ended"}]
    BY <1>0, <1>9 DEF H!Sets, CountsTyped
  <2>4. ~baked
    BY <1>0, <2>1 DEF ReportsAgree
  <2> QED
    BY <1>0, <2>1, <2>2, <2>3, <2>4, Zenon DEF HealthInv, HealthTyped, CountsTyped, ReportsAgree
<1> QED
  BY <1>1, <1>2, <1>3, <1>4, <1>5, <1>6, <1>7, <1>8, <1>9, Zenon DEF H!Next

LEMMA HealthImplies ==
  ASSUME HealthInv
  PROVE  H!TypeOK /\ H!NoLostChange /\ H!WatcherAgrees
<1>1. watcher.healthy \in BOOLEAN
  BY Zenon DEF HealthInv, HealthTyped
<1>2. H!WatcherAgrees
  BY <1>1, Zenon DEF HealthInv, ReportsAgree, H!WatcherAgrees
<1> QED
  BY <1>2, HealthTypes, Zenon DEF HealthInv

-----------------------------------------------------------------------------
(* The copies of an alert.                                                  *)

Quiet == \A r \in A!Reader, k \in A!Kind : inflight[r][k] = 0
Unasked == \A u \in Operator : request[u] = "none"

\* What the dashboard shows of a row of the mirror.
View(s) == IF A!Open(s) THEN s ELSE "none"

\* At most one event is on its way to each copy, all of kind k.
OnlyKind(k) ==
  \A r \in A!Reader, j \in A!Kind : inflight[r][j] = 0 \/ (j = k /\ inflight[r][j] = 1)

\* What a copy makes of an event.
Handled(r, k, s) == IF r = "dash" THEN A!Dashboard(k, s) ELSE A!Stored(k, s)

\* The state of a copy once the event of kind k has arrived.
After(r, k) == IF inflight[r][k] = 0 THEN row[r] ELSE Handled(r, k, row[r])

\* The copies agree once the events of kind k have arrived.
Settles(k) ==
  /\ OnlyKind(k)
  /\ seed = "done" => After("dash", k) = View(After("proxy", k))
  /\ ~apart => After("rover", k) = After("proxy", k)

\* A request that has written the mirror and not been published.
Pending(u) ==
  /\ Quiet /\ (\A w \in Operator \ {u} : request[w] = "none")
  /\ A!Stored(request[u], row["proxy"]) = row["proxy"]
  /\ seed = "done" => A!Dashboard(request[u], row["dash"]) = View(row["proxy"])

\* One change at a time: the seed, a request, or one event on its way.
OneChange ==
  /\ seed \in {"asked", "read"} => Quiet /\ Unasked /\ row["dash"] = "none"
  /\ seed = "read" => answer = View(row["proxy"])
  /\ \A u \in Operator : request[u] # "none" => Pending(u)
  /\ Unasked => \E k \in A!Kind : Settles(k)

ClosedIsEmpty == seed = "closed" => row["dash"] = "none" /\ \A k \in A!Kind : inflight["dash"][k] = 0

AlertsInv == A!TypeOK /\ ClosedIsEmpty /\ (~tangled => OneChange)

\* What the copies make of the events: the dashboard shows what the mirror has, of
\* a raise and a resolve always, of an operator's request while the alert is open.
LEMMA CopiesMake ==
  ASSUME NEW s \in A!State
  PROVE  /\ \A k \in A!Kind, r \in A!Reader : Handled(r, k, s) \in A!State
         /\ \A k \in A!Kind : A!Stored(k, s) \in A!State
         /\ View(s) \in A!State
         /\ \A k \in {"raised", "resolved"} : A!Dashboard(k, View(s)) = View(A!Stored(k, s))
         /\ \A k \in {"acknowledged", "resolved"} :
              /\ A!Open(s) => A!Dashboard(k, View(s)) = View(A!Stored(k, s))
              /\ A!Stored(k, A!Stored(k, s)) = A!Stored(k, s)
         /\ A!Stored("raised", s) = "active"
<1> USE DEF A!State, A!Kind, A!Reader, View, A!Open, A!Stored, A!Raise, A!Acknowledge, A!Resolve, A!Dashboard
<1>1. \A k \in A!Kind, r \in A!Reader : Handled(r, k, s) \in A!State
  BY DEF Handled
<1>2. (\A k \in A!Kind : A!Stored(k, s) \in A!State) /\ View(s) \in A!State
  OBVIOUS
<1>3. \A k \in {"raised", "resolved"} : A!Dashboard(k, View(s)) = View(A!Stored(k, s))
  OBVIOUS
<1>4. \A k \in {"acknowledged", "resolved"} :
        /\ A!Open(s) => A!Dashboard(k, View(s)) = View(A!Stored(k, s))
        /\ A!Stored(k, A!Stored(k, s)) = A!Stored(k, s)
  OBVIOUS
<1>5. A!Stored("raised", s) = "active"
  OBVIOUS
<1> QED
  BY <1>1, <1>2, <1>3, <1>4, <1>5

\* When nothing is under way.
LEMMA Calm ==
  ASSUME A!TypeOK, ~A!Busy
  PROVE  Quiet /\ Unasked /\ seed \notin {"asked", "read"}
<1>1. \A r \in A!Reader : inflight[r] = A!NoEvents
  BY Zenon DEF A!Busy
<1>2. Quiet
  BY <1>1 DEF Quiet, A!NoEvents
<1> QED
  BY <1>2, Zenon DEF A!Busy, Unasked

LEMMA CalmAgrees ==
  ASSUME AlertsInv, ~A!Busy, ~tangled
  PROVE  /\ seed = "done" => row["dash"] = View(row["proxy"])
         /\ ~apart => row["rover"] = row["proxy"]
<1>1. Quiet /\ Unasked
  BY Calm DEF AlertsInv
<1>2. PICK k \in A!Kind : Settles(k)
  BY <1>1, Zenon DEF AlertsInv, OneChange
<1>3. \A r \in A!Reader : After(r, k) = row[r]
  BY <1>1, Zenon DEF After, Quiet
<1>4. "rover" \in A!Reader /\ "proxy" \in A!Reader /\ "dash" \in A!Reader
  BY DEF A!Reader
<1> QED
  BY <1>2, <1>3, <1>4, Zenon DEF Settles

\* Nothing is on its way afterwards.
LEMMA QuietSettles ==
  ASSUME Quiet', seed' = "done" => row'["dash"] = View(row'["proxy"]), ~apart' => row'["rover"] = row'["proxy"]
  PROVE  \E k \in A!Kind : Settles(k)'
<1>1. "raised" \in A!Kind
  BY DEF A!Kind
<1>2. "rover" \in A!Reader /\ "proxy" \in A!Reader /\ "dash" \in A!Reader
  BY DEF A!Reader
<1>3. OnlyKind("raised")'
  BY Zenon DEF Quiet, OnlyKind
<1>4. \A r \in A!Reader : After(r, "raised")' = row'[r]
  BY <1>1, Zenon DEF Quiet, After
<1>5. Settles("raised")'
  BY <1>2, <1>3, <1>4, Zenon DEF Settles
<1> QED
  BY <1>1, <1>5, Zenon

\* An event more for each of its readers.
LEMMA SendDoes ==
  ASSUME A!TypeOK, NEW k \in A!Kind, NEW to, A!Send(k, to)
  PROVE  /\ inflight' \in [A!Reader -> [A!Kind -> Nat]]
         /\ \A r \in A!Reader, j \in A!Kind :
              inflight'[r][j] = IF r \in to /\ j = k THEN inflight[r][j] + 1 ELSE inflight[r][j]
<1>1. inflight \in [A!Reader -> [A!Kind -> Nat]]
  BY Zenon DEF A!TypeOK
<1>2. \A r \in A!Reader : inflight'[r] = IF r \in to THEN [inflight[r] EXCEPT ![k] = @ + 1] ELSE inflight[r]
  BY Zenon DEF A!Send
<1>3. \A r \in A!Reader : inflight'[r] \in [A!Kind -> Nat]
  <2>2. \A r \in A!Reader : inflight[r] \in [A!Kind -> Nat]
    BY <1>1, Zenon
  <2>3. ASSUME NEW r \in A!Reader, r \in to PROVE inflight'[r] \in [A!Kind -> Nat]
    <3>1. inflight'[r] = [inflight[r] EXCEPT ![k] = @ + 1]
      BY <1>2, <2>3, Zenon
    <3>2. inflight[r] \in [A!Kind -> Nat]
      BY <2>2, Zenon
    <3> QED
      BY <3>1, <3>2
  <2>4. ASSUME NEW r \in A!Reader, r \notin to PROVE inflight'[r] \in [A!Kind -> Nat]
    BY <1>2, <2>2, <2>4, Zenon
  <2> QED
    BY <2>3, <2>4, Zenon
<1>4. inflight' \in [A!Reader -> [A!Kind -> Nat]]
  BY <1>3, Zenon DEF A!Send
<1>5. \A r \in A!Reader, j \in A!Kind :
        inflight'[r][j] = IF r \in to /\ j = k THEN inflight[r][j] + 1 ELSE inflight[r][j]
  BY <1>1, <1>2
<1> QED
  BY <1>4, <1>5

\* One event of kind k for the readers in to, when nothing was under way.
LEMMA SentSettles ==
  ASSUME A!TypeOK, NEW k \in A!Kind, NEW to, A!Send(k, to), Quiet, UNCHANGED row
  PROVE  /\ OnlyKind(k)'
         /\ \A r \in A!Reader : After(r, k)' = IF r \in to THEN Handled(r, k, row[r]) ELSE row[r]
<1>1. \A r \in A!Reader, j \in A!Kind : inflight'[r][j] = IF r \in to /\ j = k THEN 1 ELSE 0
  <2>1. \A r \in A!Reader, j \in A!Kind : inflight[r][j] = 0
    BY Zenon DEF Quiet
  <2>2. \A r \in A!Reader, j \in A!Kind : inflight'[r][j] = IF r \in to /\ j = k THEN inflight[r][j] + 1 ELSE inflight[r][j]
    BY SendDoes
  <2> QED
    BY <2>1, <2>2
<1>2. OnlyKind(k)'
  BY <1>1, Zenon DEF OnlyKind
<1>3. 1 # 0
  OBVIOUS
<1>4. \A r \in A!Reader : After(r, k)' = IF r \in to THEN Handled(r, k, row[r]) ELSE row[r]
  BY <1>1, <1>3, Zenon DEF After
<1> QED
  BY <1>2, <1>4

\* A raise or a resolve of the rover.
LEMMA PublishStep ==
  ASSUME AlertsInv, NEW k \in {"raised", "resolved"}, A!Publish(k), UNCHANGED <<row, request, seed, answer>>
  PROVE  /\ inflight' \in [A!Reader -> [A!Kind -> Nat]] /\ tangled' \in BOOLEAN /\ apart' \in BOOLEAN
         /\ ClosedIsEmpty' /\ (~tangled' => OneChange')
<1>0. A!TypeOK /\ ClosedIsEmpty /\ k \in A!Kind /\ A!Send(k, A!FromRover)
  BY DEF AlertsInv, A!Publish, A!Kind
<1>1. tangled' \in BOOLEAN /\ apart' \in BOOLEAN
  BY <1>0, Zenon DEF A!Publish, A!TypeOK
<1>2. inflight' \in [A!Reader -> [A!Kind -> Nat]]
  BY <1>0, SendDoes
<1>3. "rover" \in A!Reader /\ "proxy" \in A!Reader /\ "dash" \in A!Reader
  BY DEF A!Reader
<1>4. ClosedIsEmpty'
  <2>1. seed = "closed" => "dash" \notin A!FromRover
    BY DEF A!FromRover, A!FromProxy
  <2>2. \A j \in A!Kind : "dash" \notin A!FromRover => inflight'["dash"][j] = inflight["dash"][j]
    BY <1>0, <1>3, SendDoes
  <2> QED
    BY <1>0, <2>1, <2>2, Zenon DEF ClosedIsEmpty
<1>5. ASSUME ~tangled' PROVE OneChange'
  <2>1. ~A!Busy /\ (tangled => link /\ k = "raised")
    BY <1>5, Zenon DEF A!Publish
  <2>2. Quiet /\ Unasked /\ seed \notin {"asked", "read"}
    BY <1>0, <2>1, Calm
  <2>3. /\ OnlyKind(k)'
        /\ \A r \in A!Reader : After(r, k)' = IF r \in A!FromRover THEN Handled(r, k, row[r]) ELSE row[r]
    BY <1>0, <2>2, SentSettles
  <2>4. row["rover"] \in A!State /\ row["proxy"] \in A!State
    BY <1>0, <1>3, Zenon DEF A!TypeOK
  <2>5. /\ A!Dashboard(k, View(row["proxy"])) = View(A!Stored(k, row["proxy"]))
        /\ k = "raised" => A!Stored(k, row["rover"]) = A!Stored(k, row["proxy"])
        /\ k = "raised" => A!Dashboard(k, row["dash"]) = View(A!Stored(k, row["proxy"]))
    <3>1. A!Dashboard(k, View(row["proxy"])) = View(A!Stored(k, row["proxy"]))
      BY <2>4, CopiesMake, Zenon
    <3>2. k = "raised" => A!Stored(k, row["rover"]) = "active" /\ A!Stored(k, row["proxy"]) = "active"
      BY <2>4, CopiesMake, Zenon
    <3>3. k = "raised" => A!Dashboard(k, row["dash"]) = "active" /\ View("active") = "active"
      BY DEF A!Dashboard, View, A!Open
    <3> QED
      BY <3>1, <3>2, <3>3
  <2>6. ~tangled => /\ seed = "done" => row["dash"] = View(row["proxy"])
                    /\ ~apart => row["rover"] = row["proxy"]
    BY <2>1, CalmAgrees, Zenon
  <2>7. CASE link
    <3>1. "rover" \in A!FromRover /\ "proxy" \in A!FromRover /\ (seed = "done" => "dash" \in A!FromRover)
      BY <2>7 DEF A!FromRover, A!FromProxy
    <3>2. After("rover", k)' = A!Stored(k, row["rover"]) /\ After("proxy", k)' = A!Stored(k, row["proxy"])
      BY <1>3, <2>3, <3>1 DEF Handled
    <3>3. seed = "done" => After("dash", k)' = A!Dashboard(k, row["dash"])
      BY <1>3, <2>3, <3>1 DEF Handled
    <3>4. ~apart' => ~apart \/ k = "raised"
      BY <2>7, Zenon DEF A!Publish
    <3>5. seed' = "done" => After("dash", k)' = View(After("proxy", k)')
      BY <2>1, <2>5, <2>6, <3>2, <3>3, Zenon
    <3>6. ~apart' => After("rover", k)' = After("proxy", k)'
      <4>1. CASE k = "raised"
        BY <2>5, <3>2, <4>1, Zenon
      <4>2. CASE k # "raised"
        BY <2>1, <2>6, <3>2, <3>4, <4>2, Zenon
      <4> QED
        BY <4>1, <4>2
    <3>7. Settles(k)'
      BY <2>3, <3>5, <3>6, Zenon DEF Settles
    <3> QED
      BY <1>0, <2>2, <3>7, Zenon DEF OneChange, Unasked
  <2>8. CASE ~link
    <3>1. "proxy" \notin A!FromRover /\ "dash" \notin A!FromRover
      BY <2>8 DEF A!FromRover
    <3>2. After("proxy", k)' = row["proxy"] /\ After("dash", k)' = row["dash"] /\ apart' = TRUE /\ ~tangled
      BY <1>3, <2>1, <2>3, <2>8, <3>1, Zenon DEF A!Publish
    <3>3. Settles(k)'
      BY <2>3, <2>6, <3>2, Zenon DEF Settles
    <3> QED
      BY <1>0, <2>2, <3>3, Zenon DEF OneChange, Unasked
  <2> QED
    BY <2>7, <2>8
<1> QED
  BY <1>1, <1>2, <1>4, <1>5

\* Nothing the copies depend on changes.
LEMMA AlertsKept ==
  ASSUME AlertsInv, UNCHANGED <<row, inflight, request, seed, answer, tangled, apart>>
  PROVE  ClosedIsEmpty' /\ (~tangled' => OneChange')
BY Zenon DEF AlertsInv, ClosedIsEmpty, OneChange, Quiet, Unasked, Pending, Settles, OnlyKind, After

LEMMA PollStep ==
  ASSUME AlertsInv, A!LinkChanges \/ A!Poll \/ A!RaiseFault
  PROVE  AlertsInv'
<1>0. A!TypeOK
  BY DEF AlertsInv
<1>1. UNCHANGED <<alert, row, request, seed, answer, blind>>
  BY Zenon DEF A!LinkChanges, A!Poll, A!RaiseFault, A!history
<1>2. link' \in BOOLEAN /\ last' \in {"unseen", "up", "down"}
  BY <1>0, Zenon DEF A!LinkChanges, A!Poll, A!RaiseFault, A!TypeOK
<1>3. CASE A!Publish("raised") \/ A!Publish("resolved")
  <2>1. /\ inflight' \in [A!Reader -> [A!Kind -> Nat]] /\ tangled' \in BOOLEAN /\ apart' \in BOOLEAN
        /\ ClosedIsEmpty' /\ (~tangled' => OneChange')
    BY <1>1, <1>3, PublishStep
  <2> QED
    BY <1>0, <1>1, <1>2, <2>1, Zenon DEF AlertsInv, A!TypeOK
<1>4. CASE UNCHANGED <<inflight, tangled, apart>>
  <2>1. ClosedIsEmpty' /\ (~tangled' => OneChange')
    BY <1>1, <1>4, AlertsKept
  <2> QED
    BY <1>0, <1>1, <1>2, <1>4, <2>1, Zenon DEF AlertsInv, A!TypeOK
<1> QED
  BY <1>3, <1>4, Zenon DEF A!LinkChanges, A!Poll, A!RaiseFault, A!history

\* A handler brings its copy where the event was to bring it.
LEMMA HandleStep ==
  ASSUME AlertsInv, NEW r \in A!Reader, NEW k \in A!Kind, A!Handle(r, k)
  PROVE  AlertsInv'
<1>0. A!TypeOK /\ ClosedIsEmpty /\ (~tangled => OneChange)
  BY DEF AlertsInv
<1>1. UNCHANGED <<alert, link, last, request, seed, answer, tangled, apart, blind>>
  BY Zenon DEF A!Handle, A!history
<1>2. inflight \in [A!Reader -> [A!Kind -> Nat]] /\ row \in [A!Reader -> A!State]
  BY <1>0, Zenon DEF A!TypeOK
<1>3. row' = [row EXCEPT ![r] = Handled(r, k, row[r])]
  BY <1>2, Zenon DEF A!Handle, Handled
<1>4. row' \in [A!Reader -> A!State] /\ row'[r] = Handled(r, k, row[r]) /\ \A q \in A!Reader : q # r => row'[q] = row[q]
  <2>1. Handled(r, k, row[r]) \in A!State
    BY <1>2, CopiesMake
  <2> QED
    BY <1>2, <1>3, <2>1, Zenon
<1>5. /\ inflight' \in [A!Reader -> [A!Kind -> Nat]] /\ inflight[r][k] > 0
      /\ \A q \in A!Reader, j \in A!Kind : inflight'[q][j] = IF q = r /\ j = k THEN inflight[q][j] - 1 ELSE inflight[q][j]
  BY <1>2 DEF A!Handle
<1>6. A!TypeOK'
  BY <1>0, <1>1, <1>4, <1>5, Zenon DEF A!TypeOK
<1>7. ClosedIsEmpty'
  <2>1. seed = "closed" => r # "dash"
    BY <1>0, <1>5 DEF ClosedIsEmpty
  <2>2. "dash" \in A!Reader
    BY DEF A!Reader
  <2> QED
    BY <1>0, <1>1, <1>4, <1>5, <2>1, <2>2, Zenon DEF ClosedIsEmpty
<1>8. ASSUME ~tangled PROVE OneChange'
  <2>1. ~Quiet
    BY <1>5 DEF Quiet
  <2>2. Unasked /\ seed \notin {"asked", "read"}
    BY <1>0, <1>8, <2>1, Zenon DEF OneChange, Pending, Unasked
  <2>3. PICK j \in A!Kind : Settles(j)
    BY <1>0, <1>8, <2>2, Zenon DEF OneChange
  <2>4. j = k /\ inflight[r][k] = 1 /\ inflight'[r][k] = 0
    <3>1. inflight[r][k] = 0 \/ (k = j /\ inflight[r][k] = 1)
      BY <2>3, Zenon DEF Settles, OnlyKind
    <3> QED
      BY <1>5, <3>1
  <2>5. OnlyKind(k)'
    <3>1. \A q \in A!Reader, i \in A!Kind : inflight'[q][i] = inflight[q][i] \/ inflight'[q][i] = 0
      BY <1>5, <2>4, Zenon
    <3>2. OnlyKind(k)
      BY <2>3, <2>4 DEF Settles
    <3> QED
      BY <3>1, <3>2 DEF OnlyKind
  <2>6. \A q \in A!Reader : After(q, k)' = After(q, k)
    <3>1. After(r, k)' = After(r, k)
      <4>1. 1 # 0
        OBVIOUS
      <4> QED
        BY <1>4, <2>4, <4>1, Zenon DEF After
    <3>2. \A q \in A!Reader : q # r => After(q, k)' = After(q, k)
      BY <1>4, <1>5, Zenon DEF After
    <3> QED
      BY <3>1, <3>2, Zenon
  <2>7. Settles(k)'
    <3>1. "rover" \in A!Reader /\ "proxy" \in A!Reader /\ "dash" \in A!Reader
      BY DEF A!Reader
    <3> QED
      BY <1>1, <2>3, <2>4, <2>5, <2>6, <3>1, Zenon DEF Settles
  <2> QED
    BY <1>1, <2>2, <2>7, Zenon DEF OneChange, Unasked
<1> QED
  BY <1>1, <1>6, <1>7, <1>8, Zenon DEF AlertsInv

LEMMA AgentRestartStep ==
  ASSUME AlertsInv, A!AgentRestarts
  PROVE  AlertsInv'
<1>0. A!TypeOK /\ ClosedIsEmpty /\ (~tangled => OneChange)
  BY DEF AlertsInv
<1>1. UNCHANGED <<alert, link, row, request, seed, answer, apart>> /\ last' = "unseen"
  BY Zenon DEF A!AgentRestarts
<1>2. inflight \in [A!Reader -> [A!Kind -> Nat]] /\ inflight' = [inflight EXCEPT !["rover"] = A!NoEvents]
  BY <1>0, Zenon DEF A!TypeOK, A!AgentRestarts
<1>3. "rover" \in A!Reader /\ "dash" \in A!Reader
  BY DEF A!Reader
<1>4. inflight' \in [A!Reader -> [A!Kind -> Nat]] /\ inflight'["dash"] = inflight["dash"]
  <2>1. A!NoEvents \in [A!Kind -> Nat] /\ "dash" # "rover"
    BY DEF A!NoEvents
  <2> QED
    BY <1>2, <1>3, <2>1, Zenon
<1>5. tangled' \in BOOLEAN /\ blind' \in BOOLEAN
  BY <1>0, Zenon DEF A!AgentRestarts, A!TypeOK
<1>6. A!TypeOK'
  BY <1>0, <1>1, <1>4, <1>5, Zenon DEF A!TypeOK
<1>7. ClosedIsEmpty'
  BY <1>0, <1>1, <1>4, Zenon DEF ClosedIsEmpty
<1>8. ASSUME ~tangled' PROVE OneChange'
  <2>1. ~tangled /\ inflight["rover"] = A!NoEvents
    BY <1>8, Zenon DEF A!AgentRestarts
  <2>2. inflight' = inflight
    BY <1>2, <1>3, <2>1
  <2> QED
    BY <1>0, <1>1, <2>1, <2>2, Zenon DEF OneChange, Quiet, Unasked, Pending, Settles, OnlyKind, After
<1> QED
  BY <1>6, <1>7, <1>8, Zenon DEF AlertsInv

\* An operator's request writes the mirror.
LEMMA WriteStep ==
  ASSUME AlertsInv, NEW u \in Operator, NEW op \in {"acknowledged", "resolved"}, A!Write(u, op)
  PROVE  AlertsInv'
<1>0. A!TypeOK /\ ClosedIsEmpty /\ (~tangled => OneChange)
  BY DEF AlertsInv
<1>1. UNCHANGED <<alert, link, last, inflight, seed, answer, apart, blind>>
  BY Zenon DEF A!Write
<1>2. /\ request \in [Operator -> {"none", "acknowledged", "resolved"}] /\ row \in [A!Reader -> A!State]
      /\ request' = [request EXCEPT ![u] = op] /\ row' = [row EXCEPT !["proxy"] = A!Stored(op, row["proxy"])]
      /\ row["proxy"] # "none"
  BY <1>0, Zenon DEF A!TypeOK, A!Write
<1>3. "proxy" \in A!Reader /\ "dash" \in A!Reader /\ "dash" # "proxy" /\ op \in A!Kind /\ op # "none"
  BY DEF A!Reader, A!Kind
<1>4. row["proxy"] \in A!State /\ A!Stored(op, row["proxy"]) \in A!State
  BY <1>2, <1>3, CopiesMake
<1>5. /\ row' \in [A!Reader -> A!State] /\ row'["proxy"] = A!Stored(op, row["proxy"]) /\ row'["dash"] = row["dash"]
      /\ request' \in [Operator -> {"none", "acknowledged", "resolved"}] /\ request'[u] = op
      /\ \A w \in Operator : w # u => request'[w] = request[w]
  BY <1>2, <1>3, <1>4
<1>6. tangled' \in BOOLEAN
  BY <1>0, Zenon DEF A!Write, A!TypeOK
<1>7. A!TypeOK' /\ ClosedIsEmpty'
  BY <1>0, <1>1, <1>5, <1>6, Zenon DEF A!TypeOK, ClosedIsEmpty
<1>8. ASSUME ~tangled' PROVE OneChange'
  <2>1. ~tangled /\ ~A!Busy /\ row["proxy"] # "resolved"
    BY <1>8, Zenon DEF A!Write
  <2>2. Quiet /\ Unasked /\ seed \notin {"asked", "read"}
    BY <1>0, <2>1, Calm
  <2>3. seed = "done" => row["dash"] = View(row["proxy"])
    BY <2>1, CalmAgrees
  <2>4. A!Open(row["proxy"])
    BY <1>2, <1>4, <2>1 DEF A!State, A!Open
  <2>5. A!Stored(op, row'["proxy"]) = row'["proxy"] /\ A!Dashboard(op, View(row["proxy"])) = View(row'["proxy"])
    BY <1>4, <1>5, <2>4, CopiesMake
  <2>6. Pending(u)'
    BY <1>1, <1>5, <2>2, <2>3, <2>5, Zenon DEF Pending, Quiet, Unasked
  <2>7. \A w \in Operator : request'[w] # "none" => w = u
    BY <1>5, <2>2, Zenon DEF Unasked
  <2>8. ~Unasked'
    BY <1>3, <1>5, Zenon DEF Unasked
  <2> QED
    BY <1>1, <2>2, <2>6, <2>7, <2>8, Zenon DEF OneChange
<1> QED
  BY <1>7, <1>8, Zenon DEF AlertsInv

\* ... and is published.
LEMMA AnswerStep ==
  ASSUME AlertsInv, NEW u \in Operator, A!Answer(u)
  PROVE  AlertsInv'
<1>0. A!TypeOK /\ ClosedIsEmpty /\ (~tangled => OneChange)
  BY DEF AlertsInv
<1>1. UNCHANGED <<alert, link, last, row, seed, answer, tangled, blind>> /\ apart' = TRUE
  BY Zenon DEF A!Answer
<1>2. PICK op \in A!Kind : op = request[u] /\ op # "none" /\ A!Send(op, A!FromProxy)
  <2>1. request[u] \in {"none", "acknowledged", "resolved"} /\ request[u] # "none" /\ A!Send(request[u], A!FromProxy)
    BY <1>0, Zenon DEF A!Answer, A!TypeOK
  <2>2. request[u] \in A!Kind
    BY <2>1 DEF A!Kind
  <2> QED
    BY <2>1, <2>2, Zenon
<1>3. /\ inflight' \in [A!Reader -> [A!Kind -> Nat]]
      /\ \A r \in A!Reader, j \in A!Kind :
           inflight'[r][j] = IF r \in A!FromProxy /\ j = op THEN inflight[r][j] + 1 ELSE inflight[r][j]
  BY <1>0, <1>2, SendDoes
<1>4. /\ request' \in [Operator -> {"none", "acknowledged", "resolved"}] /\ request'[u] = "none"
      /\ \A w \in Operator : w # u => request'[w] = request[w]
  <2>1. request \in [Operator -> {"none", "acknowledged", "resolved"}] /\ request' = [request EXCEPT ![u] = "none"]
    BY <1>0, Zenon DEF A!Answer, A!TypeOK
  <2> QED
    BY <2>1
<1>5. A!TypeOK'
  BY <1>0, <1>1, <1>3, <1>4, Zenon DEF A!TypeOK
<1>6. "proxy" \in A!Reader /\ "dash" \in A!Reader
  BY DEF A!Reader
<1>7. ClosedIsEmpty'
  <2>1. seed = "closed" => "dash" \notin A!FromProxy
    BY DEF A!FromProxy
  <2> QED
    BY <1>0, <1>1, <1>3, <1>6, <2>1, Zenon DEF ClosedIsEmpty
<1>8. ASSUME ~tangled PROVE OneChange'
  <2>1. Pending(u)
    BY <1>0, <1>2, <1>8, Zenon DEF OneChange
  <2>2. Unasked'
    BY <1>4, <2>1, Zenon DEF Unasked, Pending
  <2>3. seed \notin {"asked", "read"}
    BY <1>0, <1>2, <1>8, Zenon DEF OneChange, Unasked
  <2>4. /\ OnlyKind(op)'
        /\ \A r \in A!Reader : After(r, op)' = IF r \in A!FromProxy THEN Handled(r, op, row[r]) ELSE row[r]
    <3>1. Quiet
      BY <2>1 DEF Pending
    <3> QED
      BY <1>0, <1>1, <1>2, <3>1, SentSettles
  <2>5. "proxy" \in A!FromProxy /\ (seed = "done" => "dash" \in A!FromProxy)
    BY DEF A!FromProxy
  <2>6. After("proxy", op)' = row["proxy"] /\ (seed = "done" => After("dash", op)' = View(row["proxy"]))
    <3>1. Handled("proxy", op, row["proxy"]) = A!Stored(op, row["proxy"]) /\ Handled("dash", op, row["dash"]) = A!Dashboard(op, row["dash"])
      BY DEF Handled
    <3> QED
      BY <1>2, <1>6, <2>1, <2>4, <2>5, <3>1 DEF Pending
  <2>7. Settles(op)'
    BY <1>1, <2>4, <2>6, Zenon DEF Settles
  <2> QED
    BY <1>1, <1>2, <2>2, <2>3, <2>7, Zenon DEF OneChange, Unasked
<1> QED
  BY <1>1, <1>5, <1>7, <1>8, Zenon DEF AlertsInv

LEMMA ProxyRestartStep ==
  ASSUME AlertsInv, A!ProxyRestarts
  PROVE  AlertsInv'
<1>0. A!TypeOK /\ (~tangled => OneChange)
  BY DEF AlertsInv
<1>1. /\ UNCHANGED <<alert, last, blind>> /\ link' = FALSE /\ seed' = "closed" /\ answer' = "none"
      /\ request' = [u \in Operator |-> "none"]
  BY Zenon DEF A!ProxyRestarts
<1>2. tangled' \in BOOLEAN /\ apart' \in BOOLEAN
  BY <1>0, Zenon DEF A!ProxyRestarts, A!TypeOK
<1>3. "rover" \in A!Reader /\ "proxy" \in A!Reader /\ "dash" \in A!Reader
  BY DEF A!Reader
<1>4. /\ inflight' \in [A!Reader -> [A!Kind -> Nat]]
      /\ \A r \in A!Reader, k \in A!Kind : inflight'[r][k] = IF r = "rover" THEN inflight[r][k] ELSE 0
  <2>1. inflight \in [A!Reader -> [A!Kind -> Nat]] /\ inflight' = [inflight EXCEPT !["proxy"] = A!NoEvents, !["dash"] = A!NoEvents]
    BY <1>0, Zenon DEF A!ProxyRestarts, A!TypeOK
  <2>2. A!NoEvents \in [A!Kind -> Nat] /\ \A k \in A!Kind : A!NoEvents[k] = 0
    BY DEF A!NoEvents
  <2> HIDE DEF A!NoEvents
  <2>3. inflight' \in [A!Reader -> [A!Kind -> Nat]]
    BY <1>3, <2>1, <2>2
  <2>4. \A r \in A!Reader : inflight'[r] = IF r = "rover" THEN inflight[r] ELSE A!NoEvents
    BY <2>1 DEF A!Reader
  <2> QED
    BY <2>2, <2>3, <2>4
<1>5. row' \in [A!Reader -> A!State] /\ row'["dash"] = "none" /\ row'["rover"] = row["rover"] /\ row'["proxy"] = row["proxy"]
  <2>1. row \in [A!Reader -> A!State] /\ row' = [row EXCEPT !["dash"] = "none"]
    BY <1>0, Zenon DEF A!ProxyRestarts, A!TypeOK
  <2> QED
    BY <1>3, <2>1 DEF A!State
<1>6. A!TypeOK'
  <2>1. request' \in [Operator -> {"none", "acknowledged", "resolved"}] /\ answer' \in A!State
    BY <1>1 DEF A!State
  <2> QED
    BY <1>0, <1>1, <1>2, <1>4, <1>5, <2>1, Zenon DEF A!TypeOK
<1>7. ClosedIsEmpty'
  <2>1. "dash" # "rover"
    OBVIOUS
  <2> QED
    BY <1>3, <1>4, <1>5, <2>1, Zenon DEF ClosedIsEmpty
<1>8. ASSUME ~tangled' PROVE OneChange'
  <2>1. ~tangled /\ ~A!Busy /\ (~apart' => ~apart)
    BY <1>8, Zenon DEF A!ProxyRestarts
  <2>2. Quiet
    BY <1>0, <2>1, Calm
  <2>3. Quiet'
    BY <1>4, <2>2, Zenon DEF Quiet
  <2>4. ~apart => row["rover"] = row["proxy"]
    BY <2>1, CalmAgrees
  <2>5. \E k \in A!Kind : Settles(k)'
    BY <1>1, <1>5, <2>1, <2>3, <2>4, QuietSettles
  <2>6. Unasked'
    BY <1>1, Zenon DEF Unasked
  <2> QED
    BY <1>1, <2>5, <2>6, Zenon DEF OneChange, Unasked
<1> QED
  BY <1>6, <1>7, <1>8, Zenon DEF AlertsInv

\* The dashboard's seed.
LEMMA SeedStep ==
  ASSUME AlertsInv, A!Mount \/ A!ListActive \/ A!Seed \/ A!SeedFails
  PROVE  AlertsInv'
<1>0. A!TypeOK /\ ClosedIsEmpty /\ (~tangled => OneChange)
  BY DEF AlertsInv
<1>1. UNCHANGED <<alert, link, last, inflight, request, apart, blind>> /\ seed' \in {"asked", "read", "done"}
  BY Zenon DEF A!Mount, A!ListActive, A!Seed, A!SeedFails, A!history
<1>2. tangled' \in BOOLEAN /\ (~tangled' => ~tangled)
  BY <1>0, Zenon DEF A!Mount, A!ListActive, A!Seed, A!SeedFails, A!history, A!TypeOK
<1>3. "rover" \in A!Reader /\ "proxy" \in A!Reader /\ "dash" \in A!Reader /\ "none" \in A!State
  BY DEF A!Reader, A!State
<1>4. row["proxy"] \in A!State /\ row["dash"] \in A!State /\ answer \in A!State /\ row \in [A!Reader -> A!State]
  BY <1>0, <1>3, Zenon DEF A!TypeOK
<1>5. answer' \in A!State /\ row' \in [A!Reader -> A!State] /\ row'["proxy"] = row["proxy"] /\ row'["rover"] = row["rover"]
  <2>1. CASE A!Seed
    <3>1. answer' = "none" /\ row' = [row EXCEPT !["dash"] = IF answer # "none" THEN answer ELSE row["dash"]]
      BY <1>4, <2>1, Zenon DEF A!Seed
    <3> QED
      BY <1>3, <1>4, <3>1
  <2>2. CASE A!Mount \/ A!ListActive \/ A!SeedFails
    <3>1. row' = row /\ answer' \in {answer, row["proxy"], "none"}
      BY <2>2, Zenon DEF A!Mount, A!ListActive, A!SeedFails
    <3> QED
      BY <1>3, <1>4, <3>1
  <2> QED
    BY <2>1, <2>2
<1>6. A!TypeOK' /\ ClosedIsEmpty'
  <2>1. seed' \in {"closed", "asked", "read", "done"} /\ seed' # "closed"
    BY <1>1
  <2> QED
    BY <1>0, <1>1, <1>2, <1>5, <2>1, Zenon DEF A!TypeOK, ClosedIsEmpty
<1>7. ASSUME ~tangled' PROVE OneChange'
  <2>1. ~tangled /\ OneChange
    BY <1>0, <1>2, <1>7
  <2>2. Quiet /\ Unasked /\ row["dash"] = "none"
    <3>1. CASE A!Mount
      <4>1. ~A!Busy /\ seed = "closed"
        BY <1>7, <3>1, Zenon DEF A!Mount
      <4> QED
        BY <1>0, <4>1, Calm DEF ClosedIsEmpty
    <3>2. CASE A!ListActive \/ A!Seed
      <4>1. seed \in {"asked", "read"}
        BY <3>2, Zenon DEF A!ListActive, A!Seed
      <4> QED
        BY <2>1, <4>1, Zenon DEF OneChange
    <3>3. CASE A!SeedFails
      BY <1>7, <3>3, Zenon DEF A!SeedFails
    <3> QED
      BY <3>1, <3>2, <3>3
  <2>3. Quiet' /\ Unasked'
    BY <1>1, <2>2, Zenon DEF Quiet, Unasked
  <2>4. ~apart => row["rover"] = row["proxy"]
    <3>1. PICK k \in A!Kind : Settles(k)
      BY <2>1, <2>2, Zenon DEF OneChange
    <3> QED
      BY <1>3, <2>2, <3>1, Zenon DEF Settles, After, Quiet
  <2>5. /\ seed' = "done" => row'["dash"] = View(row'["proxy"])
        /\ seed' # "done" => row'["dash"] = "none"
        /\ seed' = "read" => answer' = View(row'["proxy"])
    <3>1. CASE A!Mount
      <4>1. seed' = "asked" /\ row' = row
        BY <3>1, Zenon DEF A!Mount
      <4> QED
        BY <2>2, <4>1
    <3>2. CASE A!ListActive
      <4>1. seed' = "read" /\ row' = row /\ answer' = View(row["proxy"])
        BY <3>2, Zenon DEF A!ListActive, View
      <4> QED
        BY <2>2, <4>1
    <3>3. CASE A!Seed
      <4>1. seed' = "done" /\ seed = "read" /\ row' = [row EXCEPT !["dash"] = IF answer # "none" THEN answer ELSE row["dash"]]
        BY <1>4, <3>3, Zenon DEF A!Seed
      <4>2. answer = View(row["proxy"])
        BY <2>1, <4>1, Zenon DEF OneChange
      <4>3. row'["dash"] = answer
        BY <1>3, <1>4, <2>2, <4>1
      <4> QED
        BY <1>5, <4>1, <4>2, <4>3
    <3>4. CASE A!SeedFails
      BY <1>7, <3>4, Zenon DEF A!SeedFails
    <3> QED
      BY <3>1, <3>2, <3>3, <3>4
  <2>6. \E k \in A!Kind : Settles(k)'
    BY <1>1, <1>5, <2>3, <2>4, <2>5, QuietSettles
  <2>7. seed' \in {"asked", "read"} => row'["dash"] = "none"
    BY <2>5
  <2> QED
    BY <2>3, <2>5, <2>6, <2>7, Zenon DEF OneChange, Unasked
<1> QED
  BY <1>6, <1>7, Zenon DEF AlertsInv

LEMMA AlertsInit ==
  ASSUME A!Init
  PROVE  AlertsInv
<1>1. link \in BOOLEAN /\ tangled \in BOOLEAN /\ apart \in BOOLEAN /\ blind \in BOOLEAN
  BY Zenon DEF A!Init
<1>2. /\ row \in [A!Reader -> A!State] /\ inflight \in [A!Reader -> [A!Kind -> Nat]]
      /\ request \in [Operator -> {"none", "acknowledged", "resolved"}]
      /\ seed = "closed" /\ answer \in A!State /\ last \in {"unseen", "up", "down"} /\ alert \in A!Alert
  BY DEF A!Init, A!NoEvents, A!State
<1>3. A!TypeOK
  <2>1. seed \in {"closed", "asked", "read", "done"}
    BY <1>2
  <2> QED
    BY <1>1, <1>2, <2>1, Zenon DEF A!TypeOK
<1>4. Quiet /\ Unasked /\ \A r \in A!Reader : row[r] = "none"
  BY DEF A!Init, A!NoEvents, Quiet, Unasked
<1>5. "rover" \in A!Reader /\ "proxy" \in A!Reader /\ "dash" \in A!Reader /\ "raised" \in A!Kind
  BY DEF A!Reader, A!Kind
<1>6. ClosedIsEmpty
  BY <1>4, <1>5, Zenon DEF ClosedIsEmpty, Quiet
<1>7. Settles("raised")
  <2>1. seed # "done"
    BY <1>2
  <2> QED
    BY <1>4, <1>5, <2>1, Zenon DEF Settles, OnlyKind, After, Quiet
<1>8. OneChange
  <2>1. seed \notin {"asked", "read"} /\ seed # "read"
    BY <1>2
  <2> QED
    BY <1>4, <1>5, <1>7, <2>1, Zenon DEF OneChange, Unasked
<1> QED
  BY <1>3, <1>6, <1>8, Zenon DEF AlertsInv

LEMMA AlertsStep ==
  ASSUME AlertsInv, A!Next
  PROVE  AlertsInv'
BY PollStep, AgentRestartStep, HandleStep, WriteStep, AnswerStep, ProxyRestartStep, SeedStep, Zenon
   DEF A!Next, A!Deliver

LEMMA AlertsImplies ==
  ASSUME AlertsInv
  PROVE  A!TypeOK /\ A!MirrorAgrees /\ A!DashboardAgrees
<1>1. A!MirrorAgrees
  BY CalmAgrees, Zenon DEF A!MirrorAgrees
<1>2. A!DashboardAgrees
  BY CalmAgrees, Zenon DEF A!DashboardAgrees, View
<1> QED
  BY <1>1, <1>2 DEF AlertsInv

-----------------------------------------------------------------------------
(* The cameras.                                                             *)

Steps == {"idle", "gather", "track", "sub", "watch", "ended"}

DeviceTyped ==
  /\ plugged \in BOOLEAN /\ scan \in {"none", "there", "missing"}
  /\ cam \in 0 .. built /\ built \in 0 .. MaxCam /\ running \subseteq C!Camera

PipelinesTyped ==
  /\ sup \in [C!Camera -> {"off", "start", "run", "wait", "done"}]
  /\ backoff \in [C!Camera -> 1 .. 15]

SessionsTyped ==
  /\ tracks \in [C!Camera -> SUBSET Viewer] /\ subs \in [C!Camera -> SUBSET Viewer]
  /\ at \in [Viewer -> [cam : 0 .. MaxCam, pc : Steps]]
  /\ pc \in [Viewer -> {"none", "open", "failed", "closed"}] /\ early \subseteq Viewer

\* A viewer has one camera, of those made, and is on its list from its track on; a
\* subscriber of the listed camera has not ended.
SessionOK(v) ==
  /\ at[v].cam <= built /\ (at[v].pc # "idle" => at[v].cam # 0)
  /\ \A c \in C!Camera : v \in tracks[c] => at[v].cam = c /\ at[v].pc \notin {"idle", "gather"}
  /\ \A c \in C!Camera : v \in subs[c] => at[v].cam = c /\ at[v].pc \in {"sub", "watch"}
  /\ cam # 0 /\ at[v].pc = "sub" /\ at[v].cam = cam => v \in subs[cam]

CamerasInv ==
  /\ DeviceTyped /\ PipelinesTyped /\ SessionsTyped
  /\ C!OnePipeline /\ C!TracksAreLive /\ \A v \in Viewer : SessionOK(v)

LEMMA CamerasInit ==
  ASSUME C!Init
  PROVE  CamerasInv
<1>1. DeviceTyped
  <2>1. plugged \in BOOLEAN
    BY Zenon DEF C!Init
  <2> QED
    BY <2>1, DashboardAssumption DEF C!Init, DeviceTyped
<1>2. PipelinesTyped /\ SessionsTyped
  BY DashboardAssumption DEF C!Init, PipelinesTyped, SessionsTyped, C!pipelineRestartMin, C!Idle, Steps
<1>3. C!OnePipeline /\ C!TracksAreLive
  BY DEF C!Init, C!OnePipeline, C!TracksAreLive
<1>4. \A v \in Viewer : SessionOK(v)
  BY DEF C!Init, SessionOK, C!Idle
<1> QED
  BY <1>1, <1>2, <1>3, <1>4 DEF CamerasInv

LEMMA CamerasImplies ==
  ASSUME CamerasInv
  PROVE  C!TypeOK /\ C!OnePipeline /\ C!TracksAreLive
<1>1. \A c, d \in running : c = d
  BY DEF CamerasInv, C!OnePipeline
<1>2. \A c \in C!Camera : backoff[c] \in C!pipelineRestartMin .. C!pipelineRestartMax
  BY DEF CamerasInv, PipelinesTyped, C!pipelineRestartMin, C!pipelineRestartMax
<1>3. \A c \in C!Camera : tracks[c] \subseteq Viewer /\ subs[c] \subseteq Viewer
  BY DEF CamerasInv, SessionsTyped
<1>4. C!TypeOK
  BY <1>1, <1>2, <1>3, Zenon DEF CamerasInv, DeviceTyped, PipelinesTyped, SessionsTyped, C!TypeOK
<1> QED
  BY <1>4, Zenon DEF CamerasInv

\* Nothing of the sessions changes.
LEMMA SessionsKept ==
  ASSUME CamerasInv, UNCHANGED <<cam, built, running, tracks, subs, at, pc, early>>
  PROVE  SessionsTyped' /\ C!OnePipeline' /\ C!TracksAreLive' /\ \A v \in Viewer : SessionOK(v)'
BY Zenon DEF CamerasInv, SessionsTyped, C!OnePipeline, C!TracksAreLive, SessionOK

\* The device, and supervise.
LEMMA PipelineStep ==
  ASSUME CamerasInv,
         \/ C!Plug \/ C!Discover
         \/ \E c \in C!Camera : C!PipelineStart(c) \/ C!Backoff(c) \/ \E b \in BOOLEAN : C!PipelineExit(c, b)
  PROVE  CamerasInv'
<1>0. DeviceTyped /\ PipelinesTyped
  BY DEF CamerasInv
<1>1. UNCHANGED <<cam, built, running, tracks, subs, at, pc, early>>
  BY Zenon DEF C!Plug, C!Discover, C!PipelineStart, C!Backoff, C!PipelineExit
<1>2. plugged' \in BOOLEAN
  BY <1>0, Zenon DEF C!Plug, C!Discover, C!PipelineStart, C!Backoff, C!PipelineExit, DeviceTyped
<1>3. scan' \in {"none", "there", "missing"}
  BY <1>0, Zenon DEF C!Plug, C!Discover, C!PipelineStart, C!Backoff, C!PipelineExit, DeviceTyped
<1>4. DeviceTyped'
  BY <1>0, <1>1, <1>2, <1>3, Zenon DEF DeviceTyped
<1>5. PipelinesTyped'
  <2>1. CASE C!Plug \/ C!Discover
    BY <1>0, <2>1, Zenon DEF C!Plug, C!Discover, PipelinesTyped
  <2>2. ASSUME NEW c \in C!Camera, C!PipelineStart(c) PROVE PipelinesTyped'
    <3>1. backoff' = backoff /\ \E a \in {"run", "wait", "done"} : sup' = [sup EXCEPT ![c] = a]
      BY <2>2, Zenon DEF C!PipelineStart, C!Ends
    <3> QED
      BY <1>0, <3>1 DEF PipelinesTyped
  <2>3. ASSUME NEW c \in C!Camera, NEW b \in BOOLEAN, C!PipelineExit(c, b) PROVE PipelinesTyped'
    <3>1. /\ backoff' = backoff \/ backoff' = [backoff EXCEPT ![c] = 1]
          /\ \E a \in {"wait", "done"} : sup' = [sup EXCEPT ![c] = a]
      BY <2>3, Zenon DEF C!PipelineExit, C!Ends, C!pipelineRestartMin
    <3> QED
      BY <1>0, <3>1 DEF PipelinesTyped
  <2>4. ASSUME NEW c \in C!Camera, C!Backoff(c) PROVE PipelinesTyped'
    <3>1. /\ backoff' = backoff \/ backoff' = [backoff EXCEPT ![c] = IF 2 * @ < 15 THEN 2 * @ ELSE 15]
          /\ \E a \in {"start", "done"} : sup' = [sup EXCEPT ![c] = a]
      BY <2>4, Zenon DEF C!Backoff, C!Ends, C!pipelineRestartMax
    <3> QED
      BY <1>0, <3>1 DEF PipelinesTyped
  <2> QED
    BY <2>1, <2>2, <2>3, <2>4, Zenon
<1> QED
  BY <1>1, <1>4, <1>5, SessionsKept, Zenon DEF CamerasInv

\* How far NewSubscriber is with a viewer.
LEMMA GoesDoes ==
  ASSUME SessionsTyped, NEW v \in Viewer, NEW step \in Steps, C!Goes(v, step)
  PROVE  /\ at' \in [Viewer -> [cam : 0 .. MaxCam, pc : Steps]]
         /\ at'[v].pc = step /\ at'[v].cam = at[v].cam
         /\ \A x \in Viewer : x # v => at'[x] = at[x]
BY DEF SessionsTyped, C!Goes

\* The camera of an offer under way is one of those made.
LEMMA OfferHasCamera ==
  ASSUME CamerasInv, NEW v \in Viewer, at[v].pc # "idle"
  PROVE  at[v].cam \in C!Camera
<1>1. at[v].cam # 0 /\ at[v].cam \in 0 .. MaxCam
  BY DEF CamerasInv, SessionOK, SessionsTyped
<1> QED
  BY <1>1, DashboardAssumption DEF C!Camera

\* The listed camera is one of those made.
LEMMA ListedIsCamera ==
  ASSUME CamerasInv, cam # 0
  PROVE  cam \in C!Camera
BY DashboardAssumption DEF CamerasInv, DeviceTyped, C!Camera

\* The sessions change, the device and the pipelines do not.
LEMMA DeviceKept ==
  ASSUME CamerasInv, UNCHANGED <<plugged, scan, cam, built, running, sup, backoff>>
  PROVE  DeviceTyped' /\ PipelinesTyped' /\ C!OnePipeline'
BY Zenon DEF CamerasInv, DeviceTyped, PipelinesTyped, C!OnePipeline

\* What TracksAreLive says of one viewer.
TrackIsLive(v) ==
  cam # 0 /\ v \in tracks[cam] =>
    at[v].pc \in {"track", "sub"} \/ (v \in subs[cam] /\ (pc[v] = "open" \/ at[v].pc = "watch"))

\* A viewer of which nothing changes, except that the listed camera stays.
LEMMA ViewerKept ==
  ASSUME CamerasInv, NEW v \in Viewer, UNCHANGED <<cam, built>>, at'[v] = at[v], pc'[v] = pc[v],
         \A c \in C!Camera : (v \in tracks'[c] <=> v \in tracks[c]) /\ (v \in subs'[c] <=> v \in subs[c])
  PROVE  SessionOK(v)' /\ TrackIsLive(v)'
<1>1. SessionOK(v) /\ TrackIsLive(v)
  BY Zenon DEF CamerasInv, C!TracksAreLive, TrackIsLive
<1>2. cam # 0 => cam \in C!Camera
  BY ListedIsCamera
<1> QED
  BY <1>1, <1>2, Zenon DEF SessionOK, TrackIsLive

\* Manager.reconcile: a new object has no viewer yet, a stopped one no subscriber.
LEMMA ReconcileStep ==
  ASSUME CamerasInv, C!Reconcile
  PROVE  CamerasInv'
<1>0. DeviceTyped /\ PipelinesTyped /\ SessionsTyped
  BY DEF CamerasInv
<1>1. CASE cam = 0 /\ C!StartCamera
  <2> DEFINE n == built + 1
  <2>1. /\ n \in C!Camera /\ n # 0 /\ built < n /\ built' = n /\ cam' = n /\ built' \in 0 .. MaxCam
        /\ cam' \in 0 .. built'
    BY <1>0, <1>1, DashboardAssumption DEF DeviceTyped, C!StartCamera, C!Camera
  <2>2. /\ running' = running \cup {n} /\ sup' = [sup EXCEPT ![n] = "start"]
        /\ UNCHANGED <<backoff, tracks, subs, pc, plugged, at, early>> /\ scan' = "none"
    BY <1>1, Zenon DEF C!StartCamera, C!Reconcile
  <2>3. running = {}
    BY <1>1, Zenon DEF CamerasInv, C!OnePipeline
  <2>4. DeviceTyped'
    <3>1. running' \subseteq C!Camera
      BY <2>1, <2>2, <2>3, Zenon
    <3> QED
      BY <1>0, <2>1, <2>2, <3>1, Zenon DEF DeviceTyped
  <2>5. PipelinesTyped' /\ SessionsTyped'
    BY <1>0, <2>1, <2>2 DEF PipelinesTyped, SessionsTyped
  <2>6. C!OnePipeline'
    BY <2>1, <2>2, <2>3, Zenon DEF C!OnePipeline
  <2>7. ASSUME NEW v \in Viewer PROVE SessionOK(v)' /\ v \notin tracks[n]
    <3>1. SessionOK(v) /\ at[v].cam \in 0 .. MaxCam
      BY <1>0 DEF CamerasInv, SessionsTyped
    <3>2. at[v].cam # n /\ at[v].cam <= built'
      BY <1>0, <2>1, <3>1 DEF SessionOK, DeviceTyped
    <3> QED
      BY <2>1, <2>2, <3>1, <3>2, Zenon DEF SessionOK
  <2>8. C!TracksAreLive'
    BY <2>1, <2>2, <2>7, Zenon DEF C!TracksAreLive
  <2> QED
    BY <2>4, <2>5, <2>6, <2>7, <2>8, Zenon DEF CamerasInv
<1>2. CASE cam # 0 /\ C!StopCamera
  <2>1. cam \in C!Camera
    BY <1>2, ListedIsCamera
  <2>2. /\ cam' = 0 /\ running' = running \ {cam} /\ subs' = [subs EXCEPT ![cam] = {}]
        /\ pc' = [v \in Viewer |-> IF v \in subs[cam] THEN "closed" ELSE pc[v]]
        /\ UNCHANGED <<built, sup, backoff, tracks, plugged, at, early>> /\ scan' = "none"
    BY <1>2, Zenon DEF C!StopCamera, C!Reconcile
  <2>3. running' = {}
    BY <1>2, <2>2 DEF CamerasInv, C!OnePipeline
  <2>4. cam' \in 0 .. built'
    BY <1>0, <2>2 DEF DeviceTyped
  <2>5. DeviceTyped'
    BY <1>0, <2>2, <2>3, <2>4, Zenon DEF DeviceTyped
  <2>6. PipelinesTyped' /\ SessionsTyped'
    BY <1>0, <2>1, <2>2 DEF PipelinesTyped, SessionsTyped
  <2>7. C!OnePipeline' /\ C!TracksAreLive'
    BY <2>2, <2>3, Zenon DEF C!OnePipeline, C!TracksAreLive
  <2>8. \A c \in C!Camera : subs'[c] \subseteq subs[c]
    BY <1>0, <2>1, <2>2 DEF SessionsTyped
  <2>9. \A v \in Viewer : SessionOK(v)'
    BY <2>2, <2>8, Zenon DEF CamerasInv, SessionOK
  <2> QED
    BY <2>5, <2>6, <2>7, <2>9, Zenon DEF CamerasInv
<1>3. CASE UNCHANGED <<cam, built, running, sup, backoff, tracks, subs, pc>>
  <2>1. UNCHANGED <<plugged, at, early>> /\ scan' = "none"
    BY Zenon DEF C!Reconcile
  <2>2. DeviceTyped' /\ PipelinesTyped'
    BY <1>0, <1>3, <2>1, Zenon DEF DeviceTyped, PipelinesTyped
  <2> QED
    BY <1>3, <2>1, <2>2, SessionsKept, Zenon DEF CamerasInv
<1> QED
  BY <1>1, <1>2, <1>3, Zenon DEF C!Reconcile

\* A step of one viewer keeps the invariant, if it leaves the others alone and does
\* well by its own.
LEMMA OneViewer ==
  ASSUME CamerasInv, NEW v \in Viewer, UNCHANGED <<plugged, scan, cam, built, running, sup, backoff>>,
         SessionsTyped', SessionOK(v)', TrackIsLive(v)',
         \A x \in Viewer : x # v =>
           /\ at'[x] = at[x] /\ pc'[x] = pc[x]
           /\ \A c \in C!Camera : (x \in tracks'[c] <=> x \in tracks[c]) /\ (x \in subs'[c] <=> x \in subs[c])
  PROVE  CamerasInv'
<1>1. \A x \in Viewer : SessionOK(x)' /\ TrackIsLive(x)'
  BY ViewerKept, Zenon
<1>2. C!TracksAreLive'
  BY <1>1, Zenon DEF C!TracksAreLive, TrackIsLive
<1> QED
  BY <1>1, <1>2, DeviceKept, Zenon DEF CamerasInv

\* NewSubscriber, up to the callback.
LEMMA OfferStep ==
  ASSUME CamerasInv, NEW v \in Viewer, C!Offer(v)
  PROVE  CamerasInv'
<1>0. SessionsTyped /\ SessionOK(v) /\ cam \in C!Camera /\ cam <= built /\ cam \in 0 .. MaxCam
  BY ListedIsCamera, DashboardAssumption DEF CamerasInv, DeviceTyped, C!Offer, C!Camera
<1>1. /\ at[v].pc = "idle" /\ cam # 0
      /\ at' = [at EXCEPT ![v] = [cam |-> cam, pc |-> "gather"]] /\ pc' = [pc EXCEPT ![v] = "open"]
      /\ UNCHANGED <<plugged, scan, cam, built, running, sup, backoff, tracks, subs, early>>
  BY DEF C!Offer, C!Idle
<1>2. \A c \in C!Camera : v \notin tracks[c] /\ v \notin subs[c]
  BY <1>0, <1>1, Zenon DEF SessionOK
<1>3. SessionsTyped'
  BY <1>0, <1>1 DEF SessionsTyped, Steps
<1>4. at'[v].cam = cam /\ at'[v].pc = "gather"
  BY <1>0, <1>1 DEF SessionsTyped
<1>5. SessionOK(v)' /\ TrackIsLive(v)'
  BY <1>0, <1>1, <1>2, <1>4 DEF SessionOK, TrackIsLive
<1>6. \A x \in Viewer : x # v => at'[x] = at[x] /\ pc'[x] = pc[x]
  BY <1>0, <1>1 DEF SessionsTyped
<1> QED
  BY <1>1, <1>3, <1>5, <1>6, OneViewer, Zenon

LEMMA AddTrackStep ==
  ASSUME CamerasInv, NEW v \in Viewer, C!AddTrack(v)
  PROVE  CamerasInv'
<1>0. SessionsTyped /\ SessionOK(v)
  BY DEF CamerasInv
<1>1. /\ at[v].pc = "gather" /\ C!Goes(v, "track") /\ "track" \in Steps
      /\ tracks' = [tracks EXCEPT ![at[v].cam] = @ \cup {v}]
      /\ UNCHANGED <<plugged, scan, cam, built, running, sup, backoff, subs, pc, early>>
  BY Zenon DEF C!AddTrack, Steps
<1>2. at[v].cam \in C!Camera
  BY <1>1, OfferHasCamera
<1>3. /\ at' \in [Viewer -> [cam : 0 .. MaxCam, pc : Steps]]
      /\ at'[v].pc = "track" /\ at'[v].cam = at[v].cam /\ \A x \in Viewer : x # v => at'[x] = at[x]
  BY <1>0, <1>1, GoesDoes, Zenon
<1>4. /\ \A c \in C!Camera : tracks'[c] \in SUBSET Viewer /\ (v \in tracks'[c] => c = at[v].cam)
      /\ \A x \in Viewer : x # v => \A c \in C!Camera : x \in tracks'[c] <=> x \in tracks[c]
      /\ tracks' \in [C!Camera -> SUBSET Viewer]
  BY <1>0, <1>1, <1>2 DEF SessionsTyped, SessionOK
<1>5. SessionsTyped'
  BY <1>0, <1>1, <1>3, <1>4, Zenon DEF SessionsTyped
<1>6. SessionOK(v)' /\ TrackIsLive(v)'
  BY <1>0, <1>1, <1>3, <1>4 DEF SessionOK, TrackIsLive
<1> QED
  BY <1>1, <1>3, <1>4, <1>5, <1>6, OneViewer, Zenon

LEMMA AddSubscriberStep ==
  ASSUME CamerasInv, NEW v \in Viewer, C!AddSubscriber(v)
  PROVE  CamerasInv'
<1>0. SessionsTyped /\ SessionOK(v)
  BY DEF CamerasInv
<1>1. /\ at[v].pc = "track" /\ C!Goes(v, "sub") /\ "sub" \in Steps
      /\ subs' = [subs EXCEPT ![at[v].cam] = @ \cup {v}]
      /\ UNCHANGED <<plugged, scan, cam, built, running, sup, backoff, tracks, pc, early>>
  BY Zenon DEF C!AddSubscriber, Steps
<1>2. at[v].cam \in C!Camera
  BY <1>1, OfferHasCamera
<1>3. /\ at' \in [Viewer -> [cam : 0 .. MaxCam, pc : Steps]]
      /\ at'[v].pc = "sub" /\ at'[v].cam = at[v].cam /\ \A x \in Viewer : x # v => at'[x] = at[x]
  BY <1>0, <1>1, GoesDoes, Zenon
<1>4. /\ \A c \in C!Camera : v \in subs'[c] <=> c = at[v].cam
      /\ \A x \in Viewer : x # v => \A c \in C!Camera : x \in subs'[c] <=> x \in subs[c]
      /\ subs' \in [C!Camera -> SUBSET Viewer]
  BY <1>0, <1>1, <1>2 DEF SessionsTyped, SessionOK
<1>5. SessionsTyped'
  BY <1>0, <1>1, <1>3, <1>4, Zenon DEF SessionsTyped
<1>6. SessionOK(v)' /\ TrackIsLive(v)'
  BY <1>0, <1>1, <1>2, <1>3, <1>4 DEF SessionOK, TrackIsLive
<1> QED
  BY <1>1, <1>3, <1>4, <1>5, <1>6, OneViewer, Zenon

LEMMA WatchStep ==
  ASSUME CamerasInv, NEW v \in Viewer, C!Watch(v)
  PROVE  CamerasInv'
<1>0. SessionsTyped /\ SessionOK(v)
  BY DEF CamerasInv
<1>1. /\ at[v].pc = "sub" /\ C!Goes(v, "watch") /\ "watch" \in Steps
      /\ early' \subseteq Viewer
      /\ UNCHANGED <<plugged, scan, cam, built, running, sup, backoff, tracks, subs, pc>>
  BY <1>0 DEF C!Watch, Steps, SessionsTyped
<1>3. /\ at' \in [Viewer -> [cam : 0 .. MaxCam, pc : Steps]]
      /\ at'[v].pc = "watch" /\ at'[v].cam = at[v].cam /\ \A x \in Viewer : x # v => at'[x] = at[x]
  BY <1>0, <1>1, GoesDoes, Zenon
<1>5. SessionsTyped'
  BY <1>0, <1>1, <1>3, Zenon DEF SessionsTyped
<1>6. SessionOK(v)' /\ TrackIsLive(v)'
  BY <1>0, <1>1, <1>3, ListedIsCamera DEF SessionOK, TrackIsLive
<1> QED
  BY <1>1, <1>3, <1>5, <1>6, OneViewer, Zenon

\* The connection fails: a subscriber's callback is due, or will be when it is there.
LEMMA FailsStep ==
  ASSUME CamerasInv, NEW v \in Viewer, C!Fails(v)
  PROVE  CamerasInv'
<1>0. SessionsTyped /\ SessionOK(v) /\ TrackIsLive(v)
  BY Zenon DEF CamerasInv, C!TracksAreLive, TrackIsLive
<1>1. /\ pc' = [pc EXCEPT ![v] = "failed"]
      /\ UNCHANGED <<plugged, scan, cam, built, running, sup, backoff, tracks, subs, at, early>>
  BY Zenon DEF C!Fails
<1>2. pc' \in [Viewer -> {"none", "open", "failed", "closed"}] /\ \A x \in Viewer : x # v => pc'[x] = pc[x]
  BY <1>0, <1>1 DEF SessionsTyped
<1>3. SessionsTyped'
  BY <1>0, <1>1, <1>2, Zenon DEF SessionsTyped
<1>4. SessionOK(v)' /\ TrackIsLive(v)'
  BY <1>0, <1>1, ListedIsCamera, Zenon DEF SessionOK, TrackIsLive
<1> QED
  BY <1>1, <1>2, <1>3, <1>4, OneViewer, Zenon

\* removeSubscriber takes the viewer off both lists, or the camera does not have it.
LEMMA RemoveDoes ==
  ASSUME SessionsTyped, NEW c \in C!Camera, NEW v \in Viewer, C!RemoveSubscriber(c, v)
  PROVE  /\ tracks' \in [C!Camera -> SUBSET Viewer] /\ subs' \in [C!Camera -> SUBSET Viewer]
         /\ pc' \in [Viewer -> {"none", "open", "failed", "closed"}]
         /\ v \notin subs'[c] /\ (v \in subs[c] => v \notin tracks'[c])
         /\ \A b \in C!Camera : subs'[b] \subseteq subs[b] /\ tracks'[b] \subseteq tracks[b]
         /\ \A b \in C!Camera : b # c => subs'[b] = subs[b] /\ tracks'[b] = tracks[b]
         /\ \A x \in Viewer : x # v =>
              /\ pc'[x] = pc[x]
              /\ \A b \in C!Camera : (x \in tracks'[b] <=> x \in tracks[b]) /\ (x \in subs'[b] <=> x \in subs[b])
<1>1. CASE v \in subs[c]
  BY <1>1 DEF SessionsTyped, C!RemoveSubscriber
<1>2. CASE v \notin subs[c]
  <2>1. tracks' = tracks /\ pc' = pc /\ subs' = subs
    BY <1>2 DEF SessionsTyped, C!RemoveSubscriber
  <2> QED
    BY <1>2, <2>1 DEF SessionsTyped
<1> QED
  BY <1>1, <1>2, Zenon

LEMMA StateChangedStep ==
  ASSUME CamerasInv, NEW v \in Viewer, C!StateChanged(v)
  PROVE  CamerasInv'
<1>0. SessionsTyped /\ SessionOK(v) /\ TrackIsLive(v)
  BY Zenon DEF CamerasInv, C!TracksAreLive, TrackIsLive
<1>1. /\ at[v].pc = "watch" /\ C!RemoveSubscriber(at[v].cam, v) /\ C!Goes(v, "ended") /\ "ended" \in Steps
      /\ UNCHANGED <<plugged, scan, cam, built, running, sup, backoff, early>>
  BY Zenon DEF C!StateChanged, Steps
<1>2. at[v].cam \in C!Camera
  BY <1>1, OfferHasCamera
<1>3. /\ at' \in [Viewer -> [cam : 0 .. MaxCam, pc : Steps]]
      /\ at'[v].pc = "ended" /\ at'[v].cam = at[v].cam /\ \A x \in Viewer : x # v => at'[x] = at[x]
  BY <1>0, <1>1, GoesDoes, Zenon
<1>4. PICK c \in C!Camera : c = at[v].cam
  BY <1>2
<1>5. C!RemoveSubscriber(c, v)
  BY <1>1, <1>4
<1>6. /\ tracks' \in [C!Camera -> SUBSET Viewer] /\ subs' \in [C!Camera -> SUBSET Viewer]
      /\ pc' \in [Viewer -> {"none", "open", "failed", "closed"}]
      /\ v \notin subs'[c] /\ (v \in subs[c] => v \notin tracks'[c])
      /\ \A b \in C!Camera : subs'[b] \subseteq subs[b] /\ tracks'[b] \subseteq tracks[b]
      /\ \A x \in Viewer : x # v =>
           /\ pc'[x] = pc[x]
           /\ \A b \in C!Camera : (x \in tracks'[b] <=> x \in tracks[b]) /\ (x \in subs'[b] <=> x \in subs[b])
  BY <1>0, <1>5, RemoveDoes, Zenon
<1>7. SessionsTyped'
  BY <1>0, <1>1, <1>3, <1>6, Zenon DEF SessionsTyped
<1>8. \A b \in C!Camera : v \notin subs'[b]
  BY <1>0, <1>4, <1>6, Zenon DEF SessionOK
<1>9. SessionOK(v)'
  BY <1>0, <1>1, <1>3, <1>6, <1>8 DEF SessionOK
<1>10. TrackIsLive(v)'
  <2> SUFFICES ASSUME cam # 0, v \in tracks'[cam] PROVE FALSE
    BY <1>1, Zenon DEF TrackIsLive
  <2>1. cam \in C!Camera /\ v \in tracks[cam]
    BY <1>6, ListedIsCamera
  <2>2. v \in subs[cam] /\ at[v].cam = cam
    BY <1>0, <1>1, <2>1 DEF TrackIsLive, SessionOK
  <2> QED
    BY <1>4, <1>6, <2>2
<1> QED
  BY <1>1, <1>3, <1>6, <1>7, <1>9, <1>10, OneViewer, Zenon

LEMMA DeleteSessionStep ==
  ASSUME CamerasInv, NEW v \in Viewer, C!DeleteSession(v)
  PROVE  CamerasInv'
<1>0. SessionsTyped /\ SessionOK(v) /\ TrackIsLive(v)
  BY Zenon DEF CamerasInv, C!TracksAreLive, TrackIsLive
<1>1. /\ at[v].pc = "watch" /\ cam # 0 /\ C!RemoveSubscriber(cam, v)
      /\ UNCHANGED <<plugged, scan, cam, built, running, sup, backoff, at, early>>
  BY Zenon DEF C!DeleteSession
<1>2. PICK c \in C!Camera : c = cam
  BY <1>1, ListedIsCamera
<1>3. C!RemoveSubscriber(c, v)
  BY <1>1, <1>2
<1>4. /\ tracks' \in [C!Camera -> SUBSET Viewer] /\ subs' \in [C!Camera -> SUBSET Viewer]
      /\ pc' \in [Viewer -> {"none", "open", "failed", "closed"}]
      /\ v \notin subs'[c] /\ (v \in subs[c] => v \notin tracks'[c])
      /\ \A b \in C!Camera : subs'[b] \subseteq subs[b] /\ tracks'[b] \subseteq tracks[b]
      /\ \A x \in Viewer : x # v =>
           /\ pc'[x] = pc[x]
           /\ \A b \in C!Camera : (x \in tracks'[b] <=> x \in tracks[b]) /\ (x \in subs'[b] <=> x \in subs[b])
  BY <1>0, <1>3, RemoveDoes, Zenon
<1>5. SessionsTyped'
  BY <1>0, <1>1, <1>4, Zenon DEF SessionsTyped
<1>6. SessionOK(v)'
  BY <1>0, <1>1, <1>4 DEF SessionOK
<1>7. v \notin tracks'[cam]
  BY <1>0, <1>1, <1>2, <1>4 DEF TrackIsLive
<1>8. TrackIsLive(v)'
  BY <1>1, <1>7, Zenon DEF TrackIsLive
<1> QED
  BY <1>1, <1>4, <1>5, <1>6, <1>8, OneViewer, Zenon

LEMMA CamerasStep ==
  ASSUME CamerasInv, C!Next
  PROVE  CamerasInv'
BY PipelineStep, ReconcileStep, OfferStep, AddTrackStep, AddSubscriberStep, WatchStep, FailsStep,
   StateChangedStep, DeleteSessionStep, Zenon DEF C!Next

-----------------------------------------------------------------------------
(* The websockets.                                                          *)

Message == Sub \X (1 .. MaxPub)

SocketTyped ==
  /\ side \in {"agent", "proxy"} /\ sock \in {"up", "down"}
  /\ broken \in BOOLEAN /\ done \in BOOLEAN /\ closed \in BOOLEAN /\ dead \in BOOLEAN /\ caught \in BOOLEAN

SubscriptionsTyped ==
  /\ live \in [Pattern -> Sub \cup {0}] /\ made \in Sub \cup {0} /\ published \in 0 .. MaxPub
  /\ queue \in [Sub -> Seq(1 .. MaxPub)] /\ hand \in [Sub -> 0 .. MaxPub] /\ seen \in [Sub -> 0 .. MaxPub]

ChannelTyped ==
  /\ out \in Seq(Message) /\ Len(out) <= Cap /\ (out # <<>> => side = "agent")
  /\ pen # <<>> => pen \in Message

\* When the channel is closed the subscriptions are gone, and only a callback that had a
\* message can still send.
ClosedOK ==
  /\ sock = "down" => (\A p \in Pattern : live[p] = 0) /\ \A s \in Sub : queue[s] = <<>>
  /\ closed => sock = "down"
  /\ closed /\ (\E s \in Sub : hand[s] # 0) => caught
  /\ dead => caught

GatewayInv == SocketTyped /\ SubscriptionsTyped /\ ChannelTyped /\ ClosedOK

LEMMA GatewayInit ==
  ASSUME G!Init
  PROVE  GatewayInv
<1>1. SocketTyped
  BY Zenon DEF G!Init, SocketTyped
<1>2. SubscriptionsTyped /\ ChannelTyped
  BY DashboardAssumption DEF G!Init, SubscriptionsTyped, ChannelTyped, G!None
<1>3. ClosedOK
  BY Zenon DEF G!Init, ClosedOK
<1> QED
  BY <1>1, <1>2, <1>3, Zenon DEF GatewayInv

LEMMA GatewayImplies ==
  ASSUME GatewayInv
  PROVE  G!TypeOK /\ G!SurvivesIdleClose
<1>1. {broken, done, closed, dead, caught} \subseteq BOOLEAN
  BY Zenon DEF GatewayInv, SocketTyped
<1> QED
  BY <1>1, Zenon
  DEF GatewayInv, SocketTyped, SubscriptionsTyped, ChannelTyped, ClosedOK, G!TypeOK, G!SurvivesIdleClose

\* The queue and the channel take a message at one end and give it at the other.
LEMMA Queues ==
  ASSUME NEW S, NEW q \in Seq(S)
  PROVE  /\ \A x \in S : Append(q, x) \in Seq(S) /\ Len(Append(q, x)) = Len(q) + 1 /\ Len(q) \in Nat
         /\ q # <<>> => Head(q) \in S /\ Tail(q) \in Seq(S) /\ Len(Tail(q)) = Len(q) - 1
OBVIOUS

\* The client's requests "sub" and "unsub", and a message published.
LEMMA SubscribeStep ==
  ASSUME GatewayInv, NEW p \in Pattern, G!Subscribe(p)
  PROVE  GatewayInv'
<1>0. SocketTyped /\ SubscriptionsTyped /\ ChannelTyped /\ ClosedOK
  BY DEF GatewayInv
<1>1. SocketTyped' /\ ChannelTyped'
  BY <1>0, Zenon DEF G!Subscribe, SocketTyped, ChannelTyped
<1>2. SubscriptionsTyped'
  BY <1>0 DEF G!Subscribe, SubscriptionsTyped
<1>3. ClosedOK'
  BY <1>0, Zenon DEF G!Subscribe, ClosedOK
<1> QED
  BY <1>1, <1>2, <1>3, Zenon DEF GatewayInv

LEMMA UnsubscribeStep ==
  ASSUME GatewayInv, NEW p \in Pattern, G!Unsubscribe(p)
  PROVE  GatewayInv'
<1>0. SocketTyped /\ SubscriptionsTyped /\ ChannelTyped /\ ClosedOK
  BY DEF GatewayInv
<1>1. SocketTyped' /\ ChannelTyped'
  BY <1>0, Zenon DEF G!Unsubscribe, SocketTyped, ChannelTyped
<1>2. SubscriptionsTyped'
  BY <1>0 DEF G!Unsubscribe, SubscriptionsTyped
<1>3. ClosedOK'
  BY <1>0, Zenon DEF G!Unsubscribe, ClosedOK
<1> QED
  BY <1>1, <1>2, <1>3, Zenon DEF GatewayInv

LEMMA GatewayPublishStep ==
  ASSUME GatewayInv, G!Publish
  PROVE  GatewayInv'
<1>0. SocketTyped /\ SubscriptionsTyped /\ ChannelTyped /\ ClosedOK
  BY DEF GatewayInv
<1>1. SocketTyped' /\ ChannelTyped'
  BY <1>0, Zenon DEF G!Publish, SocketTyped, ChannelTyped
<1>2. published' \in 1 .. MaxPub /\ published' \in 0 .. MaxPub
  BY <1>0, DashboardAssumption DEF G!Publish, SubscriptionsTyped
<1>3. ASSUME NEW s \in Sub PROVE Append(queue[s], published') \in Seq(1 .. MaxPub) /\ queue[s] \in Seq(1 .. MaxPub)
  BY <1>0, <1>2, Queues DEF SubscriptionsTyped
<1>4. queue' \in [Sub -> Seq(1 .. MaxPub)]
  BY <1>3 DEF G!Publish
<1>5. SubscriptionsTyped'
  BY <1>0, <1>2, <1>4, Zenon DEF G!Publish, SubscriptionsTyped
<1>6. sock = "down" => \A s \in Sub : queue'[s] = <<>>
  BY <1>0 DEF G!Publish, ClosedOK, G!Live
<1>7. ClosedOK'
  BY <1>0, <1>6, Zenon DEF G!Publish, ClosedOK
<1> QED
  BY <1>1, <1>5, <1>7, Zenon DEF GatewayInv

\* A callback takes a message, and hands it on or drops it.
LEMMA TakeStep ==
  ASSUME GatewayInv, NEW s \in Sub, G!Take(s)
  PROVE  GatewayInv'
<1>0. SocketTyped /\ SubscriptionsTyped /\ ChannelTyped /\ ClosedOK
  BY DEF GatewayInv
<1>1. SocketTyped' /\ ChannelTyped'
  BY <1>0, Zenon DEF G!Take, SocketTyped, ChannelTyped
<1>2. SubscriptionsTyped'
  <2>1. queue[s] \in Seq(1 .. MaxPub) /\ queue[s] # <<>>
    BY <1>0 DEF G!Take, SubscriptionsTyped
  <2>2. Head(queue[s]) \in 1 .. MaxPub /\ Tail(queue[s]) \in Seq(1 .. MaxPub)
    BY <2>1, Queues, Zenon
  <2>3. hand' \in [Sub -> 0 .. MaxPub] /\ queue' \in [Sub -> Seq(1 .. MaxPub)]
    BY <1>0, <2>2 DEF G!Take, SubscriptionsTyped
  <2> QED
    BY <1>0, <2>3, Zenon DEF G!Take, SubscriptionsTyped
<1>3. ClosedOK'
  <2>1. sock # "down" /\ ~closed
    BY <1>0, Zenon DEF G!Take, ClosedOK
  <2> QED
    BY <1>0, <2>1, Zenon DEF G!Take, ClosedOK
<1> QED
  BY <1>1, <1>2, <1>3, Zenon DEF GatewayInv

LEMMA SendStep ==
  ASSUME GatewayInv, NEW s \in Sub, G!Send(s)
  PROVE  GatewayInv'
<1>0. SocketTyped /\ SubscriptionsTyped /\ ChannelTyped /\ ClosedOK
  BY DEF GatewayInv
<1>1. SocketTyped'
  BY <1>0, Zenon DEF G!Send, SocketTyped
<1>2. SubscriptionsTyped' /\ ChannelTyped'
  <2>1. <<s, hand[s]>> \in Message
    BY <1>0 DEF G!Send, SubscriptionsTyped, Message
  <2>2. out' \in Seq(Message) /\ Len(out') <= Cap
    BY <1>0, <2>1, Queues, DashboardAssumption DEF G!Send, ChannelTyped
  <2>3. ChannelTyped'
    BY <1>0, <2>2, Zenon DEF G!Send, ChannelTyped
  <2>4. SubscriptionsTyped'
    BY <1>0, DashboardAssumption DEF G!Send, SubscriptionsTyped
  <2> QED
    BY <2>3, <2>4
<1>3. ClosedOK'
  BY <1>0, Zenon DEF G!Send, ClosedOK
<1> QED
  BY <1>1, <1>2, <1>3, Zenon DEF GatewayInv

LEMMA GiveUpStep ==
  ASSUME GatewayInv, NEW s \in Sub, G!GiveUp(s)
  PROVE  GatewayInv'
<1>0. SocketTyped /\ SubscriptionsTyped /\ ChannelTyped /\ ClosedOK
  BY DEF GatewayInv
<1>1. SocketTyped' /\ ChannelTyped'
  BY <1>0, Zenon DEF G!GiveUp, SocketTyped, ChannelTyped
<1>2. SubscriptionsTyped'
  BY <1>0, DashboardAssumption DEF G!GiveUp, SubscriptionsTyped
<1>3. ClosedOK'
  <2>1. \A x \in Sub : hand'[x] # 0 => hand[x] # 0
    BY <1>0 DEF G!GiveUp, SubscriptionsTyped
  <2> QED
    BY <1>0, <2>1, Zenon DEF G!GiveUp, ClosedOK
<1> QED
  BY <1>1, <1>2, <1>3, Zenon DEF GatewayInv

\* A send on the closed channel: the callback had its message when it was closed.
LEMMA PanicStep ==
  ASSUME GatewayInv, NEW s \in Sub, G!Panic(s)
  PROVE  GatewayInv'
<1>0. SocketTyped /\ SubscriptionsTyped /\ ChannelTyped /\ ClosedOK
  BY DEF GatewayInv
<1>1. SocketTyped'
  BY <1>0, Zenon DEF G!Panic, SocketTyped
<1>2. SubscriptionsTyped' /\ ChannelTyped'
  BY <1>0, DashboardAssumption DEF G!Panic, SubscriptionsTyped, ChannelTyped, G!None
<1>3. ClosedOK'
  <2>1. caught' /\ (\A x \in Sub : queue'[x] = <<>>) /\ UNCHANGED <<live, sock, closed>>
    BY <1>0, Zenon DEF G!Panic, ClosedOK
  <2> QED
    BY <1>0, <2>1, Zenon DEF ClosedOK
<1> QED
  BY <1>1, <1>2, <1>3, Zenon DEF GatewayInv

\* The writer goroutine of the agent, and the holder of the proxy's mutex.
LEMMA WriterTakesStep ==
  ASSUME GatewayInv, G!WriterTakes
  PROVE  GatewayInv'
<1>0. SocketTyped /\ SubscriptionsTyped /\ ChannelTyped /\ ClosedOK
  BY DEF GatewayInv
<1>1. SocketTyped' /\ SubscriptionsTyped'
  BY <1>0, Zenon DEF G!WriterTakes, SocketTyped, SubscriptionsTyped
<1>2. ChannelTyped'
  <2>1. out \in Seq(Message) /\ out # <<>> /\ Len(out) \in Nat /\ Len(out) <= Cap
    BY <1>0 DEF G!WriterTakes, ChannelTyped
  <2>2. Head(out) \in Message /\ Tail(out) \in Seq(Message) /\ Len(Tail(out)) <= Cap
    BY <2>1, Queues, DashboardAssumption
  <2> QED
    BY <1>0, <2>2, Zenon DEF G!WriterTakes, ChannelTyped
<1>3. ClosedOK'
  BY <1>0, Zenon DEF G!WriterTakes, ClosedOK
<1> QED
  BY <1>1, <1>2, <1>3, Zenon DEF GatewayInv

LEMMA WriterWritesStep ==
  ASSUME GatewayInv, G!WriterWrites
  PROVE  GatewayInv'
<1>0. SocketTyped /\ SubscriptionsTyped /\ ChannelTyped /\ ClosedOK
  BY DEF GatewayInv
<1>1. SocketTyped'
  BY <1>0, Zenon DEF G!WriterWrites, SocketTyped
<1>2. SubscriptionsTyped' /\ ChannelTyped'
  <2>1. pen \in Message /\ pen[1] \in Sub /\ pen[2] \in 0 .. MaxPub
    BY <1>0 DEF G!WriterWrites, ChannelTyped, G!None, Message
  <2>2. seen' \in [Sub -> 0 .. MaxPub]
    BY <1>0, <2>1 DEF G!WriterWrites, SubscriptionsTyped
  <2>3. SubscriptionsTyped'
    BY <1>0, <2>2, Zenon DEF G!WriterWrites, SubscriptionsTyped
  <2>4. <<>> \in Seq(Message) /\ Len(<<>>) <= Cap
    BY DashboardAssumption
  <2>5. pen' = <<>> /\ side' = side /\ (out' = out \/ out' = <<>>)
    BY Zenon DEF G!WriterWrites, G!None
  <2>6. ChannelTyped'
    BY <1>0, <2>4, <2>5, Zenon DEF ChannelTyped
  <2> QED
    BY <2>3, <2>6
<1>3. ClosedOK'
  BY <1>0, Zenon DEF G!WriterWrites, ClosedOK
<1> QED
  BY <1>1, <1>2, <1>3, Zenon DEF GatewayInv

LEMMA LockStep ==
  ASSUME GatewayInv, NEW s \in Sub, G!Lock(s)
  PROVE  GatewayInv'
<1>0. SocketTyped /\ SubscriptionsTyped /\ ChannelTyped /\ ClosedOK
  BY DEF GatewayInv
<1>1. SocketTyped' /\ SubscriptionsTyped'
  BY <1>0, Zenon DEF G!Lock, SocketTyped, SubscriptionsTyped
<1>2. ChannelTyped'
  BY <1>0 DEF G!Lock, ChannelTyped, SubscriptionsTyped, Message
<1>3. ClosedOK'
  BY <1>0, Zenon DEF G!Lock, ClosedOK
<1> QED
  BY <1>1, <1>2, <1>3, Zenon DEF GatewayInv

LEMMA WriteUnlockStep ==
  ASSUME GatewayInv, G!WriteUnlock
  PROVE  GatewayInv'
<1>0. SocketTyped /\ SubscriptionsTyped /\ ChannelTyped /\ ClosedOK
  BY DEF GatewayInv
<1>1. SocketTyped' /\ ChannelTyped'
  BY <1>0, Zenon DEF G!WriteUnlock, SocketTyped, ChannelTyped, G!None
<1>2. SubscriptionsTyped'
  <2>1. pen \in Message /\ pen[1] \in Sub /\ pen[2] \in 0 .. MaxPub
    BY <1>0 DEF G!WriteUnlock, ChannelTyped, G!None, Message
  <2>2. seen' \in [Sub -> 0 .. MaxPub] /\ hand' \in [Sub -> 0 .. MaxPub]
    BY <1>0, <2>1, DashboardAssumption DEF G!WriteUnlock, SubscriptionsTyped
  <2> QED
    BY <1>0, <2>2, Zenon DEF G!WriteUnlock, SubscriptionsTyped
<1>3. ClosedOK'
  <2>1. \A x \in Sub : hand'[x] # 0 => hand[x] # 0
    BY <1>0 DEF G!WriteUnlock, SubscriptionsTyped
  <2> QED
    BY <1>0, <2>1, Zenon DEF G!WriteUnlock, ClosedOK
<1> QED
  BY <1>1, <1>2, <1>3, Zenon DEF GatewayInv

\* The client leaves, and the handler returns.
LEMMA CloseStep ==
  ASSUME GatewayInv, G!Breaks \/ G!Close
  PROVE  GatewayInv'
<1>0. SocketTyped /\ SubscriptionsTyped /\ ChannelTyped /\ ClosedOK
  BY DEF GatewayInv
<1>1. SocketTyped'
  BY <1>0, Zenon DEF G!Breaks, G!Close, SocketTyped
<1>2. SubscriptionsTyped' /\ ChannelTyped'
  <2>1. CASE G!Breaks
    BY <1>0, <2>1, Zenon DEF G!Breaks, SubscriptionsTyped, ChannelTyped
  <2>2. CASE G!Close
    <3>1. live' \in [Pattern -> Sub \cup {0}] /\ queue' \in [Sub -> Seq(1 .. MaxPub)]
      BY <2>2 DEF G!Close
    <3> QED
      BY <1>0, <2>2, <3>1, Zenon DEF G!Close, SubscriptionsTyped, ChannelTyped
  <2> QED
    BY <2>1, <2>2
<1>3. ClosedOK'
  <2>1. CASE G!Breaks
    BY <1>0, <2>1, Zenon DEF G!Breaks, ClosedOK
  <2>2. CASE G!Close
    <3>1. (\A p \in Pattern : live'[p] = 0) /\ \A s \in Sub : queue'[s] = <<>>
      BY <2>2, Zenon DEF G!Close
    <3>2. ~dead' /\ sock' = "down" /\ hand' = hand
      BY <2>2, Zenon DEF G!Close
    <3>3. closed' /\ (\E s \in Sub : hand[s] # 0) => caught'
      BY <2>2, Zenon DEF G!Close
    <3> QED
      BY <3>1, <3>2, <3>3, Zenon DEF ClosedOK
  <2> QED
    BY <2>1, <2>2
<1> QED
  BY <1>1, <1>2, <1>3, Zenon DEF GatewayInv

LEMMA GatewayStep ==
  ASSUME GatewayInv, G!Next
  PROVE  GatewayInv'
BY SubscribeStep, UnsubscribeStep, GatewayPublishStep, TakeStep, SendStep, GiveUpStep, PanicStep,
   WriterTakesStep, WriterWritesStep, LockStep, WriteUnlockStep, CloseStep, Zenon DEF G!Next

-----------------------------------------------------------------------------
(* The dashboard.                                                           *)

\* A step of one part leaves the others as they are.
LEMMA Kept ==
  /\ GatewayInv /\ UNCHANGED gateway => GatewayInv'
  /\ CamerasInv /\ UNCHANGED cameras => CamerasInv'
  /\ HealthInv /\ UNCHANGED modules => HealthInv'
  /\ AlertsInv /\ UNCHANGED alerts => AlertsInv'
<1>1. GatewayInv /\ UNCHANGED gateway => GatewayInv'
  <2> SUFFICES ASSUME GatewayInv, UNCHANGED gateway PROVE GatewayInv'
    OBVIOUS
  <2>1. SocketTyped' /\ SubscriptionsTyped'
    BY Zenon DEF gateway, GatewayInv, SocketTyped, SubscriptionsTyped
  <2>2. ChannelTyped' /\ ClosedOK'
    BY Zenon DEF gateway, GatewayInv, ChannelTyped, ClosedOK
  <2> QED
    BY <2>1, <2>2 DEF GatewayInv
<1>2. CamerasInv /\ UNCHANGED cameras => CamerasInv'
  <2> SUFFICES ASSUME CamerasInv, UNCHANGED cameras PROVE CamerasInv'
    OBVIOUS
  <2>1. UNCHANGED <<cam, built, running, tracks, subs, at, pc, early>>
    BY Zenon DEF cameras
  <2>2. UNCHANGED <<plugged, scan, cam, built, running, sup, backoff>>
    BY Zenon DEF cameras
  <2> QED
    BY <2>1, <2>2, SessionsKept, DeviceKept, Zenon DEF CamerasInv
<1>3. HealthInv /\ UNCHANGED modules => HealthInv'
  <2> SUFFICES ASSUME HealthInv, UNCHANGED modules PROVE HealthInv'
    OBVIOUS
  <2>1. HealthTyped' /\ CountsTyped'
    BY Zenon DEF modules, HealthInv, HealthTyped, CountsTyped
  <2>2. H!NoLostChange'
    BY Zenon DEF modules, HealthInv, H!NoLostChange, H!BuildSnapshot, H!Listed
  <2>3. ReportsAgree'
    BY Zenon DEF modules, HealthInv, ReportsAgree
  <2> QED
    BY <2>1, <2>2, <2>3 DEF HealthInv
<1>4. AlertsInv /\ UNCHANGED alerts => AlertsInv'
  <2> SUFFICES ASSUME AlertsInv, UNCHANGED alerts PROVE AlertsInv'
    OBVIOUS
  <2>1. UNCHANGED <<row, inflight, request, seed, answer, tangled, apart>>
    BY Zenon DEF alerts
  <2>2. A!TypeOK'
    BY Zenon DEF alerts, AlertsInv, A!TypeOK
  <2> QED
    BY <2>1, <2>2, AlertsKept, Zenon DEF AlertsInv
<1> QED
  BY <1>1, <1>2, <1>3, <1>4, Zenon

\* Both gateways and the cameras, for any number of subscriptions, patterns, messages,
\* viewers and plugs of the device, and a channel of any size: closing a socket panics the
\* agent only if a callback had a message just then (close(out) in handleWS); at most one
\* Camera object is live and it is the listed one (reconcile); a camera in use writes
\* frames to no viewer that is gone (removeSubscriber).
THEOREM FeedsHoldCorrect == Spec => []FeedsHold
<1>1. Init => GatewayInv /\ CamerasInv
  BY GatewayInit, CamerasInit, Zenon DEF Init
<1>2. GatewayInv /\ CamerasInv /\ [Next]_vars => GatewayInv' /\ CamerasInv'
  BY GatewayStep, CamerasStep, Kept, Zenon DEF Next, vars, Gateway, Cameras, Health, Alerts
<1>3. GatewayInv /\ CamerasInv => FeedsHold
  BY GatewayImplies, CamerasImplies, Zenon DEF FeedsHold
<1> QED
  BY <1>1, <1>2, <1>3, PTL DEF Spec

\* The copies agree, for any number of pollers, faults, operators and events: no change of
\* the snapshot is lost and the publisher says what the watcher found unless two reports
\* crossed (SetHealth, signalChange, go h.OnChange); the mirror agrees with the rover's
\* store and a seeded dashboard with the proxy when nothing is under way, unless changes
\* crossed or reached one side only (mirror.go, local_subscriber.go, useAlerts.ts).
THEOREM CopiesAgreeCorrect == Spec => []CopiesAgree
<1>1. Init => HealthInv /\ AlertsInv
  BY HealthInit, AlertsInit, Zenon DEF Init
<1>2. HealthInv /\ AlertsInv /\ [Next]_vars => HealthInv' /\ AlertsInv'
  BY HealthStep, AlertsStep, Kept, Zenon DEF Next, vars, Gateway, Cameras, Health, Alerts
<1>3. HealthInv /\ AlertsInv => CopiesAgree
  BY HealthImplies, AlertsImplies, Zenon DEF CopiesAgree
<1> QED
  BY <1>1, <1>2, <1>3, PTL DEF Spec

=============================================================================
