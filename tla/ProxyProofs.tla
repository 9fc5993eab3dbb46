----------------------------- MODULE ProxyProofs -----------------------------
(***************************************************************************)
(* Proofs about the proxy: its rovers, for any number of rovers, requests, *)
(* enrolments, deletions and restarts.  The parts of the invariant that    *)
(* FleetSteps leaves, that every step of Fleet is one of its Steps, and    *)
(* the theorem.                                                            *)
(***************************************************************************)
EXTENDS MCProxy, FleetSteps, TLAPS

(* The imports of the sessions account. *)

\* A step that leaves a row and its imports alone.
LEMMA ImportsKept ==
  ASSUME NEW q \in Rover, Imports(q), row'[q] = row[q], crossed[q] => crossed'[q], failed[q] => failed'[q],
         imports' = imports,
         \A j \in Handler : h[j].rover = q /\ h[j].pc \in {"list", "refresh"} =>
                              h'[j].rover = q /\ h'[j].pc \in {"list", "refresh"}
  PROVE  Imports(q)'
BY SMTT(30) DEF Imports

\* A row is imported, or a request that lists the table is on its way.
LEMMA ImportStep ==
  ASSUME FleetType, ImportInv, Steps
  PROVE  ImportInv'
<1>1. ASSUME NEW i \in Handler, NEW r \in Rover, EnrollDoes(i, r) PROVE ImportInv'
  <2>1. ASSUME NEW k \in Handler PROVE Lists(k)'
    BY <1>1 DEF EnrollDoes, Becomes, ImportInv, Lists
  <2>2. ASSUME NEW q \in Rover, ~raced' PROVE Imports(q)'
    <3>1. \A j \in Handler : h[j].rover = q /\ h[j].pc \in {"list", "refresh"} =>
                              h'[j].rover = q /\ h'[j].pc \in {"list", "refresh"}
      BY <1>1 DEF EnrollDoes, Becomes
    <3>2. /\ Imports(q) /\ row'[q] = row[q] /\ (crossed[q] => crossed'[q]) /\ (failed[q] => failed'[q])
          /\ imports' = imports
      BY Zenon, <1>1, <2>2 DEF EnrollDoes, Crosses, SetsTo, ImportInv
    <3> QED
      BY ZenonT(40), <3>1, <3>2, ImportsKept
  <2> QED
    BY SMTT(30), <2>1, <2>2 DEF ImportInv
<1>2. ASSUME NEW i \in Handler, NEW r \in Rover, DeleteDoes(i, r) PROVE ImportInv'
  <2>1. ASSUME NEW k \in Handler PROVE Lists(k)'
    BY ZenonT(40), <1>2 DEF DeleteDoes, Becomes, ImportInv, Lists
  <2>2. ASSUME NEW q \in Rover, ~raced' PROVE Imports(q)'
    <3>1. \A j \in Handler : h[j].rover = q /\ h[j].pc \in {"list", "refresh"} =>
                              h'[j].rover = q /\ h'[j].pc \in {"list", "refresh"}
      BY <1>2 DEF DeleteDoes, Becomes
    <3>2. /\ Imports(q) /\ row'[q] = row[q] /\ (crossed[q] => crossed'[q]) /\ (failed[q] => failed'[q])
          /\ imports' = imports
      BY Zenon, <1>2, <2>2 DEF DeleteDoes, Crosses, SetsTo, ImportInv
    <3> QED
      BY Zenon, <3>1, <3>2, ImportsKept
  <2> QED
    BY <2>1, <2>2 DEF ImportInv
<1>3. ASSUME NEW i \in Handler, CreateDoes(i) PROVE ImportInv'
  <2>1. ASSUME NEW k \in Handler PROVE Lists(k)'
    BY Zenon, <1>3 DEF CreateDoes, Sets, Becomes, ImportInv, Lists
  <2>2. ASSUME NEW q \in Rover, ~raced' PROVE Imports(q)'
    <3>1. CASE q = h[i].rover /\ row[q] = No
      <4>1. h'[i].rover = q /\ h'[i].pc = "list"
        BY Zenon, <1>3, <3>1 DEF CreateDoes
      <4> QED
        BY Zenon, <4>1 DEF Imports
    <3>2. CASE q # h[i].rover \/ row[q] # No
      <4>1. \A j \in Handler : h[j].rover = q /\ h[j].pc \in {"list", "refresh"} =>
                                h'[j].rover = q /\ h'[j].pc \in {"list", "refresh"}
        BY Zenon, <1>3, <3>2 DEF CreateDoes, Becomes
      <4>2. /\ Imports(q) /\ row'[q] = row[q] /\ (crossed[q] => crossed'[q]) /\ (failed[q] => failed'[q])
            /\ imports' = imports
        BY ZenonT(40), <1>3, <2>2, <3>2 DEF CreateDoes, SameMemory, Sets, SetsTo, ImportInv
      <4> QED
        BY Zenon, <4>1, <4>2, ImportsKept
    <3> QED
      BY <3>1, <3>2
  <2> QED
    BY <2>1, <2>2 DEF ImportInv
<1>4. ASSUME NEW i \in Handler, ListDoes(i) PROVE ImportInv'
  <2>1. ASSUME NEW k \in Handler PROVE Lists(k)'
    BY <1>4 DEF ListDoes, Becomes, ImportInv, Lists
  <2>2. ASSUME NEW q \in Rover, ~raced' PROVE Imports(q)'
    <3>1. \A j \in Handler : h[j].rover = q /\ h[j].pc \in {"list", "refresh"} =>
                              h'[j].rover = q /\ h'[j].pc \in {"list", "refresh"}
      BY <1>4 DEF ListDoes, Becomes
    <3>2. /\ Imports(q) /\ row'[q] = row[q] /\ (crossed[q] => crossed'[q]) /\ (failed[q] => failed'[q])
          /\ imports' = imports
      BY Zenon, <1>4, <2>2 DEF ListDoes, SameMemory, ImportInv
    <3> QED
      BY <3>1, <3>2, ImportsKept
  <2> QED
    BY <2>1, <2>2 DEF ImportInv
<1>5. ASSUME NEW i \in Handler, RefreshDoes(i) PROVE ImportInv'
  <2>1. ASSUME NEW k \in Handler PROVE Lists(k)'
    BY Zenon, <1>5 DEF RefreshDoes, Becomes, ImportInv, Lists
  <2>2. ASSUME NEW q \in Rover, ~raced' PROVE Imports(q)'
    BY Zenon, <1>5, <2>2 DEF RefreshDoes, Becomes, ImportInv, Imports, Lists
  <2> QED
    BY <2>1, <2>2 DEF ImportInv
<1>6. ASSUME NEW i \in Handler, EnsureDoes(i) PROVE ImportInv'
  <2>1. ASSUME NEW k \in Handler PROVE Lists(k)'
    BY Zenon, <1>6 DEF EnsureDoes, Becomes, ImportInv, Lists
  <2>2. ASSUME NEW q \in Rover, ~raced' PROVE Imports(q)'
    <3>1. \A j \in Handler : h[j].rover = q /\ h[j].pc \in {"list", "refresh"} =>
                              h'[j].rover = q /\ h'[j].pc \in {"list", "refresh"}
      BY Zenon, <1>6 DEF EnsureDoes, Becomes
    <3>2. /\ Imports(q) /\ row'[q] = row[q] /\ (crossed[q] => crossed'[q]) /\ (failed[q] => failed'[q])
          /\ imports' = imports
      BY ZenonT(40), <1>6, <2>2 DEF EnsureDoes, SetsTo, ImportInv
    <3> QED
      BY <3>1, <3>2, ImportsKept
  <2> QED
    BY <2>1, <2>2 DEF ImportInv
<1>7. ASSUME NEW i \in Handler, AnswerDoes(i) PROVE ImportInv'
  <2>1. ASSUME NEW k \in Handler PROVE Lists(k)'
    BY SMTT(30), <1>7 DEF AnswerDoes, Becomes, ImportInv, Lists
  <2>2. ASSUME NEW q \in Rover, ~raced' PROVE Imports(q)'
    <3>1. \A j \in Handler : h[j].rover = q /\ h[j].pc \in {"list", "refresh"} =>
                              h'[j].rover = q /\ h'[j].pc \in {"list", "refresh"}
      BY <1>7 DEF AnswerDoes, Becomes
    <3>2. /\ Imports(q) /\ row'[q] = row[q] /\ (crossed[q] => crossed'[q]) /\ (failed[q] => failed'[q])
          /\ imports' = imports
      BY Zenon, <1>7, <2>2 DEF AnswerDoes, SameMemory, ImportInv
    <3> QED
      BY <3>1, <3>2, ImportsKept
  <2> QED
    BY <2>1, <2>2 DEF ImportInv
<1>8. ASSUME NEW i \in Handler, RevokeAccountDoes(i) PROVE ImportInv'
  <2>1. ASSUME NEW k \in Handler PROVE Lists(k)'
    BY ZenonT(40), <1>8 DEF RevokeAccountDoes, Becomes, ImportInv, Lists
  <2>2. ASSUME NEW q \in Rover, ~raced' PROVE Imports(q)'
    <3>1. \A j \in Handler : h[j].rover = q /\ h[j].pc \in {"list", "refresh"} =>
                              h'[j].rover = q /\ h'[j].pc \in {"list", "refresh"}
      BY <1>8 DEF RevokeAccountDoes, Becomes
    <3>2. /\ Imports(q) /\ row'[q] = row[q] /\ (crossed[q] => crossed'[q]) /\ (failed[q] => failed'[q])
          /\ imports' = imports
      BY ZenonT(40), <1>8, <2>2 DEF RevokeAccountDoes, ImportInv
    <3> QED
      BY <3>1, <3>2, ImportsKept
  <2> QED
    BY <2>1, <2>2 DEF ImportInv
<1>9. ASSUME NEW i \in Handler, DeleteRowDoes(i) PROVE ImportInv'
  <2>1. ASSUME NEW k \in Handler PROVE Lists(k)'
    BY <1>9 DEF DeleteRowDoes, Sets, Becomes, ImportInv, Lists
  <2>2. ASSUME NEW q \in Rover, ~raced' PROVE Imports(q)'
    <3>1. CASE q = h[i].rover
      BY <1>9, <3>1 DEF DeleteRowDoes, Sets, Imports
    <3>2. CASE q # h[i].rover
      <4>1. \A j \in Handler : h[j].rover = q /\ h[j].pc \in {"list", "refresh"} =>
                                h'[j].rover = q /\ h'[j].pc \in {"list", "refresh"}
        BY ZenonT(40), <1>9, <3>2 DEF DeleteRowDoes, Becomes
      <4>2. /\ Imports(q) /\ row'[q] = row[q] /\ (crossed[q] => crossed'[q]) /\ (failed[q] => failed'[q])
            /\ imports' = imports
        BY <1>9, <2>2, <3>2 DEF DeleteRowDoes, SameMemory, Sets, ImportInv
      <4> QED
        BY <4>1, <4>2, ImportsKept
    <3> QED
      BY SMTT(30), <3>1, <3>2
  <2> QED
    BY <2>1, <2>2 DEF ImportInv
<1>10. ASSUME NEW i \in Handler, RemoveDoes(i) PROVE ImportInv'
  <2>1. ASSUME NEW k \in Handler PROVE Lists(k)'
    BY Zenon, <1>10 DEF RemoveDoes, Becomes, ImportInv, Lists
  <2>2. ASSUME NEW q \in Rover, ~raced' PROVE Imports(q)'
    <3>1. \A j \in Handler : h[j].rover = q /\ h[j].pc \in {"list", "refresh"} =>
                              h'[j].rover = q /\ h'[j].pc \in {"list", "refresh"}
      BY Zenon, <1>10 DEF RemoveDoes, Becomes
    <3>2. /\ Imports(q) /\ row'[q] = row[q] /\ (crossed[q] => crossed'[q]) /\ (failed[q] => failed'[q])
          /\ imports' = imports
      BY Zenon, <1>10, <2>2 DEF RemoveDoes, ImportInv
    <3> QED
      BY <3>1, <3>2, ImportsKept
  <2> QED
    BY <2>1, <2>2 DEF ImportInv
<1>11. ASSUME NEW i \in Handler, FailsDoes(i) PROVE ImportInv'
  <2>1. ASSUME NEW k \in Handler PROVE Lists(k)'
    BY Zenon, <1>11 DEF FailsDoes, Becomes, ImportInv, Lists
  <2>2. ASSUME NEW q \in Rover, ~raced' PROVE Imports(q)'
    <3>1. CASE q = h[i].rover /\ h[i].pc # "create"
      BY Zenon, <1>11, <3>1 DEF FailsDoes, SetsTo, Imports
    <3>2. CASE q # h[i].rover \/ h[i].pc = "create"
      <4>1. \A j \in Handler : h[j].rover = q /\ h[j].pc \in {"list", "refresh"} =>
                                h'[j].rover = q /\ h'[j].pc \in {"list", "refresh"}
        BY ZenonT(40), <1>11, <3>2 DEF FailsDoes, Becomes
      <4>2. /\ Imports(q) /\ row'[q] = row[q] /\ (crossed[q] => crossed'[q]) /\ (failed[q] => failed'[q])
            /\ imports' = imports
        BY <1>11, <2>2, <3>2 DEF FailsDoes, SameMemory, SetsTo, ImportInv
      <4> QED
        BY <4>1, <4>2, ImportsKept
    <3> QED
      BY <3>1, <3>2
  <2> QED
    BY <2>1, <2>2 DEF ImportInv
<1>12. ASSUME NEW broken \in SUBSET Rover, RestartDoes(broken) PROVE ImportInv'
  <2>1. ASSUME NEW k \in Handler PROVE Lists(k)'
    BY Zenon, <1>12 DEF RestartDoes, RestartBecomes, ImportInv, Lists
  <2>2. ASSUME NEW q \in Rover, ~raced' PROVE Imports(q)'
    BY ZenonT(40), <1>12, <2>2 DEF RestartDoes, RestartBecomes, ImportInv, Imports
  <2> QED
    BY <2>1, <2>2 DEF ImportInv
<1>13. CASE LinksDo
  BY <1>13 DEF LinksDo, ImportInv, Lists, Imports
<1> QED
  BY <1>1, <1>2, <1>3, <1>4, <1>5, <1>6, <1>7, <1>8, <1>9, <1>10, <1>11, <1>12, <1>13 DEF Steps

\* No command strays.
LEMMA StrayStep ==
  ASSUME FleetType, RevokedInv, ServesInv, ~stray, Steps
  PROVE  ~stray'
<1>1. ASSUME NEW r \in Rover, NEW b \in BOOLEAN, Relay(r, b) PROVE ~stray'
  <2> DEFINE n == Conn(r)
             delivers == ~b /\ n # No /\ resolver[n] = "valid"
  <2>1. stray' = (stray \/ (delivers /\ n \in leaf /\ n # row[r] /\ ~crossed[r]))
    BY Zenon, <1>1 DEF Relay
  <2>2. delivers /\ ~crossed[r] => n = row[r]
    <3>1. CASE pool[r] \in {No, row[r]}
      BY <3>1 DEF Conn
    <3>2. CASE ~crossed[r] /\ pool[r] \notin {No, row[r]}
      <4>1. PICK i \in Handler : h[i].rover = r /\ h[i].pc = "remove" /\ pool[r] = h[i].acc
        BY <3>2 DEF ServesInv, ServesAll, OwnPool
      <4>2. resolver[h[i].acc] # "valid"
        BY <4>1 DEF RevokedInv, Revoked
      <4> QED
        BY <3>2, <4>1, <4>2 DEF Conn
    <3> QED
      BY <3>1, <3>2
  <2> QED
    BY Zenon, <2>1, <2>2
<1>2. \/ \E r \in Rover, b \in BOOLEAN : Relay(r, b)
      \/ stray' = stray
  BY ZenonT(40) DEF Steps, EnrollDoes, DeleteDoes, CreateDoes, ListDoes, RefreshDoes, EnsureDoes, AnswerDoes,
     RevokeAccountDoes, DeleteRowDoes, RemoveDoes, FailsDoes, RestartDoes, LinksDo, Command, commands
<1> QED
  BY <1>1, <1>2

\* A command is relayed once at most.
LEMMA RelayStep ==
  ASSUME FleetType, RevokedInv, ServesInv, RelayInv, Steps
  PROVE  RelayInv'
<1>1. ~stray'
  BY StrayStep DEF RelayInv
<1> DEFINE Counts == /\ sent \in Nat /\ arrived \in Nat /\ IsFiniteSet(Unrelayed)
                     /\ arrived + Cardinality(Unrelayed) <= sent
<1>2. ASSUME NEW r \in Rover, Command(r) PROVE Counts'
  <2>1. Unrelayed' = Unrelayed \cup {r} /\ r \notin Unrelayed
    BY Zenon, <1>2 DEF Command, Unrelayed
  <2>2. IsFiniteSet(Unrelayed') /\ Cardinality(Unrelayed') = Cardinality(Unrelayed) + 1
    BY <2>1, FS_AddElement DEF RelayInv
  <2>3. Cardinality(Unrelayed) \in Nat
    BY FS_CardinalityType DEF RelayInv
  <2> QED
    BY <1>2, <2>2, <2>3 DEF Command, RelayInv
<1>3. ASSUME NEW r \in Rover, NEW b \in BOOLEAN, Relay(r, b) PROVE Counts'
  <2>1. Cardinality(Unrelayed) \in Nat
    BY FS_CardinalityType DEF RelayInv
  <2>2. CASE b = TRUE
    <3>1. Unrelayed' = Unrelayed
      BY <1>3, <2>2 DEF Relay, Unrelayed
    <3>2. arrived' = arrived /\ sent' = sent
      BY <1>3, <2>2 DEF Relay
    <3> QED
      BY <3>1, <3>2, <2>1 DEF RelayInv
  <2>3. CASE b = FALSE
    <3>1. Unrelayed' = Unrelayed \ {r} /\ r \in Unrelayed
      BY Zenon, <1>3, <2>3 DEF Relay, Unrelayed
    <3>2. IsFiniteSet(Unrelayed') /\ Cardinality(Unrelayed') = Cardinality(Unrelayed) - 1
      BY <3>1, FS_RemoveElement DEF RelayInv
    <3>3. sent' = sent /\ arrived' \in {arrived, arrived + 1}
      BY <1>3 DEF Relay
    <3> QED
      BY <3>2, <3>3, <2>1 DEF RelayInv
  <2> QED
    BY Zenon, <2>2, <2>3
<1>4. ASSUME NEW broken \in SUBSET Rover, RestartDoes(broken) PROVE Counts'
  <2>1. Unrelayed' = {} /\ sent' = sent /\ arrived' = arrived
    BY <1>4 DEF RestartDoes, Unrelayed
  <2>2. Cardinality(Unrelayed) \in Nat
    BY FS_CardinalityType DEF RelayInv
  <2>3. IsFiniteSet(Unrelayed') /\ Cardinality(Unrelayed') = 0
    BY <2>1, FS_EmptySet
  <2> QED
    BY SMTT(30), <2>1, <2>2, <2>3 DEF RelayInv
<1>5. CASE UNCHANGED commands
  BY <1>5 DEF RelayInv, commands, Unrelayed
<1>6. \/ \E r \in Rover : Command(r) \/ \E b \in BOOLEAN : Relay(r, b)
      \/ \E broken \in SUBSET Rover : RestartDoes(broken)
      \/ UNCHANGED commands
  BY ZenonT(40) DEF Steps, EnrollDoes, DeleteDoes, CreateDoes, ListDoes, RefreshDoes, EnsureDoes, AnswerDoes,
     RevokeAccountDoes, DeleteRowDoes, RemoveDoes, FailsDoes, LinksDo
<1> QED
  BY <1>1, <1>2, <1>3, <1>4, <1>5, <1>6 DEF RelayInv

-----------------------------------------------------------------------------
(* The invariant. *)

-----------------------------------------------------------------------------
(* Every step of the specification is one of these. *)

\* A request goes on as x.
LEMMA GoesTo ==
  ASSUME h \in [Handler -> Request], NEW i \in Handler, NEW x \in Request, Goes(i, x)
  PROVE  Becomes(i, x.pc, x.rover, x.acc, x.list, x.stale)
BY DEF Goes, Becomes

\* A request ends.
LEMMA GoesFree ==
  ASSUME h \in [Handler -> Request], NEW i \in Handler, Goes(i, Free)
  PROVE  Becomes(i, "done", "-", No, {}, FALSE)
BY FreeIsFree DEF Goes, Becomes

\* A request goes on at pc.
LEMMA StepTo ==
  ASSUME h \in [Handler -> Request], NEW i \in Handler, NEW pc \in Enrolling \cup Deleting, Step(i, pc)
  PROVE  Becomes(i, pc, h[i].rover, h[i].acc, h[i].list, h[i].stale)
<1> DEFINE x == [h[i] EXCEPT !.pc = pc]
<1>1. x \in Request
  BY DEF Request
<1>2. x.pc = pc /\ x.rover = h[i].rover /\ x.acc = h[i].acc /\ x.list = h[i].list /\ x.stale = h[i].stale
  BY DEF Request
<1>3. Becomes(i, x.pc, x.rover, x.acc, x.list, x.stale)
  BY Zenon, <1>1, GoesTo DEF Step
<1> QED
  BY <1>2, <1>3

\* newEnrollHandler takes a request.
LEMMA EnrollMoves ==
  ASSUME RequestsOK, NEW i \in Handler, NEW r \in Rover, Enroll(i, r)
  PROVE  Becomes(i, "create", r, nextAcc, {}, FALSE)
<1> DEFINE x == [Free EXCEPT !.op = "enroll", !.pc = "create", !.rover = r, !.acc = nextAcc]
<1>1. nextAcc \in Acc
  BY FleetAssumption DEF RequestsOK, Enroll, Acc
<1>2. x \in Request
  BY Zenon, <1>1 DEF Request, Free, Enrolling
<1>3. x.pc = "create" /\ x.rover = r /\ x.acc = nextAcc /\ x.list = {} /\ x.stale = FALSE
  BY DEF Free
<1>4. Becomes(i, x.pc, x.rover, x.acc, x.list, x.stale)
  BY Zenon, <1>2, GoesTo DEF Enroll, RequestsOK
<1> QED
  BY Zenon, <1>3, <1>4

\* newDeleteRoverHandler takes a request.
LEMMA DeleteMoves ==
  ASSUME FleetType, NEW i \in Handler, NEW r \in Rover, Delete(i, r)
  PROVE  Becomes(i, "revoke", r, row[r], {}, FALSE)
<1> DEFINE x == [Free EXCEPT !.op = "delete", !.pc = "revoke", !.rover = r, !.acc = row[r]]
<1>1. row[r] \in Acc
  BY DEF FleetType, TypeOK, Delete
<1>2. x \in Request
  BY Zenon, <1>1 DEF Request, Free, Deleting
<1>3. x.pc = "revoke" /\ x.rover = r /\ x.acc = row[r] /\ x.list = {} /\ x.stale = FALSE
  BY DEF Free
<1>4. Becomes(i, x.pc, x.rover, x.acc, x.list, x.stale)
  BY Zenon, <1>2, GoesTo DEF Delete, FleetType, RequestsOK
<1> QED
  BY Zenon, <1>3, <1>4

\* The row is inserted, or refused by its key; lists that others read are stale.
LEMMA CreateMoves ==
  ASSUME RequestsOK, NEW i \in Handler, Create(i)
  PROVE  CreateBecomes(i)
<1> USE DEF CreateBecomes
<1>1. CASE row[h[i].rover] # No
  BY Zenon, <1>1, GoesFree DEF Create, RequestsOK
<1>2. CASE row[h[i].rover] = No
  <2>1. h' = [j \in Handler |-> IF j = i THEN [h[i] EXCEPT !.pc = "list"]
                                ELSE [h[j] EXCEPT !.stale = h[j].pc = "refresh"]]
    BY <1>2 DEF Create
  <2>2. \A j \in Handler : [h[j] EXCEPT !.stale = h[j].pc = "refresh"] \in Request
    BY Zenon DEF RequestsOK, Request
  <2>3. [h[i] EXCEPT !.pc = "list"] \in Request
    BY DEF RequestsOK, Request, Enrolling
  <2>4. h' \in [Handler -> Request]
    BY <2>1, <2>2, <2>3
  <2>5. /\ h'[i].pc = "list" /\ h'[i].rover = h[i].rover /\ h'[i].acc = h[i].acc /\ h'[i].list = h[i].list
    BY <2>1 DEF RequestsOK, Request
  <2>6. ASSUME NEW j \in Handler \ {i}
        PROVE  /\ h'[j].pc = h[j].pc /\ h'[j].stale = (h[j].pc = "refresh")
               /\ h'[j].rover = h[j].rover /\ h'[j].acc = h[j].acc /\ h'[j].list = h[j].list
    BY <2>1 DEF RequestsOK, Request
  <2> QED
    BY Zenon, <1>2, <2>4, <2>5, <2>6 DEF Create
<1> QED
  BY Zenon, <1>1, <1>2

\* RefreshSessionsAccount reads the table.
LEMMA ListMoves ==
  ASSUME FleetType, NEW i \in Handler, List(i)
  PROVE  Becomes(i, "refresh", h[i].rover, h[i].acc, Rows, h[i].stale)
<1> DEFINE x == [h[i] EXCEPT !.pc = "refresh", !.list = Rows]
<1>1. Rows \subseteq Acc
  BY RowsDef DEF FleetType, TypeOK
<1>2. x \in Request
  BY Zenon, <1>1 DEF Request, FleetType, RequestsOK, Enrolling
<1>3. x.pc = "refresh" /\ x.rover = h[i].rover /\ x.acc = h[i].acc /\ x.list = Rows /\ x.stale = h[i].stale
  BY DEF FleetType, RequestsOK, Request
<1>4. Becomes(i, x.pc, x.rover, x.acc, x.list, x.stale)
  BY Zenon, <1>2, GoesTo DEF List, FleetType, RequestsOK
<1> QED
  BY <1>3, <1>4

\* The sessions account is registered.
LEMMA RefreshMoves ==
  ASSUME RequestsOK, NEW i \in Handler, Refresh(i)
  PROVE  Becomes(i, "ensure", h[i].rover, h[i].acc, {}, FALSE)
<1> DEFINE x == [h[i] EXCEPT !.pc = "ensure", !.list = {}, !.stale = FALSE]
<1>1. x \in Request
  BY Zenon DEF Request, RequestsOK, Enrolling
<1>2. x.pc = "ensure" /\ x.rover = h[i].rover /\ x.acc = h[i].acc /\ x.list = {} /\ x.stale = FALSE
  BY DEF RequestsOK, Request
<1>3. Becomes(i, x.pc, x.rover, x.acc, x.list, x.stale)
  BY Zenon, <1>1, GoesTo DEF Refresh, RequestsOK
<1> QED
  BY Zenon, <1>2, <1>3

\* The steps that only move their request on.
LEMMA RestMoves ==
  ASSUME RequestsOK, NEW i \in Handler
  PROVE  /\ Ensure(i) => Becomes(i, "answer", h[i].rover, h[i].acc, h[i].list, h[i].stale)
         /\ RevokeAccount(i) => Becomes(i, "row", h[i].rover, h[i].acc, h[i].list, h[i].stale)
         /\ DeleteRow(i) => Becomes(i, "remove", h[i].rover, h[i].acc, h[i].list, h[i].stale)
         /\ Answer(i) \/ Remove(i) \/ Fails(i) => Becomes(i, "done", "-", No, {}, FALSE)
BY Zenon, GoesFree, StepTo DEF RequestsOK, Ensure, RevokeAccount, DeleteRow, Answer, Remove, Fails,
                        Enrolling, Deleting

\* A restart ends every request.
LEMMA RestartMoves ==
  ASSUME NEW broken \in SUBSET Rover, Restart(broken)
  PROVE  RestartBecomes
BY FreeIsFree DEF Restart, RestartBecomes

\* What Enroll does, value by value.
LEMMA EnrollDone ==
  ASSUME FleetType, NEW i \in Handler, NEW r \in Rover, Enroll(i, r)
  PROVE  EnrollDoes(i, r) /\ TypeOK'
<1>1. Becomes(i, "create", r, nextAcc, {}, FALSE) /\ h[i].pc = "done"
  BY Zenon, EnrollMoves, FreeIsFree DEF FleetType, Enroll
<1>2. nextAcc \in Acc
  BY FleetAssumption DEF FleetType, RequestsOK, Enroll, Acc
<1>3. Sets(resolver, resolver', Acc, nextAcc, "valid")
  BY <1>2 DEF Enroll, Sets, FleetType, TypeOK
<1>4. Crosses(i, r)
  BY Zenon DEF Enroll, Begins, Crosses, SetsTo, FleetType, TypeOK
<1>5. EnrollDoes(i, r)
  BY Zenon, <1>1, <1>2, <1>3, <1>4 DEF Enroll, EnrollDoes
<1>6. keys' \subseteq Acc /\ resolver' \in [Acc -> {"none", "valid", "revoked"}] /\ crossed' \in [Rover -> BOOLEAN]
  BY <1>2 DEF Enroll, Begins, FleetType, TypeOK
<1> QED
  BY Zenon, <1>5, <1>6 DEF EnrollDoes, SameMemory, commands, FleetType, TypeOK

\* What Delete does, value by value.
LEMMA DeleteDone ==
  ASSUME FleetType, NEW i \in Handler, NEW r \in Rover, Delete(i, r)
  PROVE  DeleteDoes(i, r) /\ TypeOK'
<1>1. Becomes(i, "revoke", r, row[r], {}, FALSE) /\ h[i].pc = "done"
  BY Zenon, DeleteMoves, FreeIsFree DEF Delete
<1>2. row[r] \in Acc
  BY DEF FleetType, TypeOK, Delete
<1>3. Crosses(i, r)
  BY Zenon DEF Delete, Begins, Crosses, SetsTo, FleetType, TypeOK
<1>4. DeleteDoes(i, r)
  BY Zenon, <1>1, <1>2, <1>3 DEF Delete, DeleteDoes
<1>5. crossed' \in [Rover -> BOOLEAN]
  BY DEF Delete, Begins, FleetType, TypeOK
<1> QED
  BY Zenon, <1>4, <1>5 DEF DeleteDoes, SameMemory, commands, FleetType, TypeOK

\* What Create does, value by value.
LEMMA CreateDone ==
  ASSUME FleetType, NEW i \in Handler, Create(i)
  PROVE  CreateDoes(i) /\ TypeOK'
<1>1. CreateBecomes(i)
  BY CreateMoves DEF FleetType
<1>2. h[i].pc = "create" /\ h[i].rover \in Rover /\ h[i].acc \in Acc
  BY DEF Create, FleetType, RequestsOK
<1>3. row \in [Rover -> Acc \cup {No}] /\ failed \in [Rover -> BOOLEAN]
  BY DEF FleetType, TypeOK
<1>4. /\ SameMemory /\ issued' = issued /\ nextAcc' = nextAcc /\ gone' = gone /\ crossed' = crossed
      /\ raced' = raced /\ commands' = commands
  BY DEF Create, SameMemory, memory
<1>5. CreateDoes(i)
  BY Zenon, <1>1, <1>2, <1>3, <1>4 DEF CreateBecomes, CreateDoes, Sets, SetsTo
<1>6. row' \in [Rover -> Acc \cup {No}] /\ failed' \in [Rover -> BOOLEAN]
  BY Zenon, <1>2, <1>3 DEF Create
<1> QED
  BY Zenon, <1>5, <1>6 DEF CreateDoes, SameMemory, commands, FleetType, TypeOK

\* What List does, value by value.
LEMMA ListDone ==
  ASSUME FleetType, NEW i \in Handler, List(i)
  PROVE  ListDoes(i) /\ TypeOK'
<1>1. Becomes(i, "refresh", h[i].rover, h[i].acc, Rows, h[i].stale)
  BY ListMoves DEF FleetType
<1>2. h[i].pc = "list" /\ h[i].rover \in Rover /\ h[i].acc \in Acc
  BY DEF List, FleetType, RequestsOK
<1>3. \A r \in Rover : row[r] # No => row[r] \in Rows
  BY RowsDef
<1>4. ListDoes(i)
  BY <1>1, <1>2, <1>3 DEF List, ListDoes, SameMemory, memory, history
<1> QED
  BY <1>4 DEF ListDoes, SameMemory, commands, FleetType, TypeOK

\* What Refresh does, value by value.
LEMMA RefreshDone ==
  ASSUME FleetType, NEW i \in Handler, Refresh(i)
  PROVE  RefreshDoes(i) /\ TypeOK'
<1>1. Becomes(i, "ensure", h[i].rover, h[i].acc, {}, FALSE)
  BY Zenon, RefreshMoves DEF FleetType
<1>2. h[i].pc = "refresh" /\ h[i].rover \in Rover /\ h[i].acc \in Acc
  BY DEF Refresh, FleetType, RequestsOK
<1>3. h[i].list \subseteq Acc /\ h[i].stale \in BOOLEAN
  BY DEF FleetType, RequestsOK, Request
<1>4. raced' <=> h[i].stale
  BY DEF Refresh
<1>5. RefreshDoes(i)
  BY Zenon, <1>1, <1>2, <1>3, <1>4 DEF Refresh, RefreshDoes
<1>6. imports' \subseteq Acc /\ raced' \in BOOLEAN
  BY <1>3 DEF Refresh
<1> QED
  BY Zenon, <1>5, <1>6 DEF RefreshDoes, SameMemory, commands, FleetType, TypeOK

\* What Ensure does, value by value.
LEMMA EnsureDone ==
  ASSUME FleetType, NEW i \in Handler, Ensure(i)
  PROVE  EnsureDoes(i) /\ TypeOK'
<1>1. Becomes(i, "answer", h[i].rover, h[i].acc, h[i].list, h[i].stale)
  BY Zenon, RestMoves DEF FleetType
<1>2. h[i].pc = "ensure" /\ h[i].rover \in Rover /\ h[i].acc \in Acc
  BY DEF Ensure, FleetType, RequestsOK
<1>3. /\ pool \in [Rover -> Acc \cup {No}] /\ subs \in [Rover -> Acc \cup {No}]
      /\ failed \in [Rover -> BOOLEAN]
  BY DEF FleetType, TypeOK
<1>4. EnsureDoes(i)
  BY <1>1, <1>2, <1>3 DEF Ensure, EnsureDoes, Sets, SetsTo
<1>5. /\ pool' \in [Rover -> Acc \cup {No}] /\ subs' \in [Rover -> Acc \cup {No}]
      /\ failed' \in [Rover -> BOOLEAN]
  BY Zenon, <1>2, <1>3, ConnType DEF Ensure
<1> QED
  BY Zenon, <1>4, <1>5 DEF EnsureDoes, SameMemory, commands, FleetType, TypeOK

\* What Answer does, value by value.
LEMMA AnswerDone ==
  ASSUME FleetType, NEW i \in Handler, Answer(i)
  PROVE  AnswerDoes(i) /\ TypeOK'
<1>1. Becomes(i, "done", "-", No, {}, FALSE)
  BY Zenon, RestMoves DEF FleetType
<1>2. h[i].pc = "answer" /\ h[i].rover \in Rover /\ h[i].acc \in Acc
  BY DEF Answer, FleetType, RequestsOK
<1>3. AnswerDoes(i)
  BY Zenon, <1>1, <1>2 DEF Answer, AnswerDoes, SameMemory, memory, history
<1> QED
  BY Zenon, <1>3 DEF AnswerDoes, SameMemory, commands, FleetType, TypeOK

\* What RevokeAccount does, value by value.
LEMMA RevokeAccountDone ==
  ASSUME FleetType, NEW i \in Handler, RevokeAccount(i)
  PROVE  RevokeAccountDoes(i) /\ TypeOK'
<1>1. Becomes(i, "row", h[i].rover, h[i].acc, h[i].list, h[i].stale)
  BY Zenon, RestMoves DEF FleetType
<1>2. h[i].pc = "revoke" /\ h[i].rover \in Rover /\ h[i].acc \in Acc
  BY DEF RevokeAccount, FleetType, RequestsOK
<1>3. Sets(resolver, resolver', Acc, h[i].acc, "revoked")
  BY <1>2 DEF RevokeAccount, Sets, FleetType, TypeOK
<1>4. RevokeAccountDoes(i)
  BY <1>1, <1>2, <1>3 DEF RevokeAccount, RevokeAccountDoes, history
<1>5. resolver' \in [Acc -> {"none", "valid", "revoked"}]
  BY Zenon DEF RevokeAccount, FleetType, TypeOK
<1> QED
  BY <1>4, <1>5 DEF RevokeAccountDoes, SameMemory, commands, FleetType, TypeOK

\* What DeleteRow does, value by value.
LEMMA DeleteRowDone ==
  ASSUME FleetType, NEW i \in Handler, DeleteRow(i)
  PROVE  DeleteRowDoes(i) /\ TypeOK'
<1>1. Becomes(i, "remove", h[i].rover, h[i].acc, h[i].list, h[i].stale)
  BY Zenon, RestMoves DEF FleetType
<1>2. h[i].pc = "row" /\ h[i].rover \in Rover /\ h[i].acc \in Acc
  BY DEF DeleteRow, FleetType, RequestsOK
<1>3. Sets(row, row', Rover, h[i].rover, No)
  BY <1>2 DEF DeleteRow, Sets, FleetType, TypeOK
<1>4. DeleteRowDoes(i)
  BY <1>1, <1>2, <1>3 DEF DeleteRow, DeleteRowDoes, SameMemory, memory, history
<1>5. row' \in [Rover -> Acc \cup {No}]
  BY Zenon DEF DeleteRow, FleetType, TypeOK
<1> QED
  BY <1>4, <1>5 DEF DeleteRowDoes, SameMemory, commands, FleetType, TypeOK

\* What Remove does, value by value.
LEMMA RemoveDone ==
  ASSUME FleetType, NEW i \in Handler, Remove(i)
  PROVE  RemoveDoes(i) /\ TypeOK'
<1>1. Becomes(i, "done", "-", No, {}, FALSE)
  BY Zenon, RestMoves DEF FleetType
<1>2. h[i].pc = "remove" /\ h[i].rover \in Rover /\ h[i].acc \in Acc
  BY DEF Remove, FleetType, RequestsOK
<1>3. Sets(pool, pool', Rover, h[i].rover, No) /\ Sets(subs, subs', Rover, h[i].rover, No)
  BY <1>2 DEF Remove, Sets, FleetType, TypeOK
<1>4. RemoveDoes(i)
  BY Zenon, <1>1, <1>2, <1>3 DEF Remove, RemoveDoes
<1>5. pool' \in [Rover -> Acc \cup {No}] /\ subs' \in [Rover -> Acc \cup {No}]
  BY Zenon DEF Remove, FleetType, TypeOK
<1> QED
  BY Zenon, <1>4, <1>5 DEF RemoveDoes, SameMemory, commands, FleetType, TypeOK

\* What Fails does, value by value.
LEMMA FailsDone ==
  ASSUME FleetType, NEW i \in Handler, Fails(i)
  PROVE  FailsDoes(i) /\ TypeOK'
<1>1. Becomes(i, "done", "-", No, {}, FALSE)
  BY Zenon, RestMoves DEF FleetType
<1>2. h[i].pc \in {"create", "list", "refresh", "revoke", "row"} /\ h[i].rover \in Rover /\ h[i].acc \in Acc
  BY DEF Fails, FleetType, RequestsOK
<1>3. SetsTo(failed, failed', Rover, h[i].rover, failed[h[i].rover] \/ h[i].pc # "create")
  BY Zenon, <1>2 DEF Fails, SetsTo, FleetType, TypeOK
<1>4. FailsDoes(i)
  BY Zenon, <1>1, <1>2, <1>3 DEF Fails, FailsDoes, SameMemory, memory
<1>5. failed' \in [Rover -> BOOLEAN]
  BY Zenon DEF Fails, FleetType, TypeOK
<1> QED
  BY Zenon, <1>4, <1>5 DEF FailsDoes, SameMemory, commands, FleetType, TypeOK

\* What Restart does, value by value.
LEMMA RestartDone ==
  ASSUME FleetType, NEW broken \in SUBSET Rover, Restart(broken)
  PROVE  RestartDoes(broken) /\ TypeOK'
<1>1. RestartBecomes
  BY RestartMoves
<1>2. \A n \in Acc : n \in Rows <=> \E r \in Rover : row[r] = n
  BY AccIsSome, RowsDef
<1>3. \A r \in Rover : row[r] # No => row[r] \in Rows
  BY RowsDef
<1>4. RestartDoes(broken)
  BY Zenon, <1>1, <1>2, <1>3 DEF Restart, RestartDoes
<1>5. /\ resolver' \in [Acc -> {"none", "valid", "revoked"}] /\ keys' \subseteq Acc /\ imports' \subseteq Acc
      /\ pool' \in [Rover -> Acc \cup {No}] /\ subs' \in [Rover -> Acc \cup {No}]
  BY RowsDef DEF Restart, FleetType, TypeOK
<1>6. crossed' \in [Rover -> BOOLEAN]
  BY DEF Restart
<1>7. failed' \in [Rover -> BOOLEAN]
  BY DEF Restart
<1>8. raced' \in BOOLEAN
  BY Zenon DEF Restart
<1> QED
  BY <1>4, <1>5, <1>6, <1>7, <1>8 DEF RestartDoes, FleetType, TypeOK

\* What Links does, value by value.
LEMMA LinksDone ==
  ASSUME FleetType,
         \/ \E n \in Acc : LeafConnects(n) \/ LeafDrops(n)
         \/ \E r \in Rover : ConnCloses(r) \/ Command(r) \/ \E b \in BOOLEAN : Relay(r, b)
  PROVE  LinksDo /\ TypeOK'
<1>1. ASSUME NEW n \in Acc, LeafConnects(n) \/ LeafDrops(n) PROVE LinksDo /\ TypeOK'
  BY <1>1 DEF LeafConnects, LeafDrops, LinksDo, FleetType, TypeOK, commands, history
<1>2. ASSUME NEW r \in Rover, ConnCloses(r) PROVE LinksDo /\ TypeOK'
  BY <1>2 DEF ConnCloses, LinksDo, FleetType, TypeOK, commands, history
<1>3. ASSUME NEW r \in Rover, Command(r) PROVE LinksDo /\ TypeOK'
  <2>1. firehose' \subseteq Rover \X BOOLEAN
    <3>1. <<r, FALSE>> \in Rover \X BOOLEAN
      BY Zenon
    <3> QED
      BY Zenon, <1>3, <3>1 DEF Command, FleetType, TypeOK
  <2> QED
    BY Zenon, <1>3, <2>1 DEF Command, LinksDo, FleetType, TypeOK, memory, history
<1>4. ASSUME NEW r \in Rover, NEW b \in BOOLEAN, Relay(r, b) PROVE LinksDo /\ TypeOK'
  <2>1. firehose' \subseteq Rover \X BOOLEAN
    <3>1. <<r, TRUE>> \in Rover \X BOOLEAN
      BY Zenon
    <3> QED
      BY Zenon, <1>4, <3>1 DEF Relay, FleetType, TypeOK
  <2>2. pool' \in [Rover -> Acc \cup {No}] /\ stray' \in BOOLEAN
    BY <1>4, ConnType DEF Relay, FleetType, TypeOK
  <2>3. \A q \in Rover : pool'[q] = pool[q] \/ (pool[q] = No /\ row[q] # No /\ pool'[q] = row[q])
    BY Zenon, <1>4 DEF Relay, Conn, CanConnect, FleetType, TypeOK
  <2>4. UNCHANGED <<h, row, resolver, keys, imports, leaf, subs, issued, nextAcc, gone, crossed, failed, raced>>
    BY Zenon, <1>4 DEF Relay, history
  <2> QED
    BY <1>4, <2>1, <2>2, <2>3, <2>4 DEF LinksDo, FleetType, TypeOK
<1> QED
  BY <1>1, <1>2, <1>3, <1>4

\* Every step of Fleet is one of Steps, and keeps the types.
LEMMA StepsDo ==
  ASSUME FleetType, Next
  PROVE  Steps /\ TypeOK'
BY EnrollDone, DeleteDone, CreateDone, ListDone, RefreshDone, EnsureDone, AnswerDone, RevokeAccountDone,
   DeleteRowDone, RemoveDone, FailsDone, RestartDone, LinksDone DEF Next, Steps

-----------------------------------------------------------------------------
(* The invariant. *)

\* The invariant holds at first.
LEMMA FleetInit ==
  Init => FleetInv
<1> SUFFICES ASSUME Init PROVE FleetInv
  OBVIOUS
<1>1. \A i \in Handler : h[i] = Free
  BY DEF Init
<1>2. \A i \in Handler : h[i].pc = "done" /\ h[i].rover = "-" /\ h[i].acc = No
  BY <1>1, FreeIsFree
<1>3. h \in [Handler -> Request]
  BY Zenon, FreeIsFree DEF Init
<1>4. TypeOK
  BY Zenon DEF Init, TypeOK
<1>5. RequestsOK
  BY <1>2, <1>3, FleetAssumption DEF Init, RequestsOK
<1>6. OldInv
  BY DEF Init, OldInv, Old, No
<1>7. OneRow /\ GoneInv /\ GhostInv
  BY DEF Init, OneRow, GoneInv, GhostInv
<1>8. FreshInv /\ RevokedInv /\ AloneInv
  BY SMTT(30), <1>2 DEF Init, FreshInv, RevokedInv, Revoked, AloneInv, Alone, Deleting
<1>9. ServesInv /\ ImportInv
  BY <1>2, FleetAssumption DEF Init, ServesInv, ServesAll, Unserved, ServedNow, InTheMaking, OwnPool,
     ImportInv, Lists, Imports
<1>10. Unrelayed = {}
  BY DEF Init, Unrelayed
<1>11. IsFiniteSet(Unrelayed) /\ Cardinality(Unrelayed) = 0
  BY <1>10, FS_EmptySet
<1>12. RelayInv
  BY <1>11 DEF Init, RelayInv
<1> QED
  BY <1>4, <1>5, <1>6, <1>7, <1>8, <1>9, <1>12 DEF FleetInv, FleetType

\* Every step keeps it.
LEMMA FleetStep ==
  FleetInv /\ [Next]_vars => FleetInv'
<1> SUFFICES ASSUME FleetInv, [Next]_vars PROVE FleetInv'
  OBVIOUS
<1>1. Steps /\ TypeOK'
  <2>1. CASE Next
    BY <2>1, StepsDo DEF FleetInv
  <2>2. CASE UNCHANGED vars
    <3>1. LinksDo
      BY <2>2 DEF vars, memory, commands, history, LinksDo
    <3>2. TypeOK'
      BY <2>2 DEF vars, memory, commands, history, FleetInv, FleetType, TypeOK
    <3> QED
      BY SMTT(30), <3>1, <3>2 DEF Steps
  <2> QED
    BY <2>1, <2>2
<1>2. FleetType'
  BY <1>1, RequestsStep DEF FleetInv, FleetType
<1> QED
  BY SMTT(30), <1>1, <1>2, OldStep, OneRowStep, FreshStep, RevokedStep, GoneStep, AloneStep, ServesStep,
     ImportStep, GhostStep, RelayStep DEF FleetInv

\* It implies what is claimed.
LEMMA FleetImplies ==
  ASSUME FleetInv
  PROVE  TypeOK /\ EnrolledIsServed /\ DeletedIsOut /\ NoGhosts /\ RelayedOnce
<1>1. TypeOK
  BY DEF FleetInv, FleetType
<1>2. EnrolledIsServed
  <2> SUFFICES ASSUME NEW r \in Rover, Settled(r), row[r] # No
               PROVE  Serves(r) /\ (raced \/ row[r] \in imports)
    BY DEF EnrolledIsServed, Serves
  <2>1. Serves(r)
    BY Zenon DEF FleetInv, ServesInv, ServesAll, ServedNow, Settled
  <2>2. raced \/ row[r] \in imports
    BY Zenon DEF FleetInv, ImportInv, Imports, Settled
  <2> QED
    BY <2>1, <2>2
<1>3. DeletedIsOut
  BY RowsDef DEF FleetInv, GoneInv, DeletedIsOut
<1>4. NoGhosts
  <2>1. \A n \in issued : n # No
    BY AccIsSome DEF FleetInv, FleetType, TypeOK
  <2> QED
    BY <2>1, RowsDef DEF FleetInv, GhostInv, NoGhosts
<1>5. RelayedOnce
  <2>1. Cardinality(Unrelayed) \in Nat
    BY FS_CardinalityType DEF FleetInv, RelayInv
  <2> QED
    BY <2>1 DEF FleetInv, RelayInv, RelayedOnce
<1> QED
  BY <1>1, <1>2, <1>3, <1>4, <1>5

\* Whatever the requests, restarts and commands, and in whatever order: an enrolled
\* rover is served, a deleted one is out for good, no identity file works for a rover
\* the table does not know, and a command is relayed at most once and to its rover.
THEOREM FleetIsTrueCorrect == MCSpec => []FleetIsTrue
<1>1. MCInit => FleetInv
  BY FleetInit DEF MCInit
<1>2. FleetInv /\ [MCNext]_all => FleetInv'
  <2> SUFFICES ASSUME FleetInv, [MCNext]_all PROVE FleetInv'
    OBVIOUS
  <2>1. [Next]_vars
    BY DEF MCNext, all
  <2> QED
    BY <2>1, FleetStep
<1>3. FleetInv => FleetIsTrue
  BY FleetImplies DEF FleetIsTrue
<1> QED
  BY <1>1, <1>2, <1>3, PTL DEF MCSpec
=============================================================================
