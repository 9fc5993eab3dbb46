----------------------------- MODULE FleetSteps -----------------------------
(***************************************************************************)
(* The inductive invariant of a proxy's rovers, for any number of rovers,  *)
(* requests, enrolments, deletions and restarts; what each action does,    *)
(* value by value (Steps); and that such a step keeps the parts of the     *)
(* invariant that say whose account an account is.  ProxyProofs has the    *)
(* rest, and the theorem.                                                  *)
(***************************************************************************)
EXTENDS Fleet, FiniteSetTheorems, TLAPS

Enrolling == {"create", "list", "refresh", "ensure", "answer"}
Deleting == {"revoke", "row", "remove"}
Request == [op : {"free", "enroll", "delete"}, pc : {"done"} \cup Enrolling \cup Deleting,
            rover : Rover \cup {"-"}, acc : Acc \cup {No}, list : SUBSET Acc, stale : BOOLEAN]
Old(n) == n < nextAcc

\* Types, with those of the requests and the counters.
RequestsOK ==
  /\ h \in [Handler -> Request]
  /\ \A i \in Handler : h[i].pc = "done" => h[i].rover = "-" /\ h[i].acc = No
  /\ \A i \in Handler : h[i].pc # "done" => h[i].rover \in Rover /\ h[i].acc \in Acc /\ Old(h[i].acc)
  /\ nextAcc \in 1 .. MaxAcc + 1
FleetType == TypeOK /\ RequestsOK

\* An account is made once, for one rover, and is out for good once its deletion is
\* answered.
OldInv == (\A r \in Rover : Old(row[r])) /\ \A n \in gone \cup issued : Old(n)
OneRow == \A q, r \in Rover : row[q] = row[r] /\ row[q] # No => q = r
Fresh(i) ==
  /\ h[i].acc \notin gone \cup issued /\ \A r \in Rover : row[r] # h[i].acc
  /\ \A j \in Handler \ {i} : h[j].acc # h[i].acc
  /\ resolver[h[i].acc] = "valid" /\ h[i].acc \in keys
FreshInv == \A i \in Handler : h[i].pc = "create" => Fresh(i)
Revoked(i) ==
  /\ h[i].pc \in Deleting => \A r \in Rover : row[r] = h[i].acc => r = h[i].rover
  /\ h[i].pc \in {"row", "remove"} => resolver[h[i].acc] # "valid" /\ h[i].acc \notin leaf
  /\ h[i].pc = "remove" => \A r \in Rover : row[r] # h[i].acc
RevokedInv == \A i \in Handler : Revoked(i)
GoneInv == \A n \in gone : n \notin leaf /\ resolver[n] # "valid" /\ \A r \in Rover : row[r] # n

\* Requests about one rover that did not overlap came one after the other: the row
\* is that of the request under way.
Alone(i) ==
  h[i].pc # "done" /\ ~crossed[h[i].rover] =>
    /\ \A j \in Handler \ {i} : h[j].rover # h[i].rover
    /\ h[i].pc \in {"list", "refresh", "ensure", "answer", "revoke", "row"} => row[h[i].rover] = h[i].acc
    /\ h[i].pc = "remove" => row[h[i].rover] = No
AloneInv == \A i \in Handler : Alone(i)

Removing(r) == \E i \in Handler : h[i].rover = r /\ h[i].pc = "remove"
Serves(r) == /\ resolver[row[r]] = "valid" /\ row[r] \in keys
             /\ subs[r] = row[r] /\ pool[r] = row[r]

\* What the proxy has of a rover, by where the request about it is.
Unserved(r) == row[r] = No /\ ~Removing(r) => subs[r] = No /\ pool[r] = No
ServedNow(r) ==
  row[r] # No /\ ~failed[r] /\ (\A i \in Handler : h[i].rover = r => h[i].pc \in {"create", "answer"})
    => Serves(r)
InTheMaking(r) ==
  \A i \in Handler : h[i].rover = r /\ h[i].pc \in {"list", "refresh", "ensure"} =>
    /\ resolver[row[r]] = "valid" /\ row[r] \in keys
    /\ subs[r] = No /\ pool[r] \in {No, row[r]}
OwnPool(r) ==
  \/ pool[r] \in {No, row[r]}
  \/ \E i \in Handler : h[i].rover = r /\ h[i].pc = "remove" /\ pool[r] = h[i].acc
ServesAll(r) == Unserved(r) /\ ServedNow(r) /\ InTheMaking(r) /\ OwnPool(r)
ServesInv == \A r \in Rover : ~crossed[r] => ServesAll(r)

\* A list that no row was added after has every row.
Lists(i) == h[i].pc = "refresh" /\ ~h[i].stale => \A r \in Rover : row[r] # No => row[r] \in h[i].list
Imports(r) ==
  row[r] # No /\ ~crossed[r] /\ ~failed[r] =>
    row[r] \in imports \/ \E i \in Handler : h[i].rover = r /\ h[i].pc \in {"list", "refresh"}
ImportInv == (\A i \in Handler : Lists(i)) /\ (~raced => \A r \in Rover : Imports(r))

GhostInv ==
  (\A r \in Rover : ~crossed[r]) => \A n \in issued : resolver[n] = "valid" => \E r \in Rover : row[r] = n

Unrelayed == {r \in Rover : <<r, FALSE>> \in firehose}

RelayInv ==
  /\ sent \in Nat /\ arrived \in Nat /\ IsFiniteSet(Unrelayed)
  /\ arrived + Cardinality(Unrelayed) <= sent
  /\ ~stray

FleetInv == /\ FleetType /\ OldInv /\ OneRow /\ FreshInv /\ RevokedInv /\ GoneInv
            /\ AloneInv /\ ServesInv /\ ImportInv /\ GhostInv /\ RelayInv

\* The fields of a handler that serves nothing (Free).
LEMMA FreeIsFree ==
  /\ Free.op = "free" /\ Free.pc = "done" /\ Free.rover = "-" /\ Free.acc = No /\ Free.list = {}
  /\ ~Free.stale /\ Free \in Request
BY DEF Free, Request

\* ListWithAccounts: the accounts of the table.
LEMMA RowsDef == \A n : n \in Rows <=> n # No /\ \E r \in Rover : row[r] = n
BY DEF Rows

-----------------------------------------------------------------------------
(* What each action makes of the requests, field by field. *)

Becomes(i, pc, r, n, list, stale) ==
  /\ h' \in [Handler -> Request]
  /\ h'[i].pc = pc /\ h'[i].rover = r /\ h'[i].acc = n /\ h'[i].list = list /\ h'[i].stale = stale
  /\ \A j \in Handler \ {i} : h'[j] = h[j]

CreateBecomes(i) ==
  \/ /\ row[h[i].rover] # No /\ UNCHANGED <<row, failed>>
     /\ Becomes(i, "done", "-", No, {}, FALSE)
  \/ /\ row[h[i].rover] = No /\ row' = [row EXCEPT ![h[i].rover] = h[i].acc]
     /\ failed' = [failed EXCEPT ![h[i].rover] = FALSE]
     /\ h' \in [Handler -> Request] /\ h'[i].pc = "list"
     /\ \A j \in Handler \ {i} : h'[j].pc = h[j].pc /\ (h'[j].pc = "refresh" => h'[j].stale)
     /\ \A j \in Handler : h'[j].rover = h[j].rover /\ h'[j].acc = h[j].acc /\ h'[j].list = h[j].list

RestartBecomes ==
  /\ h' \in [Handler -> Request]
  /\ \A i \in Handler : h'[i].pc = "done" /\ h'[i].rover = "-" /\ h'[i].acc = No

-----------------------------------------------------------------------------
(* What each action does, value by value. *)

Sets(f, g, D, x, v) == g[x] = v /\ \A y \in D \ {x} : g[y] = f[y]
SetsTo(f, g, D, x, P) == (g[x] <=> P) /\ \A y \in D \ {x} : g[y] = f[y]

Crosses(i, r) ==
  SetsTo(crossed, crossed', Rover, r, crossed[r] \/ \E j \in Handler \ {i} : h[j].rover = r)

EnrollDoes(i, r) ==
  /\ commands' = commands
  /\ h[i].pc = "done" /\ nextAcc \in Acc /\ nextAcc' = nextAcc + 1
  /\ Becomes(i, "create", r, nextAcc, {}, FALSE) /\ Crosses(i, r)
  /\ keys' = keys \cup {nextAcc} /\ Sets(resolver, resolver', Acc, nextAcc, "valid")
  /\ row' = row /\ imports' = imports /\ issued' = issued /\ leaf' = leaf /\ pool' = pool
  /\ subs' = subs /\ gone' = gone /\ failed' = failed /\ raced' = raced

DeleteDoes(i, r) ==
  /\ commands' = commands
  /\ h[i].pc = "done" /\ row[r] \in Acc
  /\ Becomes(i, "revoke", r, row[r], {}, FALSE) /\ Crosses(i, r)
  /\ keys' = keys \ {row[r]}
  /\ row' = row /\ resolver' = resolver /\ imports' = imports /\ issued' = issued /\ leaf' = leaf
  /\ pool' = pool /\ subs' = subs /\ nextAcc' = nextAcc /\ gone' = gone /\ failed' = failed
  /\ raced' = raced

SameMemory ==
  /\ resolver' = resolver /\ keys' = keys /\ imports' = imports /\ leaf' = leaf
  /\ pool' = pool /\ subs' = subs

CreateDoes(i) ==
  /\ commands' = commands
  /\ h[i].pc = "create" /\ h[i].rover \in Rover /\ h[i].acc \in Acc /\ SameMemory
  /\ issued' = issued /\ nextAcc' = nextAcc /\ gone' = gone /\ crossed' = crossed /\ raced' = raced
  /\ \/ /\ row[h[i].rover] # No /\ row' = row /\ failed' = failed
        /\ Becomes(i, "done", "-", No, {}, FALSE)
     \/ /\ row[h[i].rover] = No /\ Sets(row, row', Rover, h[i].rover, h[i].acc)
        /\ SetsTo(failed, failed', Rover, h[i].rover, FALSE)
        /\ h' \in [Handler -> Request] /\ h'[i].pc = "list"
        /\ \A j \in Handler \ {i} : h'[j].pc = h[j].pc /\ (h'[j].pc = "refresh" => h'[j].stale)
        /\ \A j \in Handler : h'[j].rover = h[j].rover /\ h'[j].acc = h[j].acc /\ h'[j].list = h[j].list

ListDoes(i) ==
  /\ commands' = commands
  /\ h[i].pc = "list" /\ h[i].rover \in Rover /\ h[i].acc \in Acc /\ SameMemory
  /\ Becomes(i, "refresh", h[i].rover, h[i].acc, Rows, h[i].stale)
  /\ \A r \in Rover : row[r] # No => row[r] \in Rows
  /\ row' = row /\ issued' = issued /\ nextAcc' = nextAcc /\ gone' = gone /\ crossed' = crossed
  /\ failed' = failed /\ raced' = raced

RefreshDoes(i) ==
  /\ commands' = commands
  /\ h[i].pc = "refresh" /\ h[i].rover \in Rover /\ h[i].acc \in Acc
  /\ Becomes(i, "ensure", h[i].rover, h[i].acc, {}, FALSE)
  /\ imports' = h[i].list /\ (raced' <=> h[i].stale)
  /\ row' = row /\ resolver' = resolver /\ keys' = keys /\ issued' = issued /\ leaf' = leaf
  /\ pool' = pool /\ subs' = subs /\ nextAcc' = nextAcc /\ gone' = gone /\ crossed' = crossed
  /\ failed' = failed

EnsureDoes(i) ==
  /\ commands' = commands
  /\ h[i].pc = "ensure" /\ h[i].rover \in Rover /\ h[i].acc \in Acc
  /\ Becomes(i, "answer", h[i].rover, h[i].acc, h[i].list, h[i].stale)
  /\ row' = row /\ resolver' = resolver /\ keys' = keys /\ imports' = imports /\ issued' = issued
  /\ leaf' = leaf /\ nextAcc' = nextAcc /\ gone' = gone /\ crossed' = crossed /\ raced' = raced
  /\ \/ subs[h[i].rover] # No /\ pool' = pool /\ subs' = subs /\ failed' = failed
     \/ /\ Conn(h[i].rover) # No /\ failed' = failed
        /\ Sets(pool, pool', Rover, h[i].rover, Conn(h[i].rover))
        /\ Sets(subs, subs', Rover, h[i].rover, Conn(h[i].rover))
     \/ SetsTo(failed, failed', Rover, h[i].rover, TRUE) /\ pool' = pool /\ subs' = subs

AnswerDoes(i) ==
  /\ commands' = commands
  /\ h[i].pc = "answer" /\ h[i].rover \in Rover /\ h[i].acc \in Acc /\ SameMemory
  /\ Becomes(i, "done", "-", No, {}, FALSE) /\ issued' = issued \cup {h[i].acc}
  /\ row' = row /\ nextAcc' = nextAcc /\ gone' = gone /\ crossed' = crossed /\ failed' = failed
  /\ raced' = raced

RevokeAccountDoes(i) ==
  /\ commands' = commands
  /\ h[i].pc = "revoke" /\ h[i].rover \in Rover /\ h[i].acc \in Acc
  /\ Becomes(i, "row", h[i].rover, h[i].acc, h[i].list, h[i].stale)
  /\ Sets(resolver, resolver', Acc, h[i].acc, "revoked") /\ leaf' = leaf \ {h[i].acc}
  /\ row' = row /\ keys' = keys /\ imports' = imports /\ issued' = issued /\ pool' = pool
  /\ subs' = subs /\ nextAcc' = nextAcc /\ gone' = gone /\ crossed' = crossed /\ failed' = failed
  /\ raced' = raced

DeleteRowDoes(i) ==
  /\ commands' = commands
  /\ h[i].pc = "row" /\ h[i].rover \in Rover /\ h[i].acc \in Acc /\ SameMemory
  /\ Becomes(i, "remove", h[i].rover, h[i].acc, h[i].list, h[i].stale)
  /\ Sets(row, row', Rover, h[i].rover, No)
  /\ issued' = issued /\ nextAcc' = nextAcc /\ gone' = gone /\ crossed' = crossed
  /\ failed' = failed /\ raced' = raced

RemoveDoes(i) ==
  /\ commands' = commands
  /\ h[i].pc = "remove" /\ h[i].rover \in Rover /\ h[i].acc \in Acc
  /\ Becomes(i, "done", "-", No, {}, FALSE) /\ gone' = gone \cup {h[i].acc}
  /\ Sets(pool, pool', Rover, h[i].rover, No) /\ Sets(subs, subs', Rover, h[i].rover, No)
  /\ row' = row /\ resolver' = resolver /\ keys' = keys /\ imports' = imports /\ issued' = issued
  /\ leaf' = leaf /\ nextAcc' = nextAcc /\ crossed' = crossed /\ failed' = failed /\ raced' = raced

FailsDoes(i) ==
  /\ commands' = commands
  /\ h[i].pc \in {"create", "list", "refresh", "revoke", "row"} /\ SameMemory
  /\ h[i].rover \in Rover /\ h[i].acc \in Acc
  /\ Becomes(i, "done", "-", No, {}, FALSE)
  /\ SetsTo(failed, failed', Rover, h[i].rover, failed[h[i].rover] \/ h[i].pc # "create")
  /\ row' = row /\ issued' = issued /\ nextAcc' = nextAcc /\ gone' = gone /\ crossed' = crossed
  /\ raced' = raced

RestartDoes(broken) ==
  /\ RestartBecomes /\ leaf' = {}
  /\ \A n \in Acc : resolver'[n] = IF \E r \in Rover : row[r] = n THEN "valid" ELSE "none"
  /\ \A r \in Rover : row[r] # No => row[r] \in keys' /\ row[r] \in imports'
  /\ \A r \in Rover : /\ pool'[r] = IF row[r] # No /\ r \notin broken THEN row[r] ELSE No
                      /\ subs'[r] = IF row[r] # No /\ r \notin broken THEN row[r] ELSE No
                      /\ ~crossed'[r] /\ (failed'[r] <=> r \in broken)
  /\ ~raced' /\ row' = row /\ issued' = issued /\ nextAcc' = nextAcc /\ gone' = gone
  /\ firehose' = {} /\ sent' = sent /\ arrived' = arrived /\ stray' = stray

\* The rovers' links, the connections and the commands.
LinksDo ==
  /\ h' = h /\ row' = row /\ resolver' = resolver /\ keys' = keys /\ imports' = imports
  /\ issued' = issued /\ subs' = subs /\ nextAcc' = nextAcc /\ gone' = gone /\ crossed' = crossed
  /\ failed' = failed /\ raced' = raced
  /\ \A n \in leaf' : n \in leaf \/ (n \in issued /\ resolver[n] = "valid")
  /\ \A r \in Rover : \/ pool'[r] = pool[r]
                      \/ pool'[r] = No /\ pool[r] # No /\ resolver[pool[r]] # "valid"
                      \/ pool[r] = No /\ row[r] # No /\ pool'[r] = row[r]
  /\ \/ commands' = commands
     \/ \E r \in Rover : Command(r) \/ \E b \in BOOLEAN : Relay(r, b)

\* No account is "no account".
LEMMA AccIsSome == \A n \in Acc : n # No
BY FleetAssumption DEF Acc, No

\* What the pool would connect as.
LEMMA ConnType ==
  ASSUME FleetType, NEW r \in Rover
  PROVE  Conn(r) \in Acc \cup {No}
BY DEF FleetType, TypeOK, Conn

Steps ==
  \/ \E i \in Handler :
       \/ \E r \in Rover : EnrollDoes(i, r) \/ DeleteDoes(i, r)
       \/ CreateDoes(i) \/ ListDoes(i) \/ RefreshDoes(i) \/ EnsureDoes(i) \/ AnswerDoes(i)
       \/ RevokeAccountDoes(i) \/ DeleteRowDoes(i) \/ RemoveDoes(i) \/ FailsDoes(i)
  \/ \E broken \in SUBSET Rover : RestartDoes(broken)
  \/ LinksDo

-----------------------------------------------------------------------------
(* The steps of the invariant. *)

\* The next account is nobody's yet (GenerateAccount).
LEMMA NewIsNew ==
  ASSUME FleetType, OldInv
  PROVE  /\ \A r \in Rover : row[r] # nextAcc
         /\ nextAcc \notin gone \cup issued
         /\ \A i \in Handler : h[i].acc # nextAcc
<1>1. nextAcc \in Nat /\ nextAcc # 0
  BY FleetAssumption DEF FleetType, RequestsOK
<1>2. \A n : Old(n) => n # nextAcc
  BY <1>1 DEF Old
<1>3. \A i \in Handler : h[i].acc # nextAcc
  BY <1>1, <1>2 DEF FleetType, RequestsOK, No
<1> QED
  BY <1>2, <1>3 DEF OldInv

\* The next account stays in range.
LEMMA AccountsGrow ==
  ASSUME FleetType, Steps
  PROVE  /\ nextAcc' \in 1 .. MaxAcc + 1 /\ nextAcc <= nextAcc'
         /\ \A n \in Nat : Old(n) => Old(n)'
         /\ Acc \subseteq Nat /\ Old(No)'
<1>1. nextAcc \in Nat \ {0} /\ nextAcc <= MaxAcc + 1
  BY FleetAssumption DEF FleetType, RequestsOK
<1>2. nextAcc' = nextAcc \/ (nextAcc' = nextAcc + 1 /\ nextAcc \in Acc)
  BY ZenonT(40) DEF Steps, EnrollDoes, DeleteDoes, CreateDoes, ListDoes, RefreshDoes, EnsureDoes, AnswerDoes,
     RevokeAccountDoes, DeleteRowDoes, RemoveDoes, FailsDoes, RestartDoes, LinksDo
<1> QED
  BY <1>1, <1>2, FleetAssumption DEF Acc, Old, No

\* A request that moves stays well-formed.
LEMMA BecomesOK ==
  ASSUME FleetType, Steps, NEW i \in Handler, NEW pc, NEW r, NEW n, NEW list, NEW stale,
         Becomes(i, pc, r, n, list, stale),
         \/ pc = "done" /\ r = "-" /\ n = No
         \/ pc # "done" /\ r \in Rover /\ n \in Acc /\ n < nextAcc'
  PROVE  RequestsOK'
BY AccountsGrow DEF FleetType, RequestsOK, Becomes, Old

\* Requests stay well-formed.
LEMMA RequestsStep ==
  ASSUME FleetType, OldInv, Steps
  PROVE  RequestsOK'
<1>1. \A i \in Handler : h[i].pc # "done" => h[i].rover \in Rover /\ h[i].acc \in Acc /\ h[i].acc < nextAcc'
  BY AccountsGrow DEF FleetType, RequestsOK, Old
<1>2. ASSUME NEW i \in Handler, NEW r \in Rover, EnrollDoes(i, r) PROVE RequestsOK'
  <2>1. nextAcc < nextAcc' /\ nextAcc \in Acc
    BY <1>2, FleetAssumption DEF EnrollDoes, FleetType, RequestsOK
  <2> QED
    BY Zenon, <1>2, <2>1, BecomesOK DEF EnrollDoes
<1>3. ASSUME NEW i \in Handler, NEW r \in Rover, DeleteDoes(i, r) PROVE RequestsOK'
  <2>1. row[r] \in Acc /\ row[r] < nextAcc'
    BY <1>3, AccountsGrow DEF DeleteDoes, OldInv, Old
  <2> QED
    BY Zenon, <1>3, <2>1, BecomesOK DEF DeleteDoes
<1>4. ASSUME NEW i \in Handler, CreateDoes(i) PROVE RequestsOK'
  <2>1. CASE Becomes(i, "done", "-", No, {}, FALSE)
    BY Zenon, <2>1, BecomesOK
  <2>2. CASE /\ h' \in [Handler -> Request] /\ h'[i].pc = "list"
             /\ \A j \in Handler \ {i} : h'[j].pc = h[j].pc
             /\ \A j \in Handler : h'[j].rover = h[j].rover /\ h'[j].acc = h[j].acc
    BY <1>1, <1>4, <2>2, AccountsGrow DEF CreateDoes, FleetType, RequestsOK, Old
  <2> QED
    BY Zenon, <1>4, <2>1, <2>2 DEF CreateDoes
<1>5. ASSUME NEW i \in Handler, ListDoes(i) PROVE RequestsOK'
  BY <1>1, <1>5, BecomesOK DEF ListDoes
<1>6. ASSUME NEW i \in Handler, RefreshDoes(i) PROVE RequestsOK'
  BY Zenon, <1>1, <1>6, BecomesOK DEF RefreshDoes
<1>7. ASSUME NEW i \in Handler, EnsureDoes(i) PROVE RequestsOK'
  <2>1. /\ Becomes(i, "answer", h[i].rover, h[i].acc, h[i].list, h[i].stale)
        /\ h[i].pc = "ensure"
    BY <1>7 DEF EnsureDoes
  <2> QED
    BY <1>1, <2>1, BecomesOK
<1>8. ASSUME NEW i \in Handler, AnswerDoes(i) \/ RemoveDoes(i) \/ FailsDoes(i) PROVE RequestsOK'
  <2>1. Becomes(i, "done", "-", No, {}, FALSE)
    BY Zenon, <1>8 DEF AnswerDoes, RemoveDoes, FailsDoes
  <2> QED
    BY Zenon, <2>1, BecomesOK
<1>9. ASSUME NEW i \in Handler, RevokeAccountDoes(i) PROVE RequestsOK'
  BY <1>1, <1>9, BecomesOK DEF RevokeAccountDoes
<1>10. ASSUME NEW i \in Handler, DeleteRowDoes(i) PROVE RequestsOK'
  BY <1>1, <1>10, BecomesOK DEF DeleteRowDoes
<1>11. ASSUME NEW broken \in SUBSET Rover, RestartDoes(broken) PROVE RequestsOK'
  BY <1>11 DEF RestartDoes, RestartBecomes, FleetType, RequestsOK
<1>12. CASE LinksDo
  BY <1>12 DEF LinksDo, FleetType, RequestsOK, Old
<1> QED
  BY <1>2, <1>3, <1>4, <1>5, <1>6, <1>7, <1>8, <1>9, <1>10, <1>11, <1>12 DEF Steps

\* Every account in use was made before.
LEMMA OldStep ==
  ASSUME FleetType, OldInv, Steps
  PROVE  OldInv'
<1>1. /\ \A r \in Rover : row[r] \in Nat
      /\ \A n \in gone \cup issued : n \in Nat
      /\ \A i \in Handler : h[i].pc # "done" => h[i].acc \in Nat /\ Old(h[i].acc)
  BY AccountsGrow DEF FleetType, TypeOK, RequestsOK, No
<1>2. \A r \in Rover : row'[r] \in {row[r], No} \/ \E i \in Handler : h[i].pc # "done" /\ row'[r] = h[i].acc
  BY ZenonT(40) DEF Steps, EnrollDoes, DeleteDoes, CreateDoes, ListDoes, RefreshDoes, EnsureDoes, AnswerDoes,
     RevokeAccountDoes, DeleteRowDoes, RemoveDoes, FailsDoes, RestartDoes, LinksDo, Sets
<1>3. \A n \in (gone \cup issued)' : n \in gone \cup issued \/ \E i \in Handler : h[i].pc # "done" /\ n = h[i].acc
  BY ZenonT(40) DEF Steps, EnrollDoes, DeleteDoes, CreateDoes, ListDoes, RefreshDoes, EnsureDoes, AnswerDoes,
     RevokeAccountDoes, DeleteRowDoes, RemoveDoes, FailsDoes, RestartDoes, LinksDo
<1>4. \A r \in Rover : Old(row[r])'
  BY <1>1, <1>2, AccountsGrow DEF OldInv, Old
<1>5. \A n \in (gone \cup issued)' : Old(n)'
  BY <1>1, <1>3, AccountsGrow DEF OldInv, Old
<1> QED
  BY <1>4, <1>5 DEF OldInv

\* No two rovers share an account.
LEMMA OneRowStep ==
  ASSUME FleetType, OneRow, FreshInv, Steps
  PROVE  OneRow'
<1>1. ASSUME NEW i \in Handler, CreateDoes(i) PROVE OneRow'
  <2>1. \A q \in Rover : row'[q] = row[q] \/ (q = h[i].rover /\ row'[q] = h[i].acc)
    BY Zenon, <1>1 DEF CreateDoes, Sets
  <2>2. \A q \in Rover : row[q] # h[i].acc
    BY <1>1 DEF CreateDoes, FreshInv, Fresh
  <2> QED
    BY <2>1, <2>2 DEF OneRow
<1>2. ASSUME NEW i \in Handler, DeleteRowDoes(i) PROVE OneRow'
  BY <1>2 DEF DeleteRowDoes, SameMemory, Sets, Becomes, OneRow
<1>3. CASE UNCHANGED <<row>>
  BY <1>3 DEF OneRow
<1> QED
  BY ZenonT(40), <1>1, <1>2, <1>3 DEF Steps, EnrollDoes, DeleteDoes, ListDoes, RefreshDoes, EnsureDoes,
     AnswerDoes, RevokeAccountDoes, RemoveDoes, FailsDoes, RestartDoes, LinksDo, SameMemory

\* Until its row is there, an account is known to its request alone.
LEMMA FreshStep ==
  ASSUME FleetType, OldInv, FreshInv, Steps
  PROVE  FreshInv'
<1>1. ASSUME NEW i \in Handler, NEW r \in Rover, EnrollDoes(i, r) PROVE FreshInv'
  <2>2. ASSUME NEW k \in Handler \ {i}, h'[k].pc = "create" PROVE Fresh(k)'
    <3>1. h'[k] = h[k] /\ Fresh(k) /\ h[k].acc \in Acc /\ h[k].acc # nextAcc
      BY <1>1, <2>2, NewIsNew DEF EnrollDoes, Becomes, FreshInv, FleetType, RequestsOK
    <3> QED
      BY <1>1, <3>1 DEF EnrollDoes, Becomes, Sets, Fresh
  <2>3. Fresh(i)'
    BY SMTT(30), <1>1, NewIsNew DEF EnrollDoes, Becomes, Sets, Fresh
  <2> QED
    BY <2>2, <2>3 DEF FreshInv
<1>2. ASSUME NEW i \in Handler, NEW r \in Rover, DeleteDoes(i, r) PROVE FreshInv'
  BY <1>2, AccIsSome DEF DeleteDoes, Becomes, FreshInv, Fresh, FleetType, RequestsOK
<1>3. ASSUME NEW i \in Handler, CreateDoes(i) PROVE FreshInv'
  <2>2. ASSUME NEW k \in Handler, h'[k].pc = "create" PROVE Fresh(k)'
    <3>1. k # i /\ h[k].pc = "create" /\ h'[k].acc = h[k].acc
      BY Zenon, <1>3, <2>2 DEF CreateDoes, Becomes
    <3>2. Fresh(k) /\ h[k].acc \in Acc /\ h[k].acc # h[i].acc /\ h[k].acc # No
      BY <3>1, AccIsSome DEF FreshInv, Fresh, FleetType, RequestsOK
    <3>3. \A r \in Rover : row'[r] # h[k].acc
      BY ZenonT(40), <1>3, <3>2 DEF CreateDoes, Sets, Fresh
    <3>4. \A j \in Handler \ {k} : h'[j].acc # h[k].acc
      BY Zenon, <1>3, <3>1, <3>2 DEF CreateDoes, Becomes, Fresh
    <3>5. h[k].acc \notin gone' \cup issued' /\ resolver'[h[k].acc] = "valid" /\ h[k].acc \in keys'
      BY <1>3, <3>2 DEF CreateDoes, SameMemory, Fresh
    <3> QED
      BY <3>1, <3>3, <3>4, <3>5 DEF Fresh
  <2> QED
    BY <2>2 DEF FreshInv
<1>4. ASSUME NEW i \in Handler, ListDoes(i) PROVE FreshInv'
  BY SMTT(30), <1>4, AccIsSome DEF ListDoes, SameMemory, Becomes, FreshInv, Fresh, FleetType, RequestsOK
<1>5. ASSUME NEW i \in Handler, RefreshDoes(i) PROVE FreshInv'
  BY SMTT(30), <1>5, AccIsSome DEF RefreshDoes, Becomes, FreshInv, Fresh, FleetType, RequestsOK
<1>6. ASSUME NEW i \in Handler, EnsureDoes(i) PROVE FreshInv'
  <2>1. ASSUME NEW k \in Handler, h'[k].pc = "create" PROVE Fresh(k)'
    <3>1. k # i /\ h'[k] = h[k] /\ Fresh(k)
      BY <1>6, <2>1 DEF EnsureDoes, Becomes, FreshInv
    <3>2. \A j \in Handler \ {k} : h'[j].acc \in {h[j].acc, No}
      BY <1>6 DEF EnsureDoes, Becomes
    <3>3. h[k].acc # No /\ h[k].acc # h[i].acc
      BY <2>1, <3>1, AccIsSome DEF Fresh, FleetType, RequestsOK
    <3>4. /\ gone' = gone /\ issued' \subseteq issued \cup {h[i].acc} /\ row' = row
          /\ resolver' = resolver /\ keys' = keys
      BY SMTT(30), <1>6 DEF EnsureDoes
    <3> QED
      BY SMTT(30), <3>1, <3>2, <3>3, <3>4 DEF Fresh
  <2> QED
    BY <2>1 DEF FreshInv
<1>7. ASSUME NEW i \in Handler, AnswerDoes(i) PROVE FreshInv'
  <2>1. ASSUME NEW k \in Handler, h'[k].pc = "create" PROVE Fresh(k)'
    <3>1. k # i /\ h'[k] = h[k] /\ Fresh(k)
      BY <1>7, <2>1 DEF AnswerDoes, Becomes, FreshInv
    <3>2. \A j \in Handler \ {k} : h'[j].acc \in {h[j].acc, No}
      BY <1>7 DEF AnswerDoes, Becomes
    <3>3. h[k].acc # No /\ h[k].acc # h[i].acc
      BY <2>1, <3>1, AccIsSome DEF Fresh, FleetType, RequestsOK
    <3>4. /\ gone' = gone /\ issued' \subseteq issued \cup {h[i].acc} /\ row' = row
          /\ resolver' = resolver /\ keys' = keys
      BY <1>7 DEF AnswerDoes, SameMemory
    <3> QED
      BY <3>1, <3>2, <3>3, <3>4 DEF Fresh
  <2> QED
    BY <2>1 DEF FreshInv
<1>8. ASSUME NEW i \in Handler, RevokeAccountDoes(i) PROVE FreshInv'
  BY <1>8, AccIsSome DEF RevokeAccountDoes, Sets, Becomes, FreshInv, Fresh, FleetType, RequestsOK
<1>9. ASSUME NEW i \in Handler, DeleteRowDoes(i) PROVE FreshInv'
  BY SMTT(30), <1>9, AccIsSome DEF DeleteRowDoes, SameMemory, Sets, Becomes, FreshInv, Fresh, FleetType,
     RequestsOK
<1>10. ASSUME NEW i \in Handler, RemoveDoes(i) PROVE FreshInv'
  BY SMTT(30), <1>10, AccIsSome DEF RemoveDoes, Becomes, FreshInv, Fresh, FleetType, RequestsOK
<1>11. ASSUME NEW i \in Handler, FailsDoes(i) PROVE FreshInv'
  BY SMTT(30), <1>11, AccIsSome DEF FailsDoes, SameMemory, Becomes, FreshInv, Fresh, FleetType, RequestsOK
<1>12. ASSUME NEW broken \in SUBSET Rover, RestartDoes(broken) PROVE FreshInv'
  BY SMTT(30), <1>12, AccIsSome DEF RestartDoes, RestartBecomes, FreshInv, Fresh, FleetType, RequestsOK
<1>13. CASE LinksDo
  BY <1>13, AccIsSome DEF LinksDo, FreshInv, Fresh
<1> QED
  BY SMTT(30), <1>1, <1>2, <1>3, <1>4, <1>5, <1>6, <1>7, <1>8, <1>9, <1>10, <1>11, <1>12, <1>13 DEF Steps

\* From revocation on, the account of a deletion is out of the resolver and off the hub.
LEMMA RevokedStep ==
  ASSUME FleetType, OldInv, OneRow, FreshInv, RevokedInv, Steps
  PROVE  RevokedInv'
<1>1. ASSUME NEW i \in Handler, NEW r \in Rover, EnrollDoes(i, r) PROVE RevokedInv'
  <2>2. ASSUME NEW k \in Handler \ {i} PROVE Revoked(k)'
    <3>1. h'[k] = h[k] /\ Revoked(k) /\ (h[k].pc # "done" => h[k].acc \in Acc /\ h[k].acc # nextAcc)
      BY SMTT(30), <1>1, NewIsNew DEF EnrollDoes, Becomes, RevokedInv, FleetType, RequestsOK
    <3> QED
      BY SMTT(30), <1>1, <3>1 DEF EnrollDoes, Sets, Revoked, Deleting
  <2>3. Revoked(i)'
    BY <1>1 DEF EnrollDoes, Becomes, Revoked, Deleting
  <2> QED
    BY <2>2, <2>3 DEF RevokedInv
<1>2. ASSUME NEW i \in Handler, NEW r \in Rover, DeleteDoes(i, r) PROVE RevokedInv'
  BY <1>2, AccIsSome DEF DeleteDoes, Becomes, RevokedInv, Revoked, Deleting, OneRow, FleetType,
     RequestsOK
<1>3. ASSUME NEW i \in Handler, CreateDoes(i) PROVE RevokedInv'
  <2>2. ASSUME NEW k \in Handler \ {i} PROVE Revoked(k)'
    <3>1. /\ h'[k].pc = h[k].pc /\ h'[k].acc = h[k].acc /\ h'[k].rover = h[k].rover
          /\ Revoked(k) /\ h[k].acc # h[i].acc
      BY Zenon, <1>3, <2>2 DEF CreateDoes, Becomes, RevokedInv, FreshInv, Fresh
    <3>2. \A r \in Rover : row'[r] = h[k].acc => row[r] = h[k].acc \/ h[k].acc = h[i].acc
      BY Zenon, <1>3 DEF CreateDoes, Sets
    <3> QED
      BY ZenonT(40), <1>3, <3>1, <3>2 DEF CreateDoes, SameMemory, Revoked
  <2>3. Revoked(i)'
    BY Zenon, <1>3 DEF CreateDoes, Becomes, Revoked, Deleting
  <2> QED
    BY <2>2, <2>3 DEF RevokedInv
<1>4. ASSUME NEW i \in Handler, ListDoes(i) PROVE RevokedInv'
  BY <1>4, AccIsSome DEF ListDoes, SameMemory, Becomes, RevokedInv, Revoked, Deleting, FleetType,
     RequestsOK
<1>5. ASSUME NEW i \in Handler, RefreshDoes(i) PROVE RevokedInv'
  BY SMTT(30), <1>5, AccIsSome DEF RefreshDoes, Becomes, RevokedInv, Revoked, Deleting, FleetType, RequestsOK
<1>6. ASSUME NEW i \in Handler, EnsureDoes(i) PROVE RevokedInv'
  <2>1. row' = row /\ resolver' = resolver /\ leaf' = leaf
    BY <1>6 DEF EnsureDoes
  <2>2. \A k \in Handler \ {i} : h'[k] = h[k]
    BY <1>6 DEF EnsureDoes, Becomes
  <2>3. h'[i].pc \in {"answer", "done"}
    BY SMTT(30), <1>6 DEF EnsureDoes, Becomes
  <2> QED
    BY <2>1, <2>2, <2>3 DEF RevokedInv, Revoked, Deleting
<1>7. ASSUME NEW i \in Handler, AnswerDoes(i) PROVE RevokedInv'
  <2>1. row' = row /\ resolver' = resolver /\ leaf' = leaf
    BY <1>7 DEF AnswerDoes, SameMemory
  <2>2. \A k \in Handler \ {i} : h'[k] = h[k]
    BY <1>7 DEF AnswerDoes, Becomes
  <2>3. h'[i].pc \in {"answer", "done"}
    BY <1>7 DEF AnswerDoes, Becomes
  <2> QED
    BY <2>1, <2>2, <2>3 DEF RevokedInv, Revoked, Deleting
<1>8. ASSUME NEW i \in Handler, RevokeAccountDoes(i) PROVE RevokedInv'
  BY <1>8, AccIsSome DEF RevokeAccountDoes, Sets, Becomes, RevokedInv, Revoked, Deleting, FleetType,
     RequestsOK
<1>9. ASSUME NEW i \in Handler, DeleteRowDoes(i) PROVE RevokedInv'
  BY SMTT(30), <1>9, AccIsSome DEF DeleteRowDoes, SameMemory, Sets, Becomes, RevokedInv, Revoked, Deleting,
     FleetType, RequestsOK
<1>10. ASSUME NEW i \in Handler, RemoveDoes(i) PROVE RevokedInv'
  BY SMTT(30), <1>10, AccIsSome DEF RemoveDoes, Becomes, RevokedInv, Revoked, Deleting, FleetType, RequestsOK
<1>11. ASSUME NEW i \in Handler, FailsDoes(i) PROVE RevokedInv'
  BY SMTT(30), <1>11, AccIsSome DEF FailsDoes, SameMemory, Becomes, RevokedInv, Revoked, Deleting, FleetType,
     RequestsOK
<1>12. ASSUME NEW broken \in SUBSET Rover, RestartDoes(broken) PROVE RevokedInv'
  BY SMTT(30), <1>12, AccIsSome DEF RestartDoes, RestartBecomes, RevokedInv, Revoked, Deleting, FleetType,
     RequestsOK
<1>13. CASE LinksDo
  BY <1>13, AccIsSome DEF LinksDo, RevokedInv, Revoked, Deleting, FleetType, RequestsOK
<1> QED
  BY SMTT(30), <1>1, <1>2, <1>3, <1>4, <1>5, <1>6, <1>7, <1>8, <1>9, <1>10, <1>11, <1>12, <1>13 DEF Steps

\* An account whose deletion has ended never comes back.
LEMMA GoneStep ==
  ASSUME FleetType, OldInv, FreshInv, RevokedInv, GoneInv, Steps
  PROVE  GoneInv'
<1>1. ASSUME NEW i \in Handler, NEW r \in Rover, EnrollDoes(i, r) PROVE GoneInv'
  BY ZenonT(40), <1>1, NewIsNew DEF EnrollDoes, Sets, Becomes, GoneInv, FleetType, TypeOK
<1>2. ASSUME NEW i \in Handler, CreateDoes(i) PROVE GoneInv'
  <2>1. \A q \in Rover : row'[q] = row[q] \/ row'[q] = h[i].acc
    BY Zenon, <1>2 DEF CreateDoes, Sets
  <2>2. h[i].acc \notin gone
    BY SMTT(30), <1>2 DEF CreateDoes, FreshInv, Fresh
  <2>3. gone' = gone /\ leaf' = leaf /\ resolver' = resolver
    BY <1>2 DEF CreateDoes, SameMemory
  <2> QED
    BY <2>1, <2>2, <2>3 DEF GoneInv
<1>3. ASSUME NEW i \in Handler, RevokeAccountDoes(i) PROVE GoneInv'
  BY <1>3 DEF RevokeAccountDoes, Sets, Becomes, GoneInv, FleetType, TypeOK
<1>4. ASSUME NEW i \in Handler, DeleteRowDoes(i) PROVE GoneInv'
  BY <1>4, AccIsSome DEF DeleteRowDoes, SameMemory, Sets, Becomes, GoneInv, FleetType, TypeOK
<1>5. ASSUME NEW i \in Handler, RemoveDoes(i) PROVE GoneInv'
  BY SMTT(30), <1>5 DEF RemoveDoes, Becomes, GoneInv, RevokedInv, Revoked
<1>6. ASSUME NEW broken \in SUBSET Rover, RestartDoes(broken) PROVE GoneInv'
  BY <1>6 DEF RestartDoes, RestartBecomes, GoneInv, FleetType, TypeOK
<1>7. CASE LinksDo
  BY Zenon, <1>7 DEF LinksDo, GoneInv
<1>8. CASE UNCHANGED <<row, resolver, leaf, gone>>
  BY <1>8 DEF GoneInv
<1> QED
  BY Zenon, <1>1, <1>2, <1>3, <1>4, <1>5, <1>6, <1>7, <1>8 DEF Steps, DeleteDoes, ListDoes, RefreshDoes,
     EnsureDoes, AnswerDoes, FailsDoes, SameMemory

\* Requests about a rover that did not overlap came one after the other.
LEMMA AloneStep ==
  ASSUME FleetType, AloneInv, Steps
  PROVE  AloneInv'
<1>1. ASSUME NEW i \in Handler, NEW r \in Rover, EnrollDoes(i, r) PROVE AloneInv'
  BY SMTT(30), <1>1, FleetAssumption, AccIsSome DEF EnrollDoes, Crosses, SetsTo, Sets, Becomes, AloneInv,
     Alone, FleetType, RequestsOK
<1>2. ASSUME NEW i \in Handler, NEW r \in Rover, DeleteDoes(i, r) PROVE AloneInv'
  BY <1>2, FleetAssumption, AccIsSome DEF DeleteDoes, Crosses, SetsTo, Becomes, AloneInv, Alone,
     FleetType, RequestsOK
<1>3. ASSUME NEW i \in Handler, CreateDoes(i) PROVE AloneInv'
  <2>2. \A j \in Handler \ {i} : h'[j].pc = h[j].pc /\ h'[j].acc = h[j].acc /\ h'[j].rover = h[j].rover
    BY Zenon, <1>3 DEF CreateDoes, Becomes
  <2>3. h'[i].rover = h[i].rover \/ h'[i].rover = "-"
    BY Zenon, <1>3 DEF CreateDoes, Becomes
  <2>4. ASSUME NEW k \in Handler \ {i} PROVE Alone(k)'
    <3> SUFFICES ASSUME h[k].pc # "done", ~crossed[h[k].rover]
                 PROVE  Alone(k)'
      BY Zenon, <1>3, <2>2 DEF Alone, CreateDoes
    <3>1. h[k].rover \in Rover /\ Alone(k)
      BY DEF FleetType, RequestsOK, AloneInv
    <3>2. h[k].rover # h[i].rover /\ row'[h[k].rover] = row[h[k].rover]
      BY Zenon, <1>3, <3>1 DEF Alone, CreateDoes, Sets
    <3>3. \A j \in Handler \ {k} : h'[j].rover # h[k].rover
      BY <2>2, <2>3, <3>1, FleetAssumption DEF Alone
    <3> QED
      BY <2>2, <3>1, <3>2, <3>3 DEF Alone
  <2>5. Alone(i)'
    <3>1. CASE h'[i].pc = "done"
      BY <3>1 DEF Alone
    <3>2. CASE h'[i].pc # "done"
      <4>1. /\ h'[i].pc = "list" /\ h'[i].rover = h[i].rover /\ h'[i].acc = h[i].acc
            /\ h[i].pc = "create" /\ h[i].rover \in Rover
            /\ row'[h[i].rover] = h[i].acc /\ crossed' = crossed
        BY Zenon, <1>3, <3>2 DEF CreateDoes, Becomes, Sets
      <4>2. ~crossed[h[i].rover] => \A j \in Handler \ {i} : h[j].rover # h[i].rover
        BY SMTT(30), <4>1 DEF AloneInv, Alone
      <4> QED
        BY <2>2, <4>1, <4>2 DEF Alone
    <3> QED
      BY <3>1, <3>2
  <2> QED
    BY <2>4, <2>5 DEF AloneInv
<1>4. ASSUME NEW i \in Handler, ListDoes(i) PROVE AloneInv'
  BY SMTT(30), <1>4, FleetAssumption, AccIsSome DEF ListDoes, SameMemory, Becomes, AloneInv, Alone, FleetType,
     RequestsOK
<1>5. ASSUME NEW i \in Handler, RefreshDoes(i) PROVE AloneInv'
  BY SMTT(30), <1>5, FleetAssumption, AccIsSome DEF RefreshDoes, Becomes, AloneInv, Alone, FleetType,
     RequestsOK
<1>6. ASSUME NEW i \in Handler, EnsureDoes(i) PROVE AloneInv'
  BY SMTT(30), <1>6, FleetAssumption, AccIsSome DEF EnsureDoes, Becomes, AloneInv, Alone, FleetType,
     RequestsOK
<1>7. ASSUME NEW i \in Handler, AnswerDoes(i) PROVE AloneInv'
  <2>1. row' = row /\ crossed' = crossed /\ h'[i].pc = "done" /\ h'[i].rover = "-"
    BY <1>7 DEF AnswerDoes, Becomes
  <2>2. \A k \in Handler \ {i} : h'[k] = h[k]
    BY <1>7 DEF AnswerDoes, Becomes
  <2>3. \A k \in Handler : h[k].pc # "done" => h[k].rover # "-"
    BY FleetAssumption DEF FleetType, RequestsOK
  <2> QED
    BY <2>1, <2>2, <2>3 DEF AloneInv, Alone
<1>8. ASSUME NEW i \in Handler, RevokeAccountDoes(i) PROVE AloneInv'
  BY <1>8, FleetAssumption, AccIsSome DEF RevokeAccountDoes, Sets, Becomes, AloneInv, Alone,
     FleetType, RequestsOK
<1>9. ASSUME NEW i \in Handler, DeleteRowDoes(i) PROVE AloneInv'
  <2>1. /\ crossed' = crossed /\ h[i].pc = "row" /\ h'[i].pc = "remove"
        /\ h'[i].rover = h[i].rover /\ row'[h[i].rover] = No
    BY <1>9 DEF DeleteRowDoes, Becomes, Sets
  <2>2. \A k \in Handler \ {i} : h'[k] = h[k]
    BY <1>9 DEF DeleteRowDoes, Becomes
  <2>3. \A r \in Rover \ {h[i].rover} : row'[r] = row[r]
    BY <1>9 DEF DeleteRowDoes, Sets
  <2>4. Alone(i)'
    BY <2>1, <2>2 DEF AloneInv, Alone
  <2>5. ASSUME NEW k \in Handler \ {i} PROVE Alone(k)'
    <3>1. h'[k] = h[k] /\ (h[k].pc # "done" => h[k].rover \in Rover)
      BY <2>2 DEF FleetType, RequestsOK
    <3> QED
      BY <2>1, <2>2, <2>3, <3>1 DEF AloneInv, Alone
  <2> QED
    BY <2>4, <2>5 DEF AloneInv
<1>10. ASSUME NEW i \in Handler, RemoveDoes(i) PROVE AloneInv'
  <2>1. row' = row /\ crossed' = crossed /\ h'[i].pc = "done" /\ h'[i].rover = "-"
    BY <1>10 DEF RemoveDoes, Becomes
  <2>2. \A k \in Handler \ {i} : h'[k] = h[k]
    BY SMTT(30), <1>10 DEF RemoveDoes, Becomes
  <2>3. \A k \in Handler : h[k].pc # "done" => h[k].rover # "-"
    BY FleetAssumption DEF FleetType, RequestsOK
  <2> QED
    BY <2>1, <2>2, <2>3 DEF AloneInv, Alone
<1>11. ASSUME NEW i \in Handler, FailsDoes(i) PROVE AloneInv'
  BY SMTT(30), <1>11, FleetAssumption, AccIsSome DEF FailsDoes, SameMemory, Becomes, AloneInv, Alone,
     FleetType, RequestsOK
<1>12. ASSUME NEW broken \in SUBSET Rover, RestartDoes(broken) PROVE AloneInv'
  BY <1>12, FleetAssumption, AccIsSome DEF RestartDoes, RestartBecomes, AloneInv, Alone, FleetType,
     RequestsOK
<1>13. CASE LinksDo
  BY Zenon, <1>13, FleetAssumption, AccIsSome DEF LinksDo, AloneInv, Alone, FleetType, RequestsOK
<1> QED
  BY SMTT(30), <1>1, <1>2, <1>3, <1>4, <1>5, <1>6, <1>7, <1>8, <1>9, <1>10, <1>11, <1>12, <1>13 DEF Steps

\* A file that was issued works only while its row is there.
LEMMA GhostStep ==
  ASSUME FleetType, OldInv, RevokedInv, AloneInv, GhostInv, Steps
  PROVE  GhostInv'
<1>1. ASSUME NEW i \in Handler, NEW r \in Rover, EnrollDoes(i, r) PROVE GhostInv'
  <2>1. \A q \in Rover : crossed[q] => crossed'[q]
    BY Zenon, <1>1 DEF EnrollDoes, Crosses, SetsTo
  <2> QED
    BY Zenon, <1>1, <2>1, NewIsNew DEF EnrollDoes, Sets, GhostInv, FleetType, TypeOK
<1>2. ASSUME NEW i \in Handler, NEW r \in Rover, DeleteDoes(i, r) PROVE GhostInv'
  BY <1>2 DEF DeleteDoes, Crosses, SetsTo, Becomes, GhostInv, FleetType, TypeOK
<1>3. ASSUME NEW i \in Handler, CreateDoes(i) PROVE GhostInv'
  <2>1. \A n \in issued : n # No
    BY AccIsSome DEF FleetType, TypeOK
  <2>2. \A q \in Rover : row'[q] = row[q] \/ row[q] = No
    BY Zenon, <1>3 DEF CreateDoes, Sets
  <2>3. crossed' = crossed /\ issued' = issued /\ resolver' = resolver
    BY Zenon, <1>3 DEF CreateDoes, SameMemory
  <2> QED
    BY <2>1, <2>2, <2>3 DEF GhostInv
<1>4. ASSUME NEW i \in Handler, AnswerDoes(i) PROVE GhostInv'
  BY Zenon, <1>4 DEF AnswerDoes, SameMemory, Becomes, GhostInv, AloneInv, Alone
<1>5. ASSUME NEW i \in Handler, RevokeAccountDoes(i) PROVE GhostInv'
  BY SMTT(30), <1>5 DEF RevokeAccountDoes, Sets, Becomes, GhostInv, FleetType, TypeOK
<1>6. ASSUME NEW i \in Handler, DeleteRowDoes(i) PROVE GhostInv'
  BY <1>6 DEF DeleteRowDoes, SameMemory, Sets, Becomes, GhostInv, RevokedInv, Revoked, AloneInv,
     Alone, FleetType, TypeOK
<1>7. ASSUME NEW broken \in SUBSET Rover, RestartDoes(broken) PROVE GhostInv'
  BY Zenon, <1>7 DEF RestartDoes, RestartBecomes, GhostInv, FleetType, TypeOK
<1>8. CASE LinksDo
  BY Zenon, <1>8 DEF LinksDo, GhostInv
<1>9. CASE UNCHANGED <<row, resolver, issued, crossed>>
  BY <1>9 DEF GhostInv
<1> QED
  BY Zenon, <1>1, <1>2, <1>3, <1>4, <1>5, <1>6, <1>7, <1>8, <1>9 DEF Steps, ListDoes, RefreshDoes,
     EnsureDoes, RemoveDoes, FailsDoes, SameMemory

\* A step that leaves what concerns a rover alone leaves it served.
LEMMA Elsewhere ==
  ASSUME FleetType, AloneInv, ServesInv, NEW q \in Rover, ~crossed[q],
         row'[q] = row[q], failed[q] => failed'[q], pool'[q] = pool[q], subs'[q] = subs[q],
         \A j \in Handler : h'[j].rover = q <=> h[j].rover = q,
         \A j \in Handler : h[j].rover = q => h'[j].pc = h[j].pc /\ h'[j].acc = h[j].acc,
         row[q] # No => resolver'[row[q]] = resolver[row[q]] /\ (row[q] \in keys <=> row[q] \in keys')
  PROVE  ServesAll(q)'
<1>1. ServesAll(q)
  BY DEF ServesInv
<1>2. Removing(q)' <=> Removing(q)
  BY SMTT(30) DEF Removing
<1>3. Unserved(q)'
  BY <1>1, <1>2 DEF ServesAll, Unserved
<1>4. ServedNow(q)'
  BY <1>1 DEF ServesAll, ServedNow, Serves
<1>5. InTheMaking(q)'
  <2> SUFFICES ASSUME NEW i \in Handler, h[i].rover = q, h[i].pc \in {"list", "refresh", "ensure"}
               PROVE  /\ resolver'[row[q]] = "valid" /\ row[q] \in keys'
                      /\ subs[q] = No /\ pool[q] \in {No, row[q]}
    BY Zenon DEF InTheMaking
  <2>1. row[q] = h[i].acc /\ h[i].acc \in Acc
    BY DEF AloneInv, Alone, FleetType, RequestsOK
  <2> QED
    BY Zenon, <1>1, <2>1, AccIsSome DEF ServesAll, InTheMaking
<1>6. OwnPool(q)'
  BY ZenonT(40), <1>1 DEF ServesAll, OwnPool
<1> QED
  BY ZenonT(40), <1>3, <1>4, <1>5, <1>6 DEF ServesAll

\* One request about q, i, before and after the step.
LEMMA OnlyOne ==
  ASSUME FleetType, AloneInv, NEW i \in Handler, h[i].rover \in Rover, ~crossed[h[i].rover],
         \A j \in Handler \ {i} : h'[j].rover = h[j].rover
  PROVE  \A j \in Handler \ {i} : h[j].rover # h[i].rover /\ h'[j].rover # h[i].rover
BY FleetAssumption DEF FleetType, RequestsOK, AloneInv, Alone

\* A rover in the table is served, or its request will see to it.
LEMMA ServesStep ==
  ASSUME FleetType, OldInv, OneRow, FreshInv, RevokedInv, AloneInv, ServesInv, Steps
  PROVE  ServesInv'
<1>1. ASSUME NEW i \in Handler, NEW r \in Rover, EnrollDoes(i, r) PROVE ServesInv'
  <2>2. ASSUME NEW q \in Rover, ~crossed'[q], q # r PROVE ServesAll(q)'
    <3>1. /\ ~crossed[q] /\ row'[q] = row[q] /\ (failed[q] => failed'[q]) /\ pool'[q] = pool[q] /\ subs'[q] = subs[q]
      BY ZenonT(40), <1>1, <2>2 DEF EnrollDoes, Crosses, SetsTo
    <3>2. \A j \in Handler : /\ h'[j].rover = q <=> h[j].rover = q
                             /\ h[j].rover = q => h'[j].pc = h[j].pc /\ h'[j].acc = h[j].acc
      BY <1>1, <2>2, FleetAssumption DEF EnrollDoes, Becomes, FleetType, RequestsOK
    <3>3. row[q] # No => resolver'[row[q]] = resolver[row[q]] /\ (row[q] \in keys <=> row[q] \in keys')
      BY Zenon, <1>1, <2>2, NewIsNew DEF EnrollDoes, Sets, FleetType, TypeOK
    <3> QED
      BY Zenon, <3>1, <3>2, <3>3, Elsewhere
  <2>3. ASSUME ~crossed'[r] PROVE ServesAll(r)'
    <3>1. ~crossed[r] /\ \A j \in Handler : h[j].rover # r
      BY ZenonT(40), <1>1, <2>3, FleetAssumption DEF EnrollDoes, Crosses, SetsTo, FleetType, RequestsOK
    <3>2. ServesAll(r)
      BY <3>1 DEF ServesInv
    <3>3. h'[i].rover = r /\ h'[i].pc = "create" /\ \A j \in Handler \ {i} : h'[j].rover # r
      BY Zenon, <1>1, <3>1 DEF EnrollDoes, Becomes
    <3>4. /\ row' = row /\ pool' = pool /\ subs' = subs /\ failed' = failed
          /\ (row[r] # No => resolver'[row[r]] = resolver[row[r]] /\ (row[r] \in keys => row[r] \in keys'))
      BY Zenon, <1>1, NewIsNew DEF EnrollDoes, Sets, FleetType, TypeOK
    <3>5. Unserved(r)'
      BY Zenon, <3>1, <3>2, <3>4 DEF ServesAll, Unserved, Removing
    <3>6. ServedNow(r)'
      BY Zenon, <3>1, <3>2, <3>4 DEF ServesAll, ServedNow, Serves
    <3>7. InTheMaking(r)'
      BY <3>3 DEF InTheMaking
    <3>8. OwnPool(r)'
      BY SMTT(30), <3>1, <3>2, <3>4 DEF ServesAll, OwnPool
    <3> QED
      BY <3>5, <3>6, <3>7, <3>8 DEF ServesAll
  <2> QED
    BY <2>2, <2>3 DEF ServesInv
<1>2. ASSUME NEW i \in Handler, NEW r \in Rover, DeleteDoes(i, r) PROVE ServesInv'
  <2>2. ASSUME NEW q \in Rover, ~crossed'[q], q # r PROVE ServesAll(q)'
    <3>1. /\ ~crossed[q] /\ row'[q] = row[q] /\ (failed[q] => failed'[q]) /\ pool'[q] = pool[q] /\ subs'[q] = subs[q]
      BY Zenon, <1>2, <2>2 DEF DeleteDoes, Crosses, SetsTo
    <3>2. \A j \in Handler : /\ h'[j].rover = q <=> h[j].rover = q
                             /\ h[j].rover = q => h'[j].pc = h[j].pc /\ h'[j].acc = h[j].acc
      BY SMTT(30), <1>2, <2>2, FleetAssumption DEF DeleteDoes, Becomes, FleetType, RequestsOK
    <3>3. row[q] # No => resolver'[row[q]] = resolver[row[q]] /\ (row[q] \in keys <=> row[q] \in keys')
      BY SMTT(30), <1>2, <2>2 DEF DeleteDoes, OneRow
    <3> QED
      BY Zenon, <3>1, <3>2, <3>3, Elsewhere
  <2>3. ASSUME ~crossed'[r] PROVE ServesAll(r)'
    <3>1. ~crossed[r] /\ \A j \in Handler : h[j].rover # r
      BY <1>2, <2>3, FleetAssumption DEF DeleteDoes, Crosses, SetsTo, FleetType, RequestsOK
    <3>2. ServesAll(r)
      BY <3>1 DEF ServesInv
    <3>3. h'[i].rover = r /\ h'[i].pc = "revoke" /\ \A j \in Handler \ {i} : h'[j].rover # r
      BY Zenon, <1>2, <3>1 DEF DeleteDoes, Becomes
    <3>4. /\ row' = row /\ pool' = pool /\ subs' = subs /\ failed' = failed
          /\ row[r] # No
      BY Zenon, <1>2, AccIsSome DEF DeleteDoes
    <3>5. Unserved(r)'
      BY Zenon, <1>2, <3>4, AccIsSome DEF DeleteDoes, Unserved
    <3>6. ServedNow(r)'
      BY <3>3 DEF ServedNow
    <3>7. InTheMaking(r)'
      BY <3>3 DEF InTheMaking
    <3>8. OwnPool(r)'
      BY <3>1, <3>2, <3>4 DEF ServesAll, OwnPool
    <3> QED
      BY <3>5, <3>6, <3>7, <3>8 DEF ServesAll
  <2> QED
    BY <2>2, <2>3 DEF ServesInv
<1>3. ASSUME NEW i \in Handler, CreateDoes(i) PROVE ServesInv'
  <2>2. ASSUME NEW q \in Rover, ~crossed'[q], q # h[i].rover PROVE ServesAll(q)'
    <3>1. /\ ~crossed[q] /\ row'[q] = row[q] /\ (failed[q] => failed'[q]) /\ pool'[q] = pool[q] /\ subs'[q] = subs[q]
      BY Zenon, <1>3, <2>2 DEF CreateDoes, SameMemory, Sets, SetsTo
    <3>2. \A j \in Handler : /\ h'[j].rover = q <=> h[j].rover = q
                             /\ h[j].rover = q => h'[j].pc = h[j].pc /\ h'[j].acc = h[j].acc
      BY Zenon, <1>3, <2>2, FleetAssumption DEF CreateDoes, Becomes, FleetType, RequestsOK
    <3>3. row[q] # No => resolver'[row[q]] = resolver[row[q]] /\ (row[q] \in keys <=> row[q] \in keys')
      BY Zenon, <1>3, <2>2 DEF CreateDoes, SameMemory
    <3> QED
      BY Zenon, <3>1, <3>2, <3>3, Elsewhere
  <2>3. ASSUME NEW q \in Rover, ~crossed'[q], q = h[i].rover PROVE ServesAll(q)'
    <3>1. ~crossed[h[i].rover] /\ ServesAll(h[i].rover)
      BY Zenon, <1>3, <2>3 DEF CreateDoes, ServesInv
    <3>2. \A j \in Handler \ {i} : h[j].rover # h[i].rover /\ h'[j].rover # h[i].rover
      BY Zenon, <1>3, <3>1, OnlyOne DEF CreateDoes, Becomes
    <3>3. /\ h[i].pc = "create" /\ resolver' = resolver /\ keys' = keys /\ pool' = pool /\ subs' = subs
          /\ resolver[h[i].acc] = "valid" /\ h[i].acc \in keys /\ h[i].acc # No
      BY Zenon, <1>3, AccIsSome DEF CreateDoes, SameMemory, FreshInv, Fresh
    <3>4. \/ row' = row /\ failed' = failed /\ row[h[i].rover] # No /\ h'[i].rover # h[i].rover
          \/ /\ row[h[i].rover] = No /\ row'[h[i].rover] = h[i].acc
             /\ h'[i].rover = h[i].rover /\ h'[i].pc = "list"
      BY Zenon, <1>3, FleetAssumption DEF CreateDoes, Becomes, Sets
    <3>5. Unserved(q)'
      BY Zenon, <2>3, <3>1, <3>2, <3>3, <3>4 DEF ServesAll, Unserved, Removing
    <3>6. ServedNow(q)'
      BY Zenon, <2>3, <3>1, <3>2, <3>3, <3>4 DEF ServesAll, ServedNow, Serves
    <3>7. InTheMaking(q)'
      BY Zenon, <2>3, <3>1, <3>2, <3>3, <3>4 DEF ServesAll, InTheMaking, Unserved, Removing
    <3>8. OwnPool(q)'
      BY Zenon, <2>3, <3>1, <3>2, <3>3, <3>4 DEF ServesAll, Unserved, Removing, OwnPool
    <3> QED
      BY <3>5, <3>6, <3>7, <3>8 DEF ServesAll
  <2> QED
    BY <2>2, <2>3 DEF ServesInv
<1>4. ASSUME NEW i \in Handler, ListDoes(i) PROVE ServesInv'
  <2>2. ASSUME NEW q \in Rover, ~crossed'[q], q # h[i].rover PROVE ServesAll(q)'
    <3>1. /\ ~crossed[q] /\ row'[q] = row[q] /\ (failed[q] => failed'[q]) /\ pool'[q] = pool[q] /\ subs'[q] = subs[q]
      BY SMTT(30), <1>4, <2>2 DEF ListDoes, SameMemory
    <3>2. \A j \in Handler : /\ h'[j].rover = q <=> h[j].rover = q
                             /\ h[j].rover = q => h'[j].pc = h[j].pc /\ h'[j].acc = h[j].acc
      BY <1>4, <2>2, FleetAssumption DEF ListDoes, Becomes, FleetType, RequestsOK
    <3>3. row[q] # No => resolver'[row[q]] = resolver[row[q]] /\ (row[q] \in keys <=> row[q] \in keys')
      BY SMTT(30), <1>4, <2>2 DEF ListDoes, SameMemory
    <3> QED
      BY Zenon, <3>1, <3>2, <3>3, Elsewhere
  <2>3. ASSUME NEW q \in Rover, ~crossed'[q], q = h[i].rover PROVE ServesAll(q)'
    <3>1. ~crossed[h[i].rover] /\ ServesAll(h[i].rover)
      BY SMTT(30), <1>4, <2>3 DEF ListDoes, ServesInv
    <3>2. \A j \in Handler \ {i} : h[j].rover # h[i].rover /\ h'[j].rover # h[i].rover
      BY SMTT(30), <1>4, <3>1, OnlyOne DEF ListDoes, Becomes
    <3>3. h[i].pc = "list" /\ h'[i].pc = "refresh" /\ h'[i].rover = h[i].rover
          /\ row' = row /\ pool' = pool /\ subs' = subs /\ failed' = failed /\ resolver' = resolver /\ keys' = keys
      BY ZenonT(40), <1>4, <3>1 DEF ListDoes, SameMemory, Becomes
    <3>5. Unserved(q)'
      BY SMTT(30), <2>3, <3>1, <3>2, <3>3 DEF ServesAll, Unserved, Removing
    <3>6. ServedNow(q)'
      BY <2>3, <3>3 DEF ServedNow
    <3>7. InTheMaking(q)'
      BY Zenon, <2>3, <3>1, <3>2, <3>3 DEF ServesAll, InTheMaking
    <3>8. OwnPool(q)'
      BY Zenon, <2>3, <3>1, <3>2, <3>3 DEF ServesAll, OwnPool
    <3> QED
      BY <3>5, <3>6, <3>7, <3>8 DEF ServesAll
  <2> QED
    BY <2>2, <2>3 DEF ServesInv
<1>5. ASSUME NEW i \in Handler, RefreshDoes(i) PROVE ServesInv'
  <2>2. ASSUME NEW q \in Rover, ~crossed'[q], q # h[i].rover PROVE ServesAll(q)'
    <3>1. /\ ~crossed[q] /\ row'[q] = row[q] /\ (failed[q] => failed'[q]) /\ pool'[q] = pool[q] /\ subs'[q] = subs[q]
      BY Zenon, <1>5, <2>2 DEF RefreshDoes
    <3>2. \A j \in Handler : /\ h'[j].rover = q <=> h[j].rover = q
                             /\ h[j].rover = q => h'[j].pc = h[j].pc /\ h'[j].acc = h[j].acc
      BY Zenon, <1>5, <2>2, FleetAssumption DEF RefreshDoes, Becomes, FleetType, RequestsOK
    <3>3. row[q] # No => resolver'[row[q]] = resolver[row[q]] /\ (row[q] \in keys <=> row[q] \in keys')
      BY Zenon, <1>5, <2>2 DEF RefreshDoes
    <3> QED
      BY Zenon, <3>1, <3>2, <3>3, Elsewhere
  <2>3. ASSUME NEW q \in Rover, ~crossed'[q], q = h[i].rover PROVE ServesAll(q)'
    <3>1. ~crossed[h[i].rover] /\ ServesAll(h[i].rover)
      BY ZenonT(40), <1>5, <2>3 DEF RefreshDoes, ServesInv
    <3>2. \A j \in Handler \ {i} : h[j].rover # h[i].rover /\ h'[j].rover # h[i].rover
      BY SMTT(30), <1>5, <3>1, OnlyOne DEF RefreshDoes, Becomes
    <3>3. h[i].pc = "refresh" /\ h'[i].pc = "ensure" /\ h'[i].rover = h[i].rover
          /\ row' = row /\ pool' = pool /\ subs' = subs /\ failed' = failed /\ resolver' = resolver /\ keys' = keys
      BY <1>5, <3>1 DEF RefreshDoes, Becomes
    <3>5. Unserved(q)'
      BY Zenon, <2>3, <3>1, <3>2, <3>3 DEF ServesAll, Unserved, Removing
    <3>6. ServedNow(q)'
      BY <2>3, <3>3 DEF ServedNow
    <3>7. InTheMaking(q)'
      BY Zenon, <2>3, <3>1, <3>2, <3>3 DEF ServesAll, InTheMaking
    <3>8. OwnPool(q)'
      BY ZenonT(40), <2>3, <3>1, <3>2, <3>3 DEF ServesAll, OwnPool
    <3> QED
      BY <3>5, <3>6, <3>7, <3>8 DEF ServesAll
  <2> QED
    BY <2>2, <2>3 DEF ServesInv
<1>6. ASSUME NEW i \in Handler, EnsureDoes(i) PROVE ServesInv'
  <2>2. ASSUME NEW q \in Rover, ~crossed'[q], q # h[i].rover PROVE ServesAll(q)'
    <3>1. /\ ~crossed[q] /\ row'[q] = row[q] /\ (failed[q] => failed'[q]) /\ pool'[q] = pool[q] /\ subs'[q] = subs[q]
      BY <1>6, <2>2 DEF EnsureDoes, Sets, SetsTo
    <3>2. \A j \in Handler : /\ h'[j].rover = q <=> h[j].rover = q
                             /\ h[j].rover = q => h'[j].pc = h[j].pc /\ h'[j].acc = h[j].acc
      BY Zenon, <1>6, <2>2, FleetAssumption DEF EnsureDoes, Becomes, FleetType, RequestsOK
    <3>3. row[q] # No => resolver'[row[q]] = resolver[row[q]] /\ (row[q] \in keys <=> row[q] \in keys')
      BY Zenon, <1>6, <2>2 DEF EnsureDoes
    <3> QED
      BY SMTT(30), <3>1, <3>2, <3>3, Elsewhere
  <2>3. ASSUME NEW q \in Rover, ~crossed'[q], q = h[i].rover PROVE ServesAll(q)'
    <3>1. ~crossed[h[i].rover] /\ ServesAll(h[i].rover)
      BY Zenon, <1>6, <2>3 DEF EnsureDoes, ServesInv
    <3>2. \A j \in Handler \ {i} : h[j].rover # h[i].rover /\ h'[j].rover # h[i].rover
      BY Zenon, <1>6, <3>1, OnlyOne DEF EnsureDoes, Becomes
    <3>3. h[i].pc = "ensure" /\ h'[i].pc = "answer" /\ h'[i].rover = h[i].rover
          /\ row' = row /\ resolver' = resolver /\ keys' = keys /\ row[h[i].rover] # No
      BY Zenon, <1>6, <3>1, AccIsSome DEF EnsureDoes, Becomes, AloneInv, Alone
    <3>5. Unserved(q)'
      BY <2>3, <3>3 DEF Unserved
    <3>6. ServedNow(q)'
      BY Zenon, <2>3, <1>6, <3>1, <3>2, <3>3 DEF EnsureDoes, Sets, SetsTo, Conn, CanConnect, ServesAll,
         InTheMaking, ServedNow, Serves
    <3>7. InTheMaking(q)'
      BY Zenon, <2>3, <3>2, <3>3 DEF InTheMaking
    <3>8. OwnPool(q)'
      BY Zenon, <2>3, <1>6, <3>1, <3>2, <3>3 DEF EnsureDoes, Sets, Conn, CanConnect, ServesAll,
         InTheMaking, OwnPool
    <3> QED
      BY <3>5, <3>6, <3>7, <3>8 DEF ServesAll
  <2> QED
    BY <2>2, <2>3 DEF ServesInv
<1>7. ASSUME NEW i \in Handler, AnswerDoes(i) PROVE ServesInv'
  <2>2. ASSUME NEW q \in Rover, ~crossed'[q], q # h[i].rover PROVE ServesAll(q)'
    <3>1. /\ ~crossed[q] /\ row'[q] = row[q] /\ (failed[q] => failed'[q]) /\ pool'[q] = pool[q] /\ subs'[q] = subs[q]
      BY ZenonT(40), <1>7, <2>2 DEF AnswerDoes, SameMemory
    <3>2. \A j \in Handler : /\ h'[j].rover = q <=> h[j].rover = q
                             /\ h[j].rover = q => h'[j].pc = h[j].pc /\ h'[j].acc = h[j].acc
      BY <1>7, <2>2, FleetAssumption DEF AnswerDoes, Becomes, FleetType, RequestsOK
    <3>3. row[q] # No => resolver'[row[q]] = resolver[row[q]] /\ (row[q] \in keys <=> row[q] \in keys')
      BY Zenon, <1>7, <2>2 DEF AnswerDoes, SameMemory
    <3> QED
      BY <3>1, <3>2, <3>3, Elsewhere
  <2>3. ASSUME NEW q \in Rover, ~crossed'[q], q = h[i].rover PROVE ServesAll(q)'
    <3>1. ~crossed[h[i].rover] /\ ServesAll(h[i].rover)
      BY ZenonT(40), <1>7, <2>3 DEF AnswerDoes, ServesInv
    <3>2. \A j \in Handler \ {i} : h[j].rover # h[i].rover /\ h'[j].rover # h[i].rover
      BY ZenonT(40), <1>7, <3>1, OnlyOne DEF AnswerDoes, Becomes
    <3>3. h[i].pc = "answer" /\ h'[i].rover # h[i].rover
          /\ row' = row /\ pool' = pool /\ subs' = subs /\ failed' = failed /\ resolver' = resolver /\ keys' = keys
      BY ZenonT(40), <1>7, <3>1, FleetAssumption DEF AnswerDoes, SameMemory, Becomes
    <3>5. Unserved(q)'
      BY Zenon, <2>3, <3>1, <3>2, <3>3 DEF ServesAll, Unserved, Removing
    <3>6. ServedNow(q)'
      BY ZenonT(40), <2>3, <3>1, <3>2, <3>3 DEF ServesAll, ServedNow, Serves
    <3>7. InTheMaking(q)'
      BY SMTT(30), <2>3, <3>2, <3>3 DEF InTheMaking
    <3>8. OwnPool(q)'
      BY SMTT(30), <2>3, <3>1, <3>2, <3>3 DEF ServesAll, OwnPool
    <3> QED
      BY <3>5, <3>6, <3>7, <3>8 DEF ServesAll
  <2> QED
    BY <2>2, <2>3 DEF ServesInv
<1>8. ASSUME NEW i \in Handler, RevokeAccountDoes(i) PROVE ServesInv'
  <2>2. ASSUME NEW q \in Rover, ~crossed'[q], q # h[i].rover PROVE ServesAll(q)'
    <3>1. /\ ~crossed[q] /\ row'[q] = row[q] /\ (failed[q] => failed'[q]) /\ pool'[q] = pool[q] /\ subs'[q] = subs[q]
      BY Zenon, <1>8, <2>2 DEF RevokeAccountDoes
    <3>2. \A j \in Handler : /\ h'[j].rover = q <=> h[j].rover = q
                             /\ h[j].rover = q => h'[j].pc = h[j].pc /\ h'[j].acc = h[j].acc
      BY SMTT(30), <1>8, <2>2, FleetAssumption DEF RevokeAccountDoes, Becomes, FleetType, RequestsOK
    <3>3. row[q] # No => resolver'[row[q]] = resolver[row[q]] /\ (row[q] \in keys <=> row[q] \in keys')
      BY SMTT(30), <1>8, <2>2 DEF RevokeAccountDoes, Sets, RevokedInv, Revoked, Deleting, FleetType, TypeOK
    <3> QED
      BY <3>1, <3>2, <3>3, Elsewhere
  <2>3. ASSUME NEW q \in Rover, ~crossed'[q], q = h[i].rover PROVE ServesAll(q)'
    <3>1. ~crossed[h[i].rover] /\ ServesAll(h[i].rover)
      BY <1>8, <2>3 DEF RevokeAccountDoes, ServesInv
    <3>2. \A j \in Handler \ {i} : h[j].rover # h[i].rover /\ h'[j].rover # h[i].rover
      BY ZenonT(40), <1>8, <3>1, OnlyOne DEF RevokeAccountDoes, Becomes
    <3>3. h[i].pc = "revoke" /\ h'[i].pc = "row" /\ h'[i].rover = h[i].rover
          /\ row' = row /\ pool' = pool /\ subs' = subs
      BY SMTT(30), <1>8, <3>1 DEF RevokeAccountDoes, Becomes
    <3>5. Unserved(q)'
      BY SMTT(30), <2>3, <3>1, <3>2, <3>3 DEF ServesAll, Unserved, Removing
    <3>6. ServedNow(q)'
      BY <2>3, <3>3 DEF ServedNow
    <3>7. InTheMaking(q)'
      BY Zenon, <2>3, <3>2, <3>3 DEF InTheMaking
    <3>8. OwnPool(q)'
      BY Zenon, <2>3, <3>1, <3>2, <3>3 DEF ServesAll, OwnPool
    <3> QED
      BY <3>5, <3>6, <3>7, <3>8 DEF ServesAll
  <2> QED
    BY <2>2, <2>3 DEF ServesInv
<1>9. ASSUME NEW i \in Handler, DeleteRowDoes(i) PROVE ServesInv'
  <2>2. ASSUME NEW q \in Rover, ~crossed'[q], q # h[i].rover PROVE ServesAll(q)'
    <3>1. /\ ~crossed[q] /\ row'[q] = row[q] /\ (failed[q] => failed'[q]) /\ pool'[q] = pool[q] /\ subs'[q] = subs[q]
      BY ZenonT(40), <1>9, <2>2 DEF DeleteRowDoes, SameMemory, Sets
    <3>2. \A j \in Handler : /\ h'[j].rover = q <=> h[j].rover = q
                             /\ h[j].rover = q => h'[j].pc = h[j].pc /\ h'[j].acc = h[j].acc
      BY SMTT(30), <1>9, <2>2, FleetAssumption DEF DeleteRowDoes, Becomes, FleetType, RequestsOK
    <3>3. row[q] # No => resolver'[row[q]] = resolver[row[q]] /\ (row[q] \in keys <=> row[q] \in keys')
      BY Zenon, <1>9, <2>2 DEF DeleteRowDoes, SameMemory
    <3> QED
      BY <3>1, <3>2, <3>3, Elsewhere
  <2>3. ASSUME NEW q \in Rover, ~crossed'[q], q = h[i].rover PROVE ServesAll(q)'
    <3>1. ~crossed[h[i].rover] /\ ServesAll(h[i].rover)
      BY Zenon, <1>9, <2>3 DEF DeleteRowDoes, ServesInv
    <3>2. \A j \in Handler \ {i} : h[j].rover # h[i].rover /\ h'[j].rover # h[i].rover
      BY Zenon, <1>9, <3>1, OnlyOne DEF DeleteRowDoes, Becomes
    <3>3. h[i].pc = "row" /\ h'[i].pc = "remove" /\ h'[i].rover = h[i].rover /\ h'[i].acc = h[i].acc
          /\ pool' = pool /\ row[h[i].rover] = h[i].acc
      BY Zenon, <1>9, <3>1 DEF DeleteRowDoes, SameMemory, Becomes, AloneInv, Alone
    <3>5. Unserved(q)'
      BY ZenonT(40), <2>3, <3>3 DEF Unserved, Removing
    <3>6. ServedNow(q)'
      BY Zenon, <2>3, <3>3 DEF ServedNow
    <3>7. InTheMaking(q)'
      BY <2>3, <3>2, <3>3 DEF InTheMaking
    <3>8. OwnPool(q)'
      BY Zenon, <2>3, <3>1, <3>2, <3>3 DEF ServesAll, OwnPool
    <3> QED
      BY <3>5, <3>6, <3>7, <3>8 DEF ServesAll
  <2> QED
    BY <2>2, <2>3 DEF ServesInv
<1>10. ASSUME NEW i \in Handler, RemoveDoes(i) PROVE ServesInv'
  <2>2. ASSUME NEW q \in Rover, ~crossed'[q], q # h[i].rover PROVE ServesAll(q)'
    <3>1. /\ ~crossed[q] /\ row'[q] = row[q] /\ (failed[q] => failed'[q]) /\ pool'[q] = pool[q] /\ subs'[q] = subs[q]
      BY Zenon, <1>10, <2>2 DEF RemoveDoes, Sets
    <3>2. \A j \in Handler : /\ h'[j].rover = q <=> h[j].rover = q
                             /\ h[j].rover = q => h'[j].pc = h[j].pc /\ h'[j].acc = h[j].acc
      BY Zenon, <1>10, <2>2, FleetAssumption DEF RemoveDoes, Becomes, FleetType, RequestsOK
    <3>3. row[q] # No => resolver'[row[q]] = resolver[row[q]] /\ (row[q] \in keys <=> row[q] \in keys')
      BY Zenon, <1>10, <2>2 DEF RemoveDoes
    <3> QED
      BY <3>1, <3>2, <3>3, Elsewhere
  <2>3. ASSUME NEW q \in Rover, ~crossed'[q], q = h[i].rover PROVE ServesAll(q)'
    <3>1. ~crossed[h[i].rover] /\ ServesAll(h[i].rover)
      BY Zenon, <1>10, <2>3 DEF RemoveDoes, ServesInv
    <3>2. \A j \in Handler \ {i} : h[j].rover # h[i].rover /\ h'[j].rover # h[i].rover
      BY Zenon, <1>10, <3>1, OnlyOne DEF RemoveDoes, Becomes
    <3>3. h'[i].rover # h[i].rover /\ row'[h[i].rover] = No
          /\ pool'[h[i].rover] = No /\ subs'[h[i].rover] = No
      BY Zenon, <1>10, <3>1, FleetAssumption DEF RemoveDoes, Sets, Becomes, AloneInv, Alone
    <3>5. Unserved(q)'
      BY <2>3, <3>3 DEF Unserved
    <3>6. ServedNow(q)'
      BY Zenon, <2>3, <3>3 DEF ServedNow
    <3>7. InTheMaking(q)'
      BY SMTT(30), <2>3, <3>2, <3>3 DEF InTheMaking
    <3>8. OwnPool(q)'
      BY SMTT(30), <2>3, <3>3 DEF OwnPool
    <3> QED
      BY <3>5, <3>6, <3>7, <3>8 DEF ServesAll
  <2> QED
    BY <2>2, <2>3 DEF ServesInv
<1>11. ASSUME NEW i \in Handler, FailsDoes(i) PROVE ServesInv'
  <2>2. ASSUME NEW q \in Rover, ~crossed'[q], q # h[i].rover PROVE ServesAll(q)'
    <3>1. /\ ~crossed[q] /\ row'[q] = row[q] /\ (failed[q] => failed'[q]) /\ pool'[q] = pool[q] /\ subs'[q] = subs[q]
      BY <1>11, <2>2 DEF FailsDoes, SameMemory, SetsTo
    <3>2. \A j \in Handler : /\ h'[j].rover = q <=> h[j].rover = q
                             /\ h[j].rover = q => h'[j].pc = h[j].pc /\ h'[j].acc = h[j].acc
      BY ZenonT(40), <1>11, <2>2, FleetAssumption DEF FailsDoes, Becomes, FleetType, RequestsOK
    <3>3. row[q] # No => resolver'[row[q]] = resolver[row[q]] /\ (row[q] \in keys <=> row[q] \in keys')
      BY SMTT(30), <1>11, <2>2 DEF FailsDoes, SameMemory
    <3> QED
      BY <3>1, <3>2, <3>3, Elsewhere
  <2>3. ASSUME NEW q \in Rover, ~crossed'[q], q = h[i].rover PROVE ServesAll(q)'
    <3>1. ~crossed[h[i].rover] /\ ServesAll(h[i].rover)
      BY Zenon, <1>11, <2>3 DEF FailsDoes, ServesInv
    <3>2. \A j \in Handler \ {i} : h[j].rover # h[i].rover /\ h'[j].rover # h[i].rover
      BY ZenonT(40), <1>11, <3>1, OnlyOne DEF FailsDoes, Becomes
    <3>3. h[i].pc # "remove" /\ h'[i].rover # h[i].rover
          /\ row' = row /\ pool' = pool /\ subs' = subs /\ resolver' = resolver /\ keys' = keys
          /\ (~failed'[h[i].rover] => ~failed[h[i].rover] /\ h[i].pc = "create")
      BY <1>11, <3>1, FleetAssumption DEF FailsDoes, SameMemory, SetsTo, Becomes
    <3>5. Unserved(q)'
      BY Zenon, <2>3, <3>1, <3>2, <3>3 DEF ServesAll, Unserved, Removing
    <3>6. ServedNow(q)'
      BY Zenon, <2>3, <3>1, <3>2, <3>3 DEF ServesAll, ServedNow, Serves
    <3>7. InTheMaking(q)'
      BY Zenon, <2>3, <3>2, <3>3 DEF InTheMaking
    <3>8. OwnPool(q)'
      BY Zenon, <2>3, <3>1, <3>2, <3>3 DEF ServesAll, OwnPool
    <3> QED
      BY <3>5, <3>6, <3>7, <3>8 DEF ServesAll
  <2> QED
    BY <2>2, <2>3 DEF ServesInv
<1>12. ASSUME NEW broken \in SUBSET Rover, RestartDoes(broken) PROVE ServesInv'
  <2>1. ASSUME NEW q \in Rover PROVE ServesAll(q)'
    <3>1. \A j \in Handler : h'[j].rover # q
      BY <1>12, FleetAssumption DEF RestartDoes, RestartBecomes
    <3>2. row' = row /\ (row[q] # No => row[q] \in keys')
      BY <1>12 DEF RestartDoes
    <3>3. row[q] # No => resolver'[row[q]] = "valid"
      <4>1. row[q] # No => row[q] \in Acc
        BY SMTT(30) DEF FleetType, TypeOK
      <4> QED
        BY <1>12, <4>1 DEF RestartDoes
    <3>4. pool'[q] \in {row[q], No} /\ subs'[q] = pool'[q] /\ (row[q] # No /\ ~failed'[q] => pool'[q] = row[q])
      BY <1>12 DEF RestartDoes
    <3>5. Unserved(q)' /\ OwnPool(q)'
      BY Zenon, <3>2, <3>4 DEF Unserved, OwnPool
    <3>6. ServedNow(q)' /\ InTheMaking(q)'
      BY Zenon, <3>1, <3>2, <3>3, <3>4 DEF ServedNow, Serves, InTheMaking
    <3> QED
      BY SMTT(30), <3>5, <3>6 DEF ServesAll
  <2> QED
    BY <2>1 DEF ServesInv
<1>13. CASE LinksDo
  <2>1. ASSUME NEW q \in Rover, ~crossed'[q] PROVE ServesAll(q)'
    <3>1. ~crossed[q] /\ ServesAll(q)
      BY <1>13, <2>1 DEF LinksDo, ServesInv
    <3>2. /\ row' = row /\ h' = h /\ resolver' = resolver /\ keys' = keys /\ failed' = failed /\ subs' = subs
          /\ \/ pool'[q] = pool[q]
             \/ pool'[q] = No /\ pool[q] # No /\ resolver[pool[q]] # "valid"
             \/ pool[q] = No /\ row[q] # No /\ pool'[q] = row[q]
      BY SMTT(30), <1>13 DEF LinksDo
    <3>3. Unserved(q)'
      BY SMTT(30), <3>1, <3>2 DEF ServesAll, Unserved, Removing
    <3>4. ServedNow(q)'
      BY SMTT(30), <3>1, <3>2 DEF ServesAll, ServedNow, Serves
    <3>5. InTheMaking(q)' /\ OwnPool(q)'
      BY SMTT(30), <3>1, <3>2 DEF ServesAll, InTheMaking, OwnPool
    <3> QED
      BY SMTT(30), <3>3, <3>4, <3>5 DEF ServesAll
  <2> QED
    BY Zenon, <2>1 DEF ServesInv
<1> QED
  BY SMTT(30), <1>1, <1>2, <1>3, <1>4, <1>5, <1>6, <1>7, <1>8, <1>9, <1>10, <1>11, <1>12, <1>13 DEF Steps
=============================================================================
