---------------------------- MODULE ModulesSteps ----------------------------
(***************************************************************************)
(* What each step of the module manager does to the state, whatever the    *)
(* sets of modules, versions, configs and HTTP handlers, and that it keeps *)
(* the types. ModulesProofs proves the manager's promises from the effects *)
(* stated here.                                                            *)
(*                                                                         *)
(* The promises are made while no two goroutines met (~overlap): then at   *)
(* most one is at work, and the invariant says what its pass has achieved  *)
(* so far (PhaseOK).                                                       *)
(***************************************************************************)
EXTENDS MCModules, TLAPS

-----------------------------------------------------------------------------
(* The inductive invariant.                                                 *)

Detaching == {"stop", "detach"}
Attaching == {"fetch", "attach", "retryStop", "retryDetach", "retryAttach", "creds", "config", "start"}
Syncing == {"sync", "cfgStop", "cfgStart"}
InPass == {"diff", "want"} \cup Detaching \cup Attaching \cup Syncing

\* What a goroutine knows by itself, whoever else is at work.
LocalOK(t) ==
  /\ th[t].pc \in Detaching => th[t].at \in Id
  /\ th[t].pc \in Attaching \cup Syncing => th[t].at \in Id /\ th[t].want[th[t].at] # Nothing
  /\ th[t].pc \in {"want"} \cup Attaching \cup Syncing => \A i \in th[t].left : th[t].want[i] # Nothing
  /\ th[t].pc \in {"start", "cfgStop", "cfgStart"} => configFile[th[t].at] \in Cfg
  /\ th[t].pc = "confirm" => th[t].job.id \in Id /\ th[t].job.entry \in Entry
  /\ th[t].pc = "idle" => th[t].job.op = "none"

\* What is not attached does not run.
OnlyAttachedRuns == \A i \in Id : attached[i] = NoVer => unit[i] = Off

\* No two goroutines are at work.
OneAtWork == \A t, u \in Thread : th[t].pc # "idle" /\ th[u].pc # "idle" => t = u

\* Nobody's set was replaced under them; the stores hold the desired sets, but for
\* what the goroutine at work has yet to store.
StoreOK ==
  /\ \A t \in Thread : th[t].live
  /\ ~unsaved =>
       /\ proxyCache = IF th[Run].pc = "setProxy" THEN th[Run].set ELSE proxyDesired
       /\ (\A t \in Thread : th[t].pc \notin {"tmp", "rename"}) => localStore = localDesired
       /\ \A t \in Thread : th[t].pc = "rename" => localTmp.set = localDesired

\* The record of the reconciler.
RecordOK ==
  \A i \in Id :
    /\ current[i] # NoVer => attached[i] = current[i] /\ auth[i] # "none"
    /\ i \in tab => current[i] # NoVer

\* A recorded module runs as recorded, unless a pass stopped it.
RunOK ==
  \A i \in Id \ halted : current[i] # NoVer =>
    unit[i] = currentConfig[i] /\ (i \in authed \/ auth[i] = "unwritten")

\* Between two passes the record is what the last one wanted.
LastOK ==
  (\A t \in Thread : th[t].pc \notin InPass) =>
    \A i \in Id \ last.failed :
      IF last.want[i] # Nothing
        THEN current[i] = last.want[i].ver /\ currentConfig[i] = last.want[i].cfg
        ELSE current[i] = NoVer

\* The module is recorded in the wanted version or not at all.
Fits(t, i) == current[i] \in {NoVer, th[t].want[i].ver}

\* The pass is over with the module.
Served(t, i) ==
  th[t].want[i] # Nothing =>
    \/ i \in th[t].failed
    \/ current[i] = th[t].want[i].ver /\ currentConfig[i] = th[t].want[i].cfg

\* What the goroutine at work has achieved.
PhaseOK(t) ==
  LET pc == th[t].pc
      i == th[t].at
  IN  /\ pc \in InPass => th[t].want = Merged
      /\ pc = "diff" => \A j \in Id \ th[t].left : Fits(t, j)
      /\ pc \in Detaching => i \notin th[t].left /\ \A j \in Id \ (th[t].left \cup {i}) : Fits(t, j)
      /\ pc \in {"want"} \cup Attaching \cup Syncing => \A j \in Id : Fits(t, j)
      /\ pc = "want" => \A j \in Id \ th[t].left : Served(t, j)
      /\ pc \in Attaching \cup Syncing => \A j \in Id \ (th[t].left \cup {i}) : Served(t, j)
      /\ pc \in Attaching => current[i] = NoVer
      /\ pc \in {"creds", "config", "start"} => attached[i] = th[t].want[i].ver /\ unit[i] = Off
      /\ pc \in {"config", "start"} => auth[i] # "none"
      /\ pc \in {"start", "cfgStop", "cfgStart"} => configFile[i] = th[t].want[i].cfg
      /\ pc \in Syncing => current[i] = th[t].want[i].ver
      /\ pc = "cfgStart" => unit[i] = Off

\* An uninstall has taken its entry out, and deletes the image when the pass is over.
UninstallOK(t) ==
  /\ th[t].job.op = "uninstall" => th[t].job.id \in Id /\ localDesired[th[t].job.id] = Nothing
  /\ th[t].pc = "confirm" => th[t].job.op = "confirm"
  /\ th[t].pc = "rm" =>
       /\ th[t].job.op = "uninstall"
       /\ \A i \in Id : current[i] \in {NoVer, Merged[i].ver}

\* While no two goroutines met.
AloneOK ==
  /\ OneAtWork /\ StoreOK /\ RecordOK /\ RunOK /\ LastOK
  /\ \A t \in Thread : th[t].pc # "idle" => PhaseOK(t) /\ UninstallOK(t)

ModulesInv ==
  /\ TypeOK /\ (\A t \in Thread : LocalOK(t)) /\ OnlyAttachedRuns
  /\ ~overlap => AloneOK

-----------------------------------------------------------------------------
(* What a step does.                                                        *)

Others(t) == \A u \in Thread \ {t} : th'[u] = th[u]

\* Goroutine t goes to pc; of its pass, left, at and failed are given.
Moves(t, pc, left, at, failed) ==
  /\ th'[t].pc = pc /\ th'[t].left = left /\ th'[t].at = at /\ th'[t].failed = failed
  /\ th'[t].want = th[t].want /\ th'[t].job = th[t].job /\ th'[t].live = th[t].live
  /\ Others(t)

\* Goroutine t goes to pc.
Goes(t, pc) == Moves(t, pc, th[t].left, th[t].at, th[t].failed)

\* Goroutine t gives the module up.
Skips(t) == Moves(t, "want", th[t].left, th[t].at, th[t].failed \cup {th[t].at})

\* Goroutine t is done.
Rests(t) == th'[t] = Fresh("idle") /\ Others(t)

sets == <<proxyDesired, localDesired, proxyCache, localStore, localTmp, unsaved, overlap>>
record == <<current, currentConfig, tab, halted, last>>
plant == <<attached, unit, configFile, authed, auth>>

MergeDoes(t) ==
  /\ th[t].pc = "merge"
  /\ th'[t].pc = "diff" /\ th'[t].want = Merged /\ th'[t].left = Id /\ th'[t].failed = {}
  /\ th'[t].job = th[t].job /\ th'[t].live = th[t].live /\ Others(t)
  /\ UNCHANGED <<sets, record, plant>>

DiffDoes(t) ==
  /\ th[t].pc = "diff"
  /\ \/ \E i \in th[t].left :
          Moves(t, IF current[i] \notin {NoVer, th[t].want[i].ver} THEN "stop" ELSE "diff",
                th[t].left \ {i}, i, th[t].failed)
     \/ /\ th[t].left = {}
        /\ Moves(t, "want", {i \in Id : th[t].want[i] # Nothing}, th[t].at, th[t].failed)
  /\ UNCHANGED <<sets, record, plant>>

StopDoes(t) ==
  /\ th[t].pc = "stop" /\ Goes(t, "detach")
  /\ unit' = [unit EXCEPT ![th[t].at] = Off] /\ halted' = halted \cup {th[t].at}
  /\ UNCHANGED <<sets, current, currentConfig, tab, last, attached, configFile, authed, auth>>

DetachDoes(t) ==
  /\ th[t].pc = "detach" /\ Goes(t, "diff") /\ Detachable(th[t].at)
  /\ attached' = [attached EXCEPT ![th[t].at] = NoVer]
  /\ current' = [current EXCEPT ![th[t].at] = NoVer]
  /\ tab' = tab \ {th[t].at} /\ halted' = halted \ {th[t].at}
  /\ UNCHANGED <<sets, currentConfig, last, unit, configFile, authed, auth>>

\* The end of a pass, by an error or not.
ReturnDoes(t) ==
  /\ \/ th[t].pc \in Detaching /\ last' = [want |-> th[t].want, failed |-> Id] /\ Rests(t)
     \/ /\ th[t].pc = "want" /\ th[t].left = {}
        /\ last' = [want |-> th[t].want, failed |-> th[t].failed]
        /\ \/ th[t].job.op = "uninstall" /\ th'[t] = [Fresh("rm") EXCEPT !.job = th[t].job] /\ Others(t)
           \/ th[t].job.op # "uninstall" /\ Rests(t)
  /\ UNCHANGED <<sets, current, currentConfig, tab, halted, plant>>

WantDoes(t) ==
  /\ th[t].pc = "want"
  /\ \E i \in th[t].left :
       Moves(t, IF current[i] # th[t].want[i].ver THEN "fetch"
                ELSE IF currentConfig[i] # th[t].want[i].cfg THEN "sync" ELSE "want",
             th[t].left \ {i}, i, th[t].failed)
  /\ UNCHANGED <<sets, record, plant>>

\* A module is given up, or nothing but the program counter changes.
SkipDoes(t) ==
  /\ th[t].pc \in Attaching \cup Syncing /\ Skips(t)
  /\ UNCHANGED <<sets, record, plant>>

FetchDoes(t) ==
  /\ \/ th[t].pc = "fetch" /\ Goes(t, "attach")
     \/ th[t].pc = "attach" /\ Goes(t, "retryStop")
  /\ UNCHANGED <<sets, record, plant>>

AttachDoes(t) ==
  /\ th[t].pc \in {"attach", "retryAttach"} /\ Goes(t, "creds")
  /\ attached[th[t].at] = NoVer
  /\ attached' = [attached EXCEPT ![th[t].at] = th[t].want[th[t].at].ver]
  /\ UNCHANGED <<sets, record, unit, configFile, authed, auth>>

RetryStopDoes(t) ==
  /\ th[t].pc = "retryStop" /\ Goes(t, "retryDetach")
  /\ unit' \in {unit, [unit EXCEPT ![th[t].at] = Off]}
  /\ UNCHANGED <<sets, record, attached, configFile, authed, auth>>

RetryDetachDoes(t) ==
  /\ th[t].pc = "retryDetach" /\ Goes(t, "retryAttach") /\ Detachable(th[t].at)
  /\ attached' = [attached EXCEPT ![th[t].at] = NoVer]
  /\ UNCHANGED <<sets, record, unit, configFile, authed, auth>>

\* The users: only the module's own is made, others are only served.
CredsDoes(t) ==
  /\ th[t].pc = "creds"
  /\ \/ Goes(t, "config") /\ auth'[th[t].at] # "none"
     \/ Skips(t)
  /\ \A j \in Id \ {th[t].at} : auth'[j] = auth[j] \/ (auth[j] = "unserved" /\ auth'[j] = "ready")
  /\ UNCHANGED <<sets, record, attached, unit, authed>>

ConfigDoes(t) ==
  /\ \/ th[t].pc = "config" /\ Goes(t, "start")
     \/ th[t].pc = "sync" /\ Goes(t, "cfgStop")
  /\ configFile' = [configFile EXCEPT ![th[t].at] = th[t].want[th[t].at].cfg]
  /\ UNCHANGED <<sets, record, attached, unit, authed, auth>>

StartDoes(t) ==
  LET i == th[t].at IN
  /\ th[t].pc = "start" /\ Goes(t, "want") /\ SystemctlStart(i)
  /\ current' = [current EXCEPT ![i] = th[t].want[i].ver]
  /\ currentConfig' = [currentConfig EXCEPT ![i] = th[t].want[i].cfg]
  /\ tab' \in {tab, tab \cup {i}} /\ halted' = halted \ {i}
  /\ UNCHANGED <<sets, last, attached, configFile, auth>>

CfgStopDoes(t) ==
  /\ th[t].pc = "cfgStop" /\ Goes(t, "cfgStart")
  /\ unit' = [unit EXCEPT ![th[t].at] = Off] /\ halted' = halted \cup {th[t].at}
  /\ UNCHANGED <<sets, current, currentConfig, tab, last, attached, configFile, authed, auth>>

CfgStartDoes(t) ==
  LET i == th[t].at IN
  /\ th[t].pc = "cfgStart" /\ Goes(t, "want") /\ SystemctlStart(i)
  /\ currentConfig' = [currentConfig EXCEPT ![i] = th[t].want[i].cfg]
  /\ halted' = halted \ {i}
  /\ UNCHANGED <<sets, current, tab, last, attached, configFile, auth>>

PassDoes(t) ==
  \/ MergeDoes(t) \/ DiffDoes(t) \/ StopDoes(t) \/ DetachDoes(t) \/ ReturnDoes(t) \/ WantDoes(t)
  \/ SkipDoes(t) \/ FetchDoes(t) \/ AttachDoes(t) \/ RetryStopDoes(t) \/ RetryDetachDoes(t)
  \/ CredsDoes(t) \/ ConfigDoes(t) \/ StartDoes(t) \/ CfgStopDoes(t) \/ CfgStartDoes(t)

\* A goroutine begins while everybody is idle, or two have met.
Begins(t) == th[t].pc = "idle" /\ (overlap' \/ (~overlap /\ (\A u \in Thread : th[u].pc = "idle") /\ Others(t)))

HandleDoes ==
  /\ Begins(Run)
  /\ th'[Run].pc = "setProxy" /\ th'[Run].job = th[Run].job /\ th'[Run].live = th[Run].live
  /\ unsaved' \/ (~unsaved /\ proxyCache' = th'[Run].set)
  /\ UNCHANGED <<proxyDesired, localDesired, localStore, localTmp, record, plant>>

SetProxyDoes ==
  /\ th[Run].pc = "setProxy" /\ Goes(Run, "merge")
  /\ proxyDesired' = th[Run].set
  /\ UNCHANGED <<localDesired, proxyCache, localStore, localTmp, unsaved, overlap, record, plant>>

ConfirmDoes(t) ==
  /\ Begins(t)
  /\ th'[t].pc = "confirm" /\ th'[t].job.op = "confirm" /\ th'[t].live = th[t].live
  /\ UNCHANGED <<proxyDesired, localDesired, proxyCache, localStore, localTmp, unsaved, record, plant>>

ConfirmLocalDoes(t) ==
  /\ th[t].pc = "confirm"
  /\ Goes(t, "tmp") \/ (Rests(t) /\ UNCHANGED localDesired)
  /\ UNCHANGED <<proxyDesired, proxyCache, localStore, localTmp, unsaved, overlap, record,
                 attached, unit, authed, auth>>

UninstallDoes(t) ==
  /\ Begins(t)
  /\ th'[t].pc = "tmp" /\ th'[t].live = th[t].live
  /\ th'[t].job.op = "uninstall" /\ th'[t].job.id \in Id /\ localDesired'[th'[t].job.id] = Nothing
  /\ UNCHANGED <<proxyDesired, proxyCache, localStore, localTmp, unsaved, record, plant>>

WriteTmpDoes(t) ==
  /\ th[t].pc = "tmp"
  /\ \/ Goes(t, "rename") /\ (th[t].live => localTmp'.set = localDesired) /\ UNCHANGED unsaved
     \/ unsaved' = TRUE /\ Rests(t)
  /\ UNCHANGED <<proxyDesired, localDesired, proxyCache, localStore, overlap, record, plant>>

RenameDoes(t) ==
  /\ th[t].pc = "rename"
  /\ \/ Goes(t, "merge") /\ localStore' = localTmp.set /\ UNCHANGED unsaved
     \/ unsaved' = TRUE /\ Rests(t)
  /\ UNCHANGED <<proxyDesired, localDesired, proxyCache, overlap, record, plant>>

RemoveDoes(t) ==
  /\ th[t].pc = "rm" /\ Rests(t)
  /\ UNCHANGED <<sets, record, plant>>

WorkDoes(t) == PassDoes(t) \/ ConfirmLocalDoes(t) \/ WriteTmpDoes(t) \/ RenameDoes(t) \/ RemoveDoes(t)

RestartDoes ==
  /\ proxyDesired' = proxyCache /\ localDesired' = localStore
  /\ UNCHANGED <<proxyCache, localStore, localTmp>>
  /\ current' = [i \in Id |-> NoVer] /\ tab' = {}
  /\ th' = Threads /\ last' = [want |-> None, failed |-> Id]
  /\ UNCHANGED <<attached, unit>> \/ unit' = [i \in Id |-> Off]

Steps ==
  \/ UNCHANGED <<sets, record, plant, th>>
  \/ \E t \in Thread : WorkDoes(t) \/ ConfirmDoes(t) \/ UninstallDoes(t)
  \/ HandleDoes \/ SetProxyDoes \/ RestartDoes

-----------------------------------------------------------------------------
(* Every step of a pass is one of those.                                    *)

\* A goroutine's record has its fields.
LEMMA Fields ==
  ASSUME TypeOK, NEW t \in Thread
  PROVE  /\ DOMAIN th = Thread /\ th[t] \in Locals
         /\ th[t].pc \in Pc /\ th[t].want \in DesiredSet /\ th[t].left \subseteq Id
         /\ th[t].at \in Id \cup {NoId} /\ th[t].failed \subseteq Id /\ th[t].set \in DesiredSet
         /\ th[t].live \in BOOLEAN /\ th[t].job.op \in {"none", "confirm", "uninstall"}
         /\ th[t].job.id \in Id \cup {NoId} /\ th[t].job.entry \in Entry \cup {Nothing}
<1>1. DOMAIN th = Thread /\ th[t] \in Locals
  BY DEF TypeOK
<1>2. th[t].job \in [op : {"none", "confirm", "uninstall"}, id : Id \cup {NoId}, entry : Entry \cup {Nothing}]
  BY <1>1 DEF Locals
<1> QED
  BY <1>1, <1>2 DEF Locals

\* A goroutine that is done.
LEMMA RestsIs ==
  ASSUME NEW t \in Thread, Rests(t)
  PROVE  th'[t].pc = "idle" /\ th'[t].live = TRUE /\ Others(t)
<1>1. Fresh("idle").pc = "idle" /\ Fresh("idle").live = TRUE
  BY DEF Fresh
<1> QED
  BY <1>1, Zenon DEF Rests

\* Go changes the program counter and nothing else.
LEMMA GoDoes ==
  ASSUME TypeOK, NEW t \in Thread, NEW a, Go(t, a)
  PROVE  Goes(t, a)
<1>1. DOMAIN th = Thread /\ th[t] \in Locals
  BY Fields
<1>2. th'[t] = [th[t] EXCEPT !.pc = a] /\ Others(t)
  BY <1>1 DEF Go, Others
<1> QED
  BY <1>1, <1>2 DEF Goes, Moves, Locals

\* Skip goes on with the next module and notes the failure.
LEMMA SkipNotes ==
  ASSUME TypeOK, NEW t \in Thread, Skip(t)
  PROVE  Skips(t)
<1>1. DOMAIN th = Thread /\ th[t] \in Locals
  BY Fields
<1>2. th'[t] = [th[t] EXCEPT !.pc = "want", !.failed = @ \cup {th[t].at}] /\ Others(t)
  BY <1>1 DEF Skip, Others
<1> QED
  BY <1>1, <1>2 DEF Skips, Moves, Locals

\* Return ends the pass.
LEMMA ReturnEnds ==
  ASSUME TypeOK, NEW t \in Thread, NEW err \in BOOLEAN, Return(t, err)
  PROVE  /\ last' = [want |-> th[t].want, failed |-> IF err THEN Id ELSE th[t].failed]
         /\ UNCHANGED <<overlap, halted, unsaved>>
         /\ Others(t)
         /\ th'[t] = IF th[t].job.op = "uninstall" /\ ~err
                       THEN [Fresh("rm") EXCEPT !.job = th[t].job] ELSE Fresh("idle")
<1>1. DOMAIN th = Thread
  BY Fields
<1> QED
  BY <1>1 DEF Return, Others

\* The first half of a pass.
LEMMA DiffSteps ==
  ASSUME TypeOK, NEW t \in Thread,
         Merge(t) \/ Diff(t) \/ Stop(t) \/ Detach(t) \/ Want(t)
  PROVE  PassDoes(t)
<1> USE DEF PassDoes
<1>0. DOMAIN th = Thread /\ th[t] \in Locals
  BY Fields
<1>1. CASE Merge(t)
  <2>1. th'[t] = [th[t] EXCEPT !.pc = "diff", !.want = Merged, !.left = Id, !.failed = {}] /\ Others(t)
    BY <1>0, <1>1 DEF Merge, Others
  <2>2. MergeDoes(t)
    BY <1>0, <1>1, <2>1 DEF Merge, MergeDoes, Locals, sets, record, plant, managerVars, diskVars, runVars, histVars
  <2> QED
    BY <2>2
<1>2. CASE Diff(t)
  <2>1. th[t].pc = "diff" /\ UNCHANGED <<sets, record, plant>>
    BY Zenon, <1>2 DEF Diff, sets, record, plant, managerVars, diskVars, runVars, histVars
  <2>2. ASSUME NEW i \in th[t].left,
               th' = [th EXCEPT ![t].left = @ \ {i}, ![t].at = i,
                        ![t].pc = IF current[i] \notin {NoVer, th[t].want[i].ver} THEN "stop" ELSE "diff"]
        PROVE  DiffDoes(t)
    <3>1. /\ Others(t)
          /\ th'[t] = [th[t] EXCEPT !.left = @ \ {i}, !.at = i,
                        !.pc = IF current[i] \notin {NoVer, th[t].want[i].ver} THEN "stop" ELSE "diff"]
      BY <1>0, <2>2 DEF Others
    <3>2. Moves(t, IF current[i] \notin {NoVer, th[t].want[i].ver} THEN "stop" ELSE "diff",
                th[t].left \ {i}, i, th[t].failed)
      BY <1>0, <3>1 DEF Moves, Locals
    <3> QED
      BY Zenon, <2>1, <3>2 DEF DiffDoes
  <2>3. ASSUME th[t].left = {},
               th' = [th EXCEPT ![t].pc = "want", ![t].left = {i \in Id : th[t].want[i] # Nothing}]
        PROVE  DiffDoes(t)
    <3>1. Others(t) /\ th'[t] = [th[t] EXCEPT !.pc = "want", !.left = {i \in Id : th[t].want[i] # Nothing}]
      BY <1>0, <2>3 DEF Others
    <3>2. Moves(t, "want", {i \in Id : th[t].want[i] # Nothing}, th[t].at, th[t].failed)
      BY <1>0, <3>1 DEF Moves, Locals
    <3> QED
      BY <2>1, <2>3, <3>2 DEF DiffDoes
  <2> QED
    BY Zenon, <1>2, <2>2, <2>3 DEF Diff
<1>3. CASE Stop(t)
  <2>1. UNCHANGED <<proxyDesired, localDesired, proxyCache, localStore, localTmp, current, currentConfig,
                    tab, attached, configFile, authed, auth>> /\ th[t].pc = "stop"
    BY <1>3 DEF Stop, managerVars, diskVars
  <2>2. ASSUME unit' = [unit EXCEPT ![th[t].at] = Off], halted' = halted \cup {th[t].at},
               Go(t, "detach"), UNCHANGED <<last, overlap, unsaved>>
        PROVE  StopDoes(t)
    BY <2>1, <2>2, GoDoes DEF StopDoes, sets
  <2>3. ASSUME Return(t, TRUE), UNCHANGED unit
        PROVE  ReturnDoes(t)
    BY Zenon, <2>1, <2>3, ReturnEnds DEF ReturnDoes, Rests, Detaching, sets, plant
  <2> QED
    BY Zenon, <1>3, <2>2, <2>3 DEF Stop
<1>4. CASE Detach(t)
  <2>1. UNCHANGED <<proxyDesired, localDesired, proxyCache, localStore, localTmp, currentConfig,
                    unit, configFile, authed, auth>> /\ th[t].pc = "detach"
    BY <1>4 DEF Detach, diskVars
  <2>2. ASSUME Detachable(th[t].at), attached' = [attached EXCEPT ![th[t].at] = NoVer],
               current' = [current EXCEPT ![th[t].at] = NoVer], tab' = tab \ {th[t].at},
               halted' = halted \ {th[t].at}, Go(t, "diff"), UNCHANGED <<last, overlap, unsaved>>
        PROVE  DetachDoes(t)
    BY <2>1, <2>2, GoDoes DEF DetachDoes, sets
  <2>3. ASSUME Return(t, TRUE), UNCHANGED <<attached, current, tab>>
        PROVE  ReturnDoes(t)
    BY Zenon, <2>1, <2>3, ReturnEnds DEF ReturnDoes, Rests, Detaching, sets, plant
  <2> QED
    BY Zenon, <1>4, <2>2, <2>3 DEF Detach
<1>5. CASE Want(t)
  <2>1. th[t].pc = "want" /\ UNCHANGED <<proxyDesired, localDesired, proxyCache, localStore, localTmp,
          current, currentConfig, tab, plant>>
    BY Zenon, <1>5 DEF Want, plant, managerVars, diskVars, runVars
  <2>2. ASSUME th[t].left = {}, Return(t, FALSE)
        PROVE  ReturnDoes(t)
    BY Zenon, <2>1, <2>2, ReturnEnds DEF ReturnDoes, Rests, sets
  <2>3. ASSUME NEW i \in th[t].left, UNCHANGED histVars,
               th' = [th EXCEPT ![t].left = @ \ {i}, ![t].at = i,
                      ![t].pc = IF current[i] # th[t].want[i].ver THEN "fetch"
                                ELSE IF currentConfig[i] # th[t].want[i].cfg THEN "sync"
                                ELSE "want"]
        PROVE  WantDoes(t)
    <3>1. /\ Others(t)
          /\ th'[t] = [th[t] EXCEPT !.left = @ \ {i}, !.at = i,
                      !.pc = IF current[i] # th[t].want[i].ver THEN "fetch"
                                ELSE IF currentConfig[i] # th[t].want[i].cfg THEN "sync"
                                ELSE "want"]
      BY <1>0, <2>3 DEF Others
    <3>2. Moves(t, IF current[i] # th[t].want[i].ver THEN "fetch"
                   ELSE IF currentConfig[i] # th[t].want[i].cfg THEN "sync" ELSE "want",
                th[t].left \ {i}, i, th[t].failed)
      BY <1>0, <3>1 DEF Moves, Locals
    <3> QED
      BY Zenon, <2>1, <2>3, <3>2 DEF WantDoes, sets, record, histVars
  <2> QED
    BY Zenon, <1>5, <2>2, <2>3 DEF Want
<1> QED
  BY <1>1, <1>2, <1>3, <1>4, <1>5

\* The second half of a pass.
LEMMA WantSteps ==
  ASSUME TypeOK, NEW t \in Thread, LocalOK(t),
         \/ Fetch(t) \/ Attach(t) \/ RetryStop(t) \/ RetryDetach(t) \/ RetryAttach(t)
         \/ EnsureCreds(t) \/ Config(t, "config", "start") \/ Start(t)
         \/ Config(t, "sync", "cfgStop") \/ CfgStop(t) \/ CfgStart(t)
  PROVE  PassDoes(t)
<1> USE DEF PassDoes
<1>0. \A a : Go(t, a) => Goes(t, a)
  BY GoDoes
<1>00. Skip(t) => Skips(t)
  BY SkipNotes
<1>1. CASE Fetch(t)
  <2>1. th[t].pc = "fetch" /\ UNCHANGED <<sets, record, plant>> /\ (Go(t, "attach") \/ Skip(t))
    BY <1>1 DEF Fetch, sets, record, plant, managerVars, runVars, histVars
  <2> QED
    BY <1>0, <1>00, <2>1 DEF FetchDoes, SkipDoes, Attaching
<1>2. ASSUME NEW from, th[t].pc = from, from \in {"attach", "retryAttach"}, PortableAttach(t), Go(t, "creds"),
             UNCHANGED <<managerVars, diskVars, unit, configFile, authed, histVars>>
      PROVE  AttachDoes(t)
  BY <1>0, <1>2 DEF AttachDoes, PortableAttach, Image, sets, record, managerVars, diskVars, histVars
<1>3. CASE Attach(t)
  <2>1. CASE PortableAttach(t) /\ Go(t, "creds")
    BY <1>2, <1>3, <2>1 DEF Attach
  <2>2. CASE Go(t, "retryStop") /\ UNCHANGED attached
    <3>1. FetchDoes(t)
      BY <1>0, <1>3, <2>2 DEF Attach, FetchDoes, sets, record, plant, managerVars, diskVars, histVars
    <3> QED
      BY <3>1
  <2> QED
    BY <1>3, <2>1, <2>2 DEF Attach
<1>4. CASE RetryStop(t)
  <2>1. RetryStopDoes(t)
    BY <1>0, <1>4 DEF RetryStop, RetryStopDoes, sets, record, managerVars, diskVars, histVars
  <2> QED
    BY <2>1
<1>5. CASE RetryDetach(t)
  <2>1. th[t].pc = "retryDetach" /\ UNCHANGED <<sets, record, unit, configFile, authed, auth>>
    BY <1>5 DEF RetryDetach, sets, record, managerVars, diskVars, histVars
  <2>2. CASE Detachable(th[t].at) /\ attached' = [attached EXCEPT ![th[t].at] = NoVer] /\ Go(t, "retryAttach")
    BY <1>0, <2>1, <2>2 DEF RetryDetachDoes
  <2>3. CASE Skip(t) /\ UNCHANGED attached
    BY <1>00, <2>1, <2>3 DEF SkipDoes, Attaching, plant
  <2> QED
    BY <1>5, <2>2, <2>3 DEF RetryDetach
<1>6. CASE RetryAttach(t)
  <2>1. CASE PortableAttach(t) /\ Go(t, "creds")
    BY Zenon, <1>2, <1>6, <2>1 DEF RetryAttach
  <2>2. CASE Skip(t) /\ UNCHANGED attached
    <3>1. SkipDoes(t)
      BY <1>00, <1>6, <2>2 DEF RetryAttach, SkipDoes, Attaching, sets, record, plant, managerVars, diskVars, histVars
    <3> QED
      BY <3>1
  <2> QED
    BY Zenon, <1>6, <2>1, <2>2 DEF RetryAttach
<1>7. CASE EnsureCreds(t)
  <2>0. th[t].at \in Id /\ auth \in [Id -> AuthState] /\ th[t].pc = "creds"
    BY Zenon, <1>7 DEF EnsureCreds, LocalOK, Attaching, TypeOK
  <2>1. UNCHANGED <<sets, record, attached, unit, authed>>
    BY Zenon, <1>7 DEF EnsureCreds, sets, record, diskVars, histVars
  <2>2. CASE auth[th[t].at] # "none" /\ Go(t, "config") /\ UNCHANGED auth
    BY Zenon, <1>0, <2>0, <2>1, <2>2 DEF CredsDoes
  <2>3. CASE /\ auth' = [j \in Id |-> IF j = th[t].at \/ auth[j] = "unserved" THEN "ready" ELSE auth[j]]
             /\ Go(t, "config")
    BY <1>0, <2>0, <2>1, <2>3 DEF CredsDoes
  <2>4. CASE Skip(t) /\ \E a \in {"none", "unwritten", "unserved"} : auth' = [auth EXCEPT ![th[t].at] = a]
    BY <1>00, <2>0, <2>1, <2>4 DEF CredsDoes
  <2> QED
    BY Zenon, <1>7, <2>2, <2>3, <2>4 DEF EnsureCreds
<1>8. ASSUME NEW from, NEW to, Config(t, from, to),
             <<from, to>> \in {<<"config", "start">>, <<"sync", "cfgStop">>}
      PROVE  PassDoes(t)
  <2>1. UNCHANGED <<sets, record, attached, unit, authed, auth>> /\ th[t].pc = from
    BY Zenon, <1>8 DEF Config, sets, record, managerVars, diskVars, histVars
  <2>2. CASE configFile' = [configFile EXCEPT ![th[t].at] = th[t].want[th[t].at].cfg] /\ Go(t, to)
    BY Zenon, <1>0, <1>8, <2>1, <2>2 DEF ConfigDoes
  <2>3. CASE Skip(t) /\ UNCHANGED configFile
    BY <1>00, <1>8, <2>1, <2>3 DEF SkipDoes, Attaching, Syncing, plant
  <2> QED
    BY Zenon, <1>8, <2>2, <2>3 DEF Config
<1>9. CASE Start(t)
  <2>1. UNCHANGED <<sets, last, attached, configFile, auth>> /\ th[t].pc = "start"
    BY <1>9 DEF Start, sets, diskVars
  <2>2. CASE Skip(t) /\ UNCHANGED <<unit, authed, current, currentConfig, tab, halted>>
    BY Zenon, <1>00, <2>1, <2>2 DEF SkipDoes, Attaching, record, plant
  <2>3. CASE ~(Skip(t) /\ UNCHANGED <<unit, authed, current, currentConfig, tab, halted>>)
    BY Zenon, <1>0, <1>9, <2>1, <2>3 DEF Start, StartDoes
  <2> QED
    BY <2>2, <2>3
<1>10. CASE CfgStop(t)
  <2>1. UNCHANGED <<sets, current, currentConfig, tab, last, attached, configFile, authed, auth>> /\ th[t].pc = "cfgStop"
    BY Zenon, <1>10 DEF CfgStop, sets, managerVars, diskVars
  <2>2. CASE Skip(t) /\ UNCHANGED <<unit, halted>>
    BY Zenon, <1>00, <2>1, <2>2 DEF SkipDoes, Syncing, record, plant
  <2>3. CASE ~(Skip(t) /\ UNCHANGED <<unit, halted>>)
    BY Zenon, <1>0, <1>10, <2>1, <2>3 DEF CfgStop, CfgStopDoes
  <2> QED
    BY <2>2, <2>3
<1>11. CASE CfgStart(t)
  <2>1. UNCHANGED <<sets, current, tab, last, attached, configFile, auth>> /\ th[t].pc = "cfgStart"
    BY <1>11 DEF CfgStart, sets, diskVars
  <2>2. CASE Skip(t) /\ UNCHANGED <<unit, authed, currentConfig, halted>>
    BY Zenon, <1>00, <2>1, <2>2 DEF SkipDoes, Syncing, record, plant
  <2>3. CASE ~(Skip(t) /\ UNCHANGED <<unit, authed, currentConfig, halted>>)
    BY Zenon, <1>0, <1>11, <2>1, <2>3 DEF CfgStart, CfgStartDoes
  <2> QED
    BY <2>2, <2>3
<1> QED
  BY <1>1, <1>3, <1>4, <1>5, <1>6, <1>7, <1>8, <1>9, <1>10, <1>11

\* A goroutine that begins finds everybody idle, or two have met.
LEMMA BeginFinds ==
  ASSUME TypeOK, NEW t \in Thread, Begin(t), overlap' \/ Others(t)
  PROVE  Begins(t)
<1>1. th[t].pc = "idle" /\ overlap' = (overlap \/ \E u \in Thread : th[u].pc # "idle")
  BY DEF Begin
<1>2. ~overlap' => ~overlap /\ \A u \in Thread : th[u].pc = "idle"
  BY <1>1, Zenon
<1> QED
  BY <1>1, <1>2, Zenon DEF Begins

\* The steps that are not of a pass.
LEMMA WorkSteps ==
  ASSUME TypeOK, NEW t \in Thread, LocalOK(t),
         ConfirmLocal(t) \/ WriteTmp(t) \/ RenameTmp(t) \/ RemoveImage(t)
  PROVE  WorkDoes(t)
<1> USE DEF WorkDoes
<1>0. \A a : Go(t, a) => Goes(t, a)
  BY GoDoes
<1>1. th' = [th EXCEPT ![t] = Fresh("idle")] => Rests(t)
  <2>1. DOMAIN th = Thread
    BY Fields
  <2> QED
    BY <2>1 DEF Rests, Others
<1>2. CASE ConfirmLocal(t)
  BY <1>0, <1>1, <1>2 DEF ConfirmLocal, ConfirmLocalDoes, record, diskVars, histVars
<1>3. CASE WriteTmp(t)
  <2>1. th[t].pc = "tmp" /\ UNCHANGED <<proxyDesired, localDesired, proxyCache, localStore, overlap, record, plant>>
    BY <1>3 DEF WriteTmp, record, plant, managerVars, runVars
  <2>2. CASE /\ localTmp' = [exists |-> TRUE, set |-> IF th[t].live THEN localDesired ELSE th[t].set]
             /\ Go(t, "rename") /\ UNCHANGED unsaved
    BY Zenon, <1>0, <2>1, <2>2 DEF WriteTmpDoes
  <2>3. CASE SaveFails(t)
    BY <1>1, <2>1, <2>3 DEF WriteTmpDoes, SaveFails
  <2> QED
    BY <1>3, <2>2, <2>3 DEF WriteTmp
<1>4. CASE RenameTmp(t)
  <2>1. th[t].pc = "rename" /\ UNCHANGED <<proxyDesired, localDesired, proxyCache, overlap, record, plant>>
    BY <1>4 DEF RenameTmp, record, plant, managerVars, runVars
  <2>2. CASE localStore' = localTmp.set /\ Go(t, "merge") /\ UNCHANGED unsaved
    BY Zenon, <1>0, <2>1, <2>2 DEF RenameDoes
  <2>3. CASE SaveFails(t)
    BY <1>1, <2>1, <2>3 DEF RenameDoes, SaveFails
  <2> QED
    BY <1>4, <2>2, <2>3 DEF RenameTmp
<1>5. CASE RemoveImage(t)
  BY <1>1, <1>5 DEF RemoveImage, RemoveDoes, sets, record, plant, managerVars, runVars, histVars
<1> QED
  BY <1>2, <1>3, <1>4, <1>5

\* Every step.
LEMMA StepsDo ==
  ASSUME TypeOK, \A t \in Thread : LocalOK(t), [Next]_vars
  PROVE  Steps
<1> USE DEF Steps
<1>1. ASSUME NEW t \in Thread, Work(t) PROVE Steps
  <2>1. CASE t = Run /\ SetProxy
    <3>1. SetProxyDoes
      BY Zenon, <2>1, GoDoes DEF SetProxy, SetProxyDoes, Thread, record, plant, diskVars, runVars, histVars
    <3> QED
      BY <3>1
  <2>2. CASE Pass(t)
    BY <2>2, DiffSteps, WantSteps DEF Pass, WorkDoes
  <2>3. CASE ConfirmLocal(t) \/ WriteTmp(t) \/ RenameTmp(t) \/ RemoveImage(t)
    BY <2>3, WorkSteps
  <2> QED
    BY <1>1, <2>1, <2>2, <2>3 DEF Work
<1>2. ASSUME NEW set \in Pushed, HandleDesired(set) PROVE Steps
  <2>0. Run \in Thread
    BY DEF Thread
  <2>1. DOMAIN th = Thread /\ th[Run] \in Locals
    BY <2>0, Fields
  <2>2. Others(Run) /\ th'[Run] = [th[Run] EXCEPT !.pc = "setProxy", !.set = set]
    BY <1>2, <2>0, <2>1 DEF HandleDesired, Others
  <2>3. th'[Run].pc = "setProxy" /\ th'[Run].job = th[Run].job /\ th'[Run].live = th[Run].live /\ th'[Run].set = set
    BY <2>1, <2>2 DEF Locals
  <2>4. Begins(Run)
    BY <1>2, <2>0, <2>2, BeginFinds DEF HandleDesired
  <2>5. UNCHANGED <<proxyDesired, localDesired, localStore, localTmp, record, plant>>
    BY <1>2 DEF HandleDesired, Begin, record, plant, managerVars, runVars
  <2>6. unsaved' \/ (~unsaved /\ proxyCache' = set)
    BY <1>2, Zenon DEF HandleDesired
  <2>7. HandleDoes
    BY <2>3, <2>4, <2>5, <2>6 DEF HandleDoes
  <2> QED
    BY <2>7
<1>3. ASSUME NEW i \in Id, NEW v \in Ver, StageModule(i, v) PROVE Steps
  BY <1>3 DEF StageModule, sets, record, plant, diskVars, runVars, histVars
<1>4. ASSUME NEW t \in Http, NEW i \in Id, NEW v \in Ver, NEW c \in Cfg, ConfirmModule(t, i, v, c) PROVE Steps
  <2>0. t \in Thread
    BY DEF Thread
  <2>1. DOMAIN th = Thread /\ th[t] \in Locals
    BY <2>0, Fields
  <2>2. /\ Others(t)
        /\ th'[t] = [th[t] EXCEPT !.pc = "confirm",
             !.job = [op |-> "confirm", id |-> i, entry |-> [ver |-> v, cfg |-> c, src |-> "file"]]]
    BY <1>4, <2>0, <2>1 DEF ConfirmModule, Others
  <2>3. th'[t].pc = "confirm" /\ th'[t].job.op = "confirm" /\ th'[t].live = th[t].live
    BY <2>1, <2>2 DEF Locals
  <2>4. Begins(t)
    BY <1>4, <2>0, <2>2, BeginFinds DEF ConfirmModule
  <2>5. ConfirmDoes(t)
    BY <1>4, <2>3, <2>4 DEF ConfirmModule, Begin, ConfirmDoes, record, plant, runVars
  <2> QED
    BY <2>0, <2>5
<1>5. ASSUME NEW t \in Http, NEW i \in Id, UninstallModule(t, i) PROVE Steps
  <2>0. t \in Thread
    BY DEF Thread
  <2>1. DOMAIN th = Thread /\ th[t] \in Locals
    BY <2>0, Fields
  <2>2. th'[t] = [th[t] EXCEPT !.pc = "tmp",
                    !.job = [op |-> "uninstall", id |-> i, entry |-> localDesired[i]]]
    BY Zenon, <1>5, <2>0 DEF UninstallModule
  <2>3. th'[t].pc = "tmp" /\ th'[t].job.op = "uninstall" /\ th'[t].job.id = i /\ th'[t].live = th[t].live
    BY <2>1, <2>2 DEF Locals
  <2>4. (\A u \in Thread : th[u].pc = "idle") => Others(t)
    BY Zenon, <1>5 DEF UninstallModule, Others
  <2>5. overlap' \/ Others(t)
    BY <1>5, <2>4, Zenon DEF UninstallModule, Begin
  <2>6. Begins(t)
    BY Zenon, <1>5, <2>0, <2>5, BeginFinds DEF UninstallModule
  <2>7. localDesired'[i] = Nothing
    BY Zenon, <1>5 DEF UninstallModule, TypeOK, DesiredSet
  <2>8. UninstallDoes(t)
    BY Zenon, <1>5, <2>3, <2>6, <2>7 DEF UninstallModule, Begin, UninstallDoes, record, plant, diskVars, runVars
  <2> QED
    BY <2>0, <2>8
<1>6. ASSUME NEW files, Restart(files), UNCHANGED <<attached, unit>> \/ unit' = [i \in Id |-> Off]
      PROVE  RestartDoes
  BY <1>6 DEF Restart, RestartDoes, diskVars
<1>7. CASE AgentDies \/ Reboot
  BY <1>6, <1>7 DEF AgentDies, Reboot
<1>8. CASE UNCHANGED vars
  BY <1>8 DEF vars, sets, record, plant, managerVars, diskVars, runVars, histVars
<1> QED
  BY <1>1, <1>2, <1>3, <1>4, <1>5, <1>7, <1>8 DEF Next

\* What a pass leaves alone.
LEMMA PassFrame ==
  ASSUME NEW t \in Thread, PassDoes(t)
  PROVE  /\ UNCHANGED sets /\ Others(t) /\ th[t].pc \in {"merge"} \cup InPass
         /\ th'[t].pc \in {"idle", "rm"} \cup InPass
         /\ th'[t].pc # "idle" => th'[t].job = th[t].job
         /\ th'[t].live = th[t].live \/ th'[t].live = TRUE
         /\ th'[t].pc = "rm" => ReturnDoes(t)
<1> USE DEF InPass, Detaching, Attaching, Syncing, Goes, Moves, Skips, sets
<1>1. CASE ReturnDoes(t)
  BY <1>1 DEF ReturnDoes, Rests, Fresh
<1>2. CASE MergeDoes(t) \/ DiffDoes(t) \/ StopDoes(t) \/ DetachDoes(t) \/ WantDoes(t)
  BY Zenon, <1>2 DEF MergeDoes, DiffDoes, StopDoes, DetachDoes, WantDoes
<1>3. CASE SkipDoes(t) \/ FetchDoes(t) \/ AttachDoes(t) \/ RetryStopDoes(t) \/ RetryDetachDoes(t)
  BY Zenon, <1>3 DEF SkipDoes, FetchDoes, AttachDoes, RetryStopDoes, RetryDetachDoes
<1>4. CASE CredsDoes(t) \/ ConfigDoes(t) \/ StartDoes(t) \/ CfgStopDoes(t) \/ CfgStartDoes(t)
  BY Zenon, <1>4 DEF CredsDoes, ConfigDoes, StartDoes, CfgStopDoes, CfgStartDoes
<1> QED
  BY Zenon, <1>1, <1>2, <1>3, <1>4 DEF PassDoes

-----------------------------------------------------------------------------
(* The types, whoever is at work.                                           *)

SetsTyped ==
  /\ proxyDesired \in DesiredSet /\ localDesired \in DesiredSet
  /\ proxyCache \in DesiredSet /\ localStore \in DesiredSet /\ localTmp \in [exists : BOOLEAN, set : DesiredSet]

RecordTyped ==
  /\ current \in [Id -> Ver \cup {NoVer}] /\ currentConfig \in [Id -> Cfg \cup {NoCfg}] /\ tab \subseteq Id
  /\ last.want \in DesiredSet /\ last.failed \subseteq Id /\ halted \subseteq Id

PlantTyped ==
  /\ auth \in [Id -> AuthState] /\ authed \subseteq Id
  /\ attached \in [Id -> Ver \cup {NoVer}] /\ unit \in [Id -> Cfg \cup {Off}]
  /\ configFile \in [Id -> Cfg \cup {NoCfg}]

ImagesTyped == staged \subseteq Id \X Ver /\ raw \subseteq Id \X Ver

FlagsTyped == overlap \in BOOLEAN /\ unsaved \in BOOLEAN

LEMMA Typed ==
  TypeOK <=> /\ SetsTyped /\ RecordTyped /\ PlantTyped /\ ImagesTyped /\ FlagsTyped
             /\ th \in [Thread -> Locals] /\ ops \in 0 .. MaxOps /\ deaths \in 0 .. MaxDeaths
BY Zenon DEF TypeOK, SetsTyped, RecordTyped, PlantTyped, ImagesTyped, FlagsTyped

\* The records a goroutine can hold.
LEMMA FreshTyped ==
  ASSUME NEW a \in Pc
  PROVE  Fresh(a) \in Locals
<1>1. None \in DesiredSet
  BY DEF None, DesiredSet
<1>2. NoJob \in [op : {"none", "confirm", "uninstall"}, id : Id \cup {NoId}, entry : Entry \cup {Nothing}]
  BY DEF NoJob
<1> QED
  BY <1>1, <1>2, SMTT(30), ZenonT(20) DEF Fresh, Locals

\* Replacing a field.
LEMMA FieldTyped ==
  ASSUME NEW l \in Locals
  PROVE  /\ \A a \in Pc : [l EXCEPT !.pc = a] \in Locals
         /\ \A x \in DesiredSet : [l EXCEPT !.want = x] \in Locals /\ [l EXCEPT !.set = x] \in Locals
         /\ \A x \in SUBSET Id : [l EXCEPT !.left = x] \in Locals /\ [l EXCEPT !.failed = x] \in Locals
         /\ \A x \in Id : [l EXCEPT !.at = x] \in Locals
         /\ [l EXCEPT !.live = FALSE] \in Locals
<1>1. /\ \A a \in Pc : [l EXCEPT !.pc = a] \in Locals
      /\ \A x \in DesiredSet : [l EXCEPT !.want = x] \in Locals /\ [l EXCEPT !.set = x] \in Locals
  BY SMTT(30), ZenonT(20) DEF Locals
<1>2. /\ \A x \in SUBSET Id : [l EXCEPT !.left = x] \in Locals /\ [l EXCEPT !.failed = x] \in Locals
      /\ \A x \in Id : [l EXCEPT !.at = x] \in Locals
  BY SMTT(30), ZenonT(20) DEF Locals
<1>3. [l EXCEPT !.live = FALSE] \in Locals
  <2>1. \A x \in BOOLEAN : [l EXCEPT !.live = x] \in Locals
    BY SMTT(30), ZenonT(20) DEF Locals
  <2> QED
    BY <2>1, Zenon
<1> QED
  BY <1>1, <1>2, <1>3

\* One goroutine moves.
LEMMA MoveTyped ==
  ASSUME th \in [Thread -> Locals], NEW t \in Thread, NEW l \in Locals, th' = [th EXCEPT ![t] = l]
  PROVE  th' \in [Thread -> Locals]
OBVIOUS

\* What a pass is about to attach is in the desired set.
LEMMA Wanted ==
  ASSUME TypeOK, NEW t \in Thread, LocalOK(t), th[t].pc \in Attaching \cup Syncing
  PROVE  /\ th[t].at \in Id /\ th[t].want[th[t].at] \in Entry
         /\ th[t].want[th[t].at].ver \in Ver /\ th[t].want[th[t].at].cfg \in Cfg
         /\ Image(t) \in Id \X Ver /\ Image(t)[2] = th[t].want[th[t].at].ver
<1>1. th[t].at \in Id /\ th[t].want[th[t].at] # Nothing /\ th[t].want \in DesiredSet
  BY Zenon, Fields DEF LocalOK
<1>2. th[t].want[th[t].at] \in Entry
  BY <1>1 DEF DesiredSet
<1>3. th[t].want[th[t].at].ver \in Ver /\ th[t].want[th[t].at].cfg \in Cfg
  BY <1>2 DEF Entry
<1> QED
  BY Zenon, <1>1, <1>2, <1>3 DEF Image

\* The goroutine of a pass.
LEMMA PassThTyped ==
  ASSUME TypeOK, NEW t \in Thread, LocalOK(t), Pass(t)
  PROVE  th' \in [Thread -> Locals]
<1>1. th \in [Thread -> Locals] /\ th[t] \in Locals
  BY Zenon, Fields DEF TypeOK
<1>2. \A a \in Pc : Go(t, a) => th' \in [Thread -> Locals]
  BY Zenon, <1>1, FieldTyped DEF Go
<1>3. Skip(t) /\ th[t].at \in Id => th' \in [Thread -> Locals]
  <2>1. th[t].at \in Id => th[t].failed \cup {th[t].at} \in SUBSET Id
    BY Zenon, Fields
  <2>0. "want" \in Pc
    BY DEF Pc
  <2> DEFINE l == [th[t] EXCEPT !.pc = "want"]
  <2>2. l \in Locals /\ l.failed = th[t].failed
    <3>1. l \in Locals
      BY Zenon, <1>1, <2>0, FieldTyped
    <3>2. l.failed = th[t].failed
      BY <1>1 DEF Locals
    <3> QED
      BY <3>1, <3>2
  <2>3. th[t].at \in Id => [l EXCEPT !.failed = th[t].failed \cup {th[t].at}] \in Locals
    BY Zenon, <2>1, <2>2, FieldTyped
  <2> QED
    BY <1>1, <2>2, <2>3 DEF Skip
<1>4. \A err \in BOOLEAN : Return(t, err) => th' \in [Thread -> Locals]
  <2>1. Fresh("idle") \in Locals /\ Fresh("rm") \in Locals
    BY FreshTyped DEF Pc
  <2>2. [Fresh("rm") EXCEPT !.job = th[t].job] \in Locals
    BY <1>1, <2>1 DEF Locals
  <2> QED
    BY <1>1, <2>1, <2>2 DEF Return
<1>5. CASE Merge(t)
  <2>1. Merged \in DesiredSet
    BY Zenon DEF Merged, TypeOK, DesiredSet
  <2>2. [th[t] EXCEPT !.pc = "diff", !.want = Merged, !.left = Id, !.failed = {}] \in Locals
    BY Zenon, <1>1, <2>1 DEF Locals, Pc
  <2>3. th' = [th EXCEPT ![t] = [th[t] EXCEPT !.pc = "diff", !.want = Merged, !.left = Id, !.failed = {}]]
    BY Zenon, <1>1, <1>5 DEF Merge
  <2> QED
    BY <1>1, <2>2, <2>3
<1>6. \A i \in th[t].left, a \in Pc :
        th' = [th EXCEPT ![t].left = @ \ {i}, ![t].at = i, ![t].pc = a] => th' \in [Thread -> Locals]
  <2>1. \A i \in th[t].left, a \in Pc : [th[t] EXCEPT !.left = @ \ {i}, !.at = i, !.pc = a] \in Locals
    BY Zenon, <1>1, Fields DEF Locals
  <2>2. ASSUME NEW i \in th[t].left, NEW a \in Pc,
               th' = [th EXCEPT ![t].left = @ \ {i}, ![t].at = i, ![t].pc = a]
        PROVE  th' \in [Thread -> Locals]
    <3> DEFINE l == [th[t] EXCEPT !.left = @ \ {i}, !.at = i, !.pc = a]
    <3>1. th' = [th EXCEPT ![t] = l]
      BY <1>1, <2>2, Zenon
    <3>2. l \in Locals
      BY <2>1, Zenon
    <3> HIDE DEF l
    <3> QED
      BY <1>1, <3>1, <3>2, MoveTyped
  <2> QED
    BY <2>2, Zenon
<1>7. CASE Diff(t)
  <2>1. CASE th[t].left = {} /\ th' = [th EXCEPT ![t].pc = "want", ![t].left = {i \in Id : th[t].want[i] # Nothing}]
    <3>1. [th[t] EXCEPT !.pc = "want", !.left = {i \in Id : th[t].want[i] # Nothing}] \in Locals
      BY Zenon, <1>1 DEF Locals, Pc
    <3> QED
      BY <1>1, <2>1, <3>1
  <2>2. ASSUME NEW i \in th[t].left,
               th' = [th EXCEPT ![t].left = @ \ {i}, ![t].at = i,
                        ![t].pc = IF current[i] \notin {NoVer, th[t].want[i].ver} THEN "stop" ELSE "diff"]
        PROVE  th' \in [Thread -> Locals]
    <3>1. (IF current[i] \notin {NoVer, th[t].want[i].ver} THEN "stop" ELSE "diff") \in Pc
      BY DEF Pc
    <3> QED
      BY Zenon, <1>6, <2>2, <3>1
  <2> QED
    BY Zenon, <1>7, <2>1, <2>2 DEF Diff
<1>8. CASE Want(t)
  <2>1. ASSUME NEW i \in th[t].left,
               th' = [th EXCEPT ![t].left = @ \ {i}, ![t].at = i,
                        ![t].pc = IF current[i] # th[t].want[i].ver THEN "fetch"
                                  ELSE IF currentConfig[i] # th[t].want[i].cfg THEN "sync" ELSE "want"]
        PROVE  th' \in [Thread -> Locals]
    <3>1. (IF current[i] # th[t].want[i].ver THEN "fetch"
           ELSE IF currentConfig[i] # th[t].want[i].cfg THEN "sync" ELSE "want") \in Pc
      BY DEF Pc
    <3> QED
      BY Zenon, <1>6, <2>1, <3>1
  <2>2. Return(t, FALSE) => th' \in [Thread -> Locals]
    BY <1>4, Zenon
  <2> QED
    BY Zenon, <1>8, <2>1, <2>2 DEF Want
<1>9. CASE Stop(t) \/ Detach(t)
  <2>1. Return(t, TRUE) => th' \in [Thread -> Locals]
    BY <1>4, Zenon
  <2>2. "detach" \in Pc /\ "diff" \in Pc
    BY DEF Pc
  <2> QED
    BY Zenon, <1>2, <1>9, <2>1, <2>2 DEF Stop, Detach
<1>10. {"attach", "retryStop", "retryDetach", "retryAttach", "creds", "config", "start", "cfgStop", "cfgStart", "want"} \subseteq Pc
  BY DEF Pc
<1>11. th[t].pc \in Attaching \cup Syncing => th[t].at \in Id
  BY DEF LocalOK
<1>12. CASE Fetch(t) \/ Attach(t) \/ RetryStop(t) \/ RetryDetach(t) \/ RetryAttach(t)
  BY Zenon, <1>2, <1>3, <1>10, <1>11, <1>12 DEF Fetch, Attach, RetryStop, RetryDetach, RetryAttach, Attaching, Syncing
<1>13. CASE EnsureCreds(t) \/ Config(t, "config", "start") \/ Start(t)
  BY Zenon, <1>2, <1>3, <1>10, <1>11, <1>13 DEF EnsureCreds, Config, Start, Attaching, Syncing
<1>14. CASE Config(t, "sync", "cfgStop") \/ CfgStop(t) \/ CfgStart(t)
  BY Zenon, <1>2, <1>3, <1>10, <1>11, <1>14 DEF Config, CfgStop, CfgStart, Attaching, Syncing
<1> QED
  BY <1>5, <1>7, <1>8, <1>9, <1>12, <1>13, <1>14 DEF Pass

\* The rest, in a pass.
LEMMA PassTyped ==
  ASSUME TypeOK, NEW t \in Thread, LocalOK(t), Pass(t)
  PROVE  TypeOK'
<1>1. PassDoes(t)
  BY DiffSteps, WantSteps DEF Pass
<1>2. SetsTyped' /\ FlagsTyped'
  <2>1. UNCHANGED <<proxyDesired, localDesired, proxyCache, localStore, localTmp, overlap, unsaved>>
    BY Zenon, <1>1, PassFrame DEF sets
  <2> QED
    BY <2>1, Typed DEF SetsTyped, FlagsTyped
<1>3. ops' \in 0 .. MaxOps /\ deaths' \in 0 .. MaxDeaths
  <2>1. UNCHANGED <<ops, deaths>>
    BY Zenon DEF Pass, Merge, Diff, Stop, Detach, Want, Fetch, Attach, RetryStop, RetryDetach, RetryAttach, EnsureCreds,
      Config, Start, CfgStop, CfgStart
  <2> QED
    BY Zenon, <2>1 DEF TypeOK
<1>4. ImagesTyped'
  <2>1. CASE UNCHANGED <<staged, raw>>
    BY <2>1 DEF TypeOK, ImagesTyped
  <2>2. CASE Fetch(t)
    <3>1. Image(t) \in Id \X Ver
      BY Zenon, <2>2, Wanted DEF Fetch, Attaching
    <3> QED
      BY Zenon, <2>2, <3>1 DEF Fetch, managerVars, TypeOK, ImagesTyped
  <2> QED
    BY Zenon, <2>1, <2>2 DEF Pass, Merge, Diff, Stop, Detach, Want, Attach, RetryStop, RetryDetach, RetryAttach, EnsureCreds,
      Config, Start, CfgStop, CfgStart, managerVars, diskVars
<1>5. \A err \in BOOLEAN : Return(t, err) => last'.want \in DesiredSet /\ last'.failed \subseteq Id /\ UNCHANGED halted
  BY Fields DEF Return
<1>6. RecordTyped' /\ PlantTyped'
  <2> USE DEF managerVars, runVars, histVars
  <2>0. th[t].pc \in Attaching \cup Syncing =>
          /\ th[t].at \in Id /\ th[t].want[th[t].at].ver \in Ver /\ th[t].want[th[t].at].cfg \in Cfg
          /\ Image(t)[2] = th[t].want[th[t].at].ver
    BY Zenon, Wanted
  <2>1. RecordTyped /\ PlantTyped
    BY Typed
  <2>2. CASE Merge(t) \/ Diff(t) \/ Fetch(t)
    BY Zenon, <2>1, <2>2 DEF RecordTyped, PlantTyped, Merge, Diff, Fetch
  <2>3. CASE Stop(t)
    <3>1. Return(t, TRUE) => last'.want \in DesiredSet /\ last'.failed \subseteq Id /\ UNCHANGED halted
      BY <1>5, Zenon
    <3>2. th[t].at \in Id
      BY Zenon, <2>3 DEF Stop, LocalOK, Detaching
    <3> QED
      BY Zenon, <2>1, <2>3, <3>1, <3>2 DEF RecordTyped, PlantTyped, Stop
  <2>4. CASE Detach(t)
    <3>1. Return(t, TRUE) => last'.want \in DesiredSet /\ last'.failed \subseteq Id /\ UNCHANGED halted
      BY <1>5, Zenon
    <3> QED
      BY Zenon, <2>1, <2>4, <3>1 DEF RecordTyped, PlantTyped, Detach
  <2>5. CASE Want(t)
    <3>1. Return(t, FALSE) => last'.want \in DesiredSet /\ last'.failed \subseteq Id /\ UNCHANGED halted
      BY <1>5, Zenon
    <3> QED
      BY Zenon, <2>1, <2>5, <3>1 DEF RecordTyped, PlantTyped, Want
  <2>6. CASE Attach(t) \/ RetryAttach(t)
    BY Zenon, <2>0, <2>1, <2>6 DEF RecordTyped, PlantTyped, Attach, RetryAttach, PortableAttach, Attaching
  <2>7. CASE RetryStop(t) \/ RetryDetach(t)
    BY Zenon, <2>1, <2>7 DEF RecordTyped, PlantTyped, RetryStop, RetryDetach
  <2>8. CASE EnsureCreds(t)
    BY Zenon, <2>0, <2>1, <2>8 DEF RecordTyped, PlantTyped, EnsureCreds, Attaching, AuthState
  <2>9. CASE Config(t, "config", "start") \/ Config(t, "sync", "cfgStop")
    BY Zenon, <2>0, <2>1, <2>9 DEF RecordTyped, PlantTyped, Config, Attaching, Syncing
  <2>10. CASE Start(t)
    <3>1. configFile[th[t].at] \in Cfg
      BY Zenon, <2>10 DEF Start, LocalOK
    <3>2. RecordTyped'
      BY Zenon, <2>0, <2>1, <2>10 DEF RecordTyped, Start, Attaching
    <3> QED
      BY Zenon, <2>0, <2>1, <2>10, <3>1, <3>2 DEF PlantTyped, Start, SystemctlStart, Attaching
  <2>11. CASE CfgStop(t)
    BY Zenon, <2>0, <2>1, <2>11 DEF RecordTyped, PlantTyped, CfgStop, Syncing
  <2>12. CASE CfgStart(t)
    <3>1. configFile[th[t].at] \in Cfg
      BY Zenon, <2>12 DEF CfgStart, LocalOK
    <3>2. RecordTyped'
      BY Zenon, <2>0, <2>1, <2>12 DEF RecordTyped, CfgStart, Syncing
    <3> QED
      BY Zenon, <2>0, <2>1, <2>12, <3>1, <3>2 DEF PlantTyped, CfgStart, SystemctlStart, Syncing
  <2> QED
    BY <2>2, <2>3, <2>4, <2>5, <2>6, <2>7, <2>8, <2>9, <2>10, <2>11, <2>12 DEF Pass
<1> QED
  BY Zenon, <1>2, <1>3, <1>4, <1>6, PassThTyped DEF TypeOK, SetsTyped, RecordTyped, PlantTyped, ImagesTyped, FlagsTyped

\* The steps outside the passes.
LEMMA WorkTyped ==
  ASSUME TypeOK, NEW t \in Thread, LocalOK(t),
         ConfirmLocal(t) \/ WriteTmp(t) \/ RenameTmp(t) \/ RemoveImage(t) \/ (t = Run /\ SetProxy)
  PROVE  TypeOK'
<1> USE DEF managerVars, runVars, diskVars, histVars
<1>0. /\ SetsTyped /\ RecordTyped /\ PlantTyped /\ ImagesTyped /\ FlagsTyped
      /\ th \in [Thread -> Locals] /\ ops \in 0 .. MaxOps /\ deaths \in 0 .. MaxDeaths
  BY Typed
<1>1. th' \in [Thread -> Locals]
  <2>1. th[t] \in Locals /\ Fresh("idle") \in Locals /\ {"tmp", "rename", "merge"} \subseteq Pc
    BY <1>0, FreshTyped DEF Pc
  <2>2. \A a \in Pc : Go(t, a) => th' \in [Thread -> Locals]
    BY Zenon, <1>0, <2>1, FieldTyped DEF Go
  <2>3. th' = [th EXCEPT ![t] = Fresh("idle")] => th' \in [Thread -> Locals]
    BY <1>0, <2>1
  <2> QED
    BY <2>1, <2>2, <2>3 DEF ConfirmLocal, WriteTmp, RenameTmp, RemoveImage, SetProxy, SaveFails
<1>2. FlagsTyped'
  <2>1. CASE ConfirmLocal(t) \/ RemoveImage(t) \/ SetProxy
    BY Zenon, <1>0, <2>1 DEF FlagsTyped, ConfirmLocal, RemoveImage, SetProxy
  <2>2. UNCHANGED unsaved \/ unsaved' = TRUE
    BY DEF ConfirmLocal, WriteTmp, RenameTmp, RemoveImage, SetProxy, SaveFails
  <2>4. UNCHANGED overlap
    BY DEF ConfirmLocal, WriteTmp, RenameTmp, RemoveImage, SetProxy
  <2> QED
    BY <1>0, <2>2, <2>4, Zenon DEF FlagsTyped
<1>3. CASE ConfirmLocal(t)
  <2>1. th[t].job.id \in Id /\ th[t].job.entry \in Entry
    BY Zenon, <1>3 DEF ConfirmLocal, LocalOK
  <2>2. th[t].job.entry.cfg \in Cfg
    BY <2>1 DEF Entry
  <2>3. SetsTyped' /\ PlantTyped'
    BY Zenon, <1>0, <1>3, <2>1, <2>2 DEF ConfirmLocal, SetsTyped, PlantTyped, DesiredSet
  <2>4. RecordTyped' /\ ImagesTyped' /\ ops' \in 0 .. MaxOps /\ deaths' \in 0 .. MaxDeaths
    BY Zenon, <1>0, <1>3 DEF ConfirmLocal, RecordTyped, ImagesTyped
  <2> QED
    BY Zenon, <1>1, <1>2, <2>3, <2>4 DEF TypeOK, SetsTyped, RecordTyped, PlantTyped, ImagesTyped, FlagsTyped
<1>4. CASE ~ConfirmLocal(t)
  <2>1. SetsTyped'
    <3>1. CASE WriteTmp(t)
      <4>1. (IF th[t].live THEN localDesired ELSE th[t].set) \in DesiredSet
        BY Zenon, <1>0, Fields DEF SetsTyped
      <4>2. \A x \in DesiredSet : [exists |-> TRUE, set |-> x] \in [exists : BOOLEAN, set : DesiredSet]
        BY Zenon
      <4>3. localTmp' \in [exists : BOOLEAN, set : DesiredSet]
        BY Zenon, <1>0, <3>1, <4>1, <4>2 DEF WriteTmp, SetsTyped
      <4> QED
        BY <1>0, <3>1, <4>3 DEF WriteTmp, SetsTyped
    <3>2. CASE RenameTmp(t)
      <4>1. UNCHANGED localTmp \/ localTmp' = [localTmp EXCEPT !.exists = FALSE]
        BY <3>2 DEF RenameTmp
      <4>2. \A b \in BOOLEAN : [localTmp EXCEPT !.exists = b] \in [exists : BOOLEAN, set : DesiredSet]
        BY <1>0 DEF SetsTyped
      <4>3. [localTmp EXCEPT !.exists = FALSE] \in [exists : BOOLEAN, set : DesiredSet]
        BY <4>2, Zenon
      <4>4. localTmp' \in [exists : BOOLEAN, set : DesiredSet]
        BY Zenon, <1>0, <4>1, <4>3 DEF SetsTyped
      <4> QED
        BY <1>0, <3>2, <4>4 DEF RenameTmp, SetsTyped
    <3>3. CASE RemoveImage(t)
      BY <1>0, <3>3 DEF RemoveImage, SetsTyped
    <3>4. CASE t = Run /\ SetProxy
      BY Zenon, <1>0, <3>4, Fields DEF SetProxy, SetsTyped
    <3> QED
      BY <1>4, <3>1, <3>2, <3>3, <3>4
  <2>2. RecordTyped' /\ PlantTyped'
    BY <1>0, <1>4 DEF WriteTmp, RenameTmp, RemoveImage, SetProxy, RecordTyped, PlantTyped
  <2>3. ImagesTyped' /\ ops' \in 0 .. MaxOps /\ deaths' \in 0 .. MaxDeaths
    BY <1>0, <1>4 DEF WriteTmp, RenameTmp, RemoveImage, SetProxy, ImagesTyped
  <2> QED
    BY Zenon, <1>1, <1>2, <2>1, <2>2, <2>3 DEF TypeOK, SetsTyped, RecordTyped, PlantTyped, ImagesTyped, FlagsTyped
<1> QED
  BY <1>3, <1>4

\* Messages, requests and restarts.
LEMMA OtherTyped ==
  ASSUME TypeOK,
         \/ \E set \in Pushed : HandleDesired(set)
         \/ \E i \in Id, v \in Ver : StageModule(i, v)
         \/ \E t \in Http, i \in Id, v \in Ver, c \in Cfg : ConfirmModule(t, i, v, c)
         \/ \E t \in Http, i \in Id : UninstallModule(t, i)
  PROVE  TypeOK'
<1> USE DEF managerVars, runVars, diskVars, histVars
<1>0. /\ SetsTyped /\ RecordTyped /\ PlantTyped /\ ImagesTyped /\ FlagsTyped
      /\ th \in [Thread -> Locals] /\ ops \in 0 .. MaxOps /\ deaths \in 0 .. MaxDeaths
  BY Typed
<1>1. \A t : Begin(t) => /\ ops' \in 0 .. MaxOps /\ deaths' \in 0 .. MaxDeaths /\ UNCHANGED <<last, halted>>
                         /\ overlap' \in BOOLEAN
  <2>1. \A t : Begin(t) => ops' \in 0 .. MaxOps /\ deaths' \in 0 .. MaxDeaths /\ UNCHANGED <<last, halted>>
    BY <1>0, ModulesAssumption DEF Begin
  <2>2. \A t : Begin(t) => overlap' \in BOOLEAN
    BY Zenon DEF Begin
  <2> QED
    BY <2>1, <2>2
<1>2. ASSUME NEW set \in Pushed, HandleDesired(set) PROVE TypeOK'
  <2>1. set \in DesiredSet
    BY DEF Pushed, DesiredSet
  <2>2. Run \in Thread /\ th[Run] \in Locals /\ "setProxy" \in Pc
    BY <1>0 DEF Thread, Pc
  <2>3. th' \in [Thread -> Locals]
    <3>1. [th[Run] EXCEPT !.pc = "setProxy", !.set = set] \in Locals
      BY Zenon, <2>1, <2>2 DEF Locals
    <3> QED
      BY Zenon, <1>0, <1>2, <2>2, <3>1 DEF HandleDesired
  <2>4. unsaved' \in BOOLEAN
    BY <1>0, <1>2, Zenon DEF HandleDesired, FlagsTyped
  <2>5. SetsTyped' /\ RecordTyped' /\ PlantTyped' /\ ImagesTyped'
    BY <1>0, <1>1, <1>2, <2>1 DEF HandleDesired, SetsTyped, RecordTyped, PlantTyped, ImagesTyped
  <2> QED
    BY Zenon, <1>1, <1>2, <2>3, <2>4, <2>5 DEF HandleDesired, TypeOK, SetsTyped, RecordTyped, PlantTyped, ImagesTyped
<1>3. ASSUME NEW i \in Id, NEW v \in Ver, StageModule(i, v) PROVE TypeOK'
  <2>1. /\ raw' \subseteq Id \X Ver /\ staged' \subseteq Id \X Ver /\ ops' \in 0 .. MaxOps
    BY <1>0, <1>3, ModulesAssumption DEF StageModule, ImagesTyped
  <2> QED
    BY <1>3, <2>1, Zenon DEF StageModule, TypeOK
<1>4. ASSUME NEW t \in Http, NEW i \in Id, NEW v \in Ver, NEW c \in Cfg, ConfirmModule(t, i, v, c) PROVE TypeOK'
  <2> DEFINE job == [op |-> "confirm", id |-> i, entry |-> [ver |-> v, cfg |-> c, src |-> "file"]]
  <2>1. t \in Thread /\ th[t] \in Locals /\ "confirm" \in Pc
    BY <1>0 DEF Thread, Pc
  <2>2. job \in [op : {"none", "confirm", "uninstall"}, id : Id \cup {NoId}, entry : Entry \cup {Nothing}]
    BY DEF Entry
  <2>3. th' = [th EXCEPT ![t] = [th[t] EXCEPT !.pc = "confirm", !.job = job]]
    BY Zenon, <1>0, <1>4, <2>1 DEF ConfirmModule
  <2> HIDE DEF job
  <2>4. [th[t] EXCEPT !.pc = "confirm", !.job = job] \in Locals
    BY Zenon, <2>1, <2>2 DEF Locals
  <2>5. th' \in [Thread -> Locals]
    BY <1>0, <2>1, <2>3, <2>4
  <2>6. ImagesTyped'
    BY <1>0, <1>4 DEF ConfirmModule, ImagesTyped
  <2>7. SetsTyped' /\ RecordTyped' /\ PlantTyped'
    BY <1>0, <1>1, <1>4 DEF ConfirmModule, SetsTyped, RecordTyped, PlantTyped
  <2>8. unsaved' \in BOOLEAN
    BY <1>0, <1>4 DEF ConfirmModule, FlagsTyped
  <2> QED
    BY <1>1, <1>4, <2>5, <2>6, <2>7, <2>8 DEF ConfirmModule, TypeOK, SetsTyped, RecordTyped, PlantTyped, ImagesTyped
<1>5. ASSUME NEW t \in Http, NEW i \in Id, UninstallModule(t, i) PROVE TypeOK'
  <2> DEFINE job == [op |-> "uninstall", id |-> i, entry |-> localDesired[i]]
             mine == [th[t] EXCEPT !.pc = "tmp", !.job = job]
  <2>1. t \in Thread /\ th[t] \in Locals /\ "tmp" \in Pc
    BY <1>0 DEF Thread, Pc
  <2>2. job \in [op : {"none", "confirm", "uninstall"}, id : Id \cup {NoId}, entry : Entry \cup {Nothing}]
    BY <1>0 DEF SetsTyped, DesiredSet
  <2>3. th' = [u \in Thread |-> IF u = t THEN mine
                                ELSE IF th[u].pc = "tmp" /\ th[u].live
                                  THEN [th[u] EXCEPT !.set = localDesired, !.live = FALSE]
                                ELSE th[u]]
    BY Zenon, <1>5 DEF UninstallModule
  <2> HIDE DEF job
  <2>4. mine \in Locals
    BY Zenon, <2>1, <2>2 DEF Locals
  <2>5. \A u \in Thread : [th[u] EXCEPT !.set = localDesired, !.live = FALSE] \in Locals
    <3>1. ASSUME NEW l \in Locals PROVE [l EXCEPT !.set = localDesired, !.live = FALSE] \in Locals
      <4>1. [l EXCEPT !.set = localDesired] \in Locals
        BY Zenon, <1>0, FieldTyped DEF SetsTyped
      <4>2. [[l EXCEPT !.set = localDesired] EXCEPT !.live = FALSE] \in Locals
        BY Zenon, <4>1, FieldTyped
      <4> QED
        BY <4>2
    <3> QED
      BY Zenon, <1>0, <3>1
  <2> HIDE DEF mine
  <2>6. th' \in [Thread -> Locals]
    BY Zenon, <1>0, <2>3, <2>4, <2>5
  <2>7. SetsTyped' /\ RecordTyped' /\ PlantTyped' /\ ImagesTyped'
    BY Zenon, <1>0, <1>1, <1>5 DEF UninstallModule, SetsTyped, RecordTyped, PlantTyped, ImagesTyped, DesiredSet
  <2>8. unsaved' \in BOOLEAN
    BY Zenon, <1>0, <1>5 DEF UninstallModule, FlagsTyped
  <2> QED
    BY Zenon, <1>1, <1>5, <2>6, <2>7, <2>8 DEF UninstallModule, TypeOK, SetsTyped, RecordTyped, PlantTyped, ImagesTyped
<1> QED
  BY <1>2, <1>3, <1>4, <1>5

\* A new life of the agent.
LEMMA RestartTyped ==
  ASSUME TypeOK, NEW files \in [Id -> Cfg \cup {NoCfg}], Restart(files),
         attached' \in [Id -> Ver \cup {NoVer}], unit' \in [Id -> Cfg \cup {Off}]
  PROVE  TypeOK'
<1> USE DEF diskVars
<1>1. None \in DesiredSet
  BY DEF None, DesiredSet
<1>2. \A u \in Thread : Fresh(IF u = Run THEN "merge" ELSE "idle") \in Locals
  BY FreshTyped DEF Pc
<1>3. th' \in [Thread -> Locals]
  BY <1>2 DEF Restart, Threads
<1>4. auth' \in [Id -> AuthState]
  BY DEF Restart, Provision, AuthState
<1>5. configFile' \in [Id -> Cfg \cup {NoCfg}]
  <2>1. \A set \in DesiredSet, i \in Id : OnDisk(set, i) => set[i].cfg \in Cfg
    BY DEF OnDisk, DesiredSet, Entry
  <2>2. proxyCache \in DesiredSet /\ localStore \in DesiredSet
    BY Zenon DEF TypeOK
  <2>3. \A i \in Id : files[i] \in Cfg \cup {NoCfg}
    OBVIOUS
  <2>4. PICK noConfig \in SUBSET Id :
          configFile' = [i \in Id |->
            IF i \notin {j \in Id : OnDisk(proxyCache, j) \/ OnDisk(localStore, j)} \/ i \in noConfig THEN files[i]
            ELSE IF OnDisk(proxyCache, i) THEN proxyCache[i].cfg ELSE localStore[i].cfg]
    BY Zenon DEF Restart, Provision
  <2> QED
    BY <2>1, <2>2, <2>3, <2>4
<1>6. overlap' \in BOOLEAN /\ unsaved' \in BOOLEAN
  BY Zenon DEF Restart
<1>7. last'.want \in DesiredSet /\ last'.failed \subseteq Id
  BY <1>1 DEF Restart
<1>8. deaths' \in 0 .. MaxDeaths
  <2>1. deaths \in 0 .. MaxDeaths
    BY Zenon DEF TypeOK
  <2>2. deaths < MaxDeaths /\ deaths' = deaths + 1
    BY Zenon DEF Restart
  <2> QED
    BY <2>1, <2>2, ModulesAssumption
<1> QED
  BY <1>3, <1>4, <1>5, <1>6, <1>7, <1>8, SMTT(30), ZenonT(20) DEF Restart, TypeOK

\* Every step.
LEMMA TypeStep ==
  ASSUME TypeOK, \A t \in Thread : LocalOK(t), [Next]_vars
  PROVE  TypeOK'
<1>1. ASSUME NEW t \in Thread, Work(t) PROVE TypeOK'
  BY <1>1, PassTyped, WorkTyped DEF Work
<1>2. CASE AgentDies
  BY Zenon, <1>2, RestartTyped DEF AgentDies, TypeOK
<1>3. CASE Reboot
  <2>1. [i \in Id |-> NoCfg] \in [Id -> Cfg \cup {NoCfg}]
    OBVIOUS
  <2>2. attached' \in [Id -> Ver \cup {NoVer}] /\ unit' \in [Id -> Cfg \cup {Off}]
    BY <1>3 DEF Reboot
  <2> QED
    BY <1>3, <2>1, <2>2, RestartTyped DEF Reboot
<1>4. CASE UNCHANGED vars
  BY <1>4, Typed DEF vars, managerVars, runVars, diskVars, histVars, TypeOK
<1> QED
  BY <1>1, <1>2, <1>3, <1>4, OtherTyped DEF Next

=============================================================================
