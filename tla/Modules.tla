------------------------------ MODULE Modules ------------------------------
(***************************************************************************)
(* The module manager of the agent (agent/internal/modules): the desired   *)
(* sets of the proxy and of the local store, the reconciler that attaches, *)
(* starts, restarts and detaches module images, local installs, and the    *)
(* files that survive the agent.                                           *)
(*                                                                         *)
(* Who runs: the manager's goroutine, which reconciles once at boot and    *)
(* then handles the proxy's messages one at a time ("run"), and one        *)
(* goroutine per HTTP request (Http).  desiredMu protects the two desired  *)
(* sets and nothing else: two reconciler passes can interleave.            *)
(*                                                                         *)
(* An attachment lives in /run with the unit it started: it outlives the   *)
(* agent and not a reboot.  Every call of portablectl or systemctl and     *)
(* every write may fail.                                                   *)
(***************************************************************************)
EXTENDS Naturals

CONSTANTS
  Id,         \* modules
  Ver,        \* versions
  Cfg,        \* config_toml values
  Http,       \* HTTP request handlers
  MaxOps,     \* requests and messages a behaviour may receive
  MaxDeaths   \* times the agent or the rover may go down

ASSUME ModulesAssumption == MaxOps \in Nat /\ MaxDeaths \in Nat /\ "-" \notin Ver

Off == "off"
NoVer == "-"
NoId == "-"
\* No user; a user whose creds.env was not written, or one the server was not
\* told of; a user that works.
AuthState == {"none", "unwritten", "unserved", "ready"}
NoCfg == "-"
\* An entry of a desired set; src tells a local image from one to download.
Entry == [ver : Ver, cfg : Cfg, src : {"proxy", "file"}]
Nothing == [ver |-> NoVer, cfg |-> NoCfg, src |-> "file"]
DesiredSet == [Id -> Entry \cup {Nothing}]

Run == "run"
Thread == {Run} \cup Http

VARIABLES
  \* the manager
  proxyDesired, localDesired,
  staged,        \* Manager.staging: the uploads waiting for their confirmation
  current,       \* Reconciler.current: the version recorded as attached
  currentConfig, \* Reconciler.currentConfig
  tab,           \* the modules registered with the snapshot publisher
  auth,          \* the NATS user of a module in this life of the agent
  \* on /data
  proxyCache, localStore,
  localTmp,      \* modules.local.pb.tmp
  raw,           \* the images on disk
  \* in /run
  attached,      \* what portablectl has attached
  unit,          \* the config a running unit was started with, or Off
  configFile,    \* config.toml
  authed,        \* running units that read the credentials of this life
  \* goroutines
  th,            \* position and locals of each
  ops, deaths,
  \* history
  last,          \* the desired set of the last pass, and the modules it failed for
  overlap,       \* two goroutines of this agent were at work at once
  halted,        \* modules that a pass stopped and neither detached nor started
  unsaved        \* a write of one of the two stores failed

managerVars == <<proxyDesired, localDesired, staged, current, currentConfig, tab, auth>>
diskVars == <<proxyCache, localStore, localTmp, raw>>
runVars == <<attached, unit, configFile, authed>>
histVars == <<last, overlap, halted, unsaved>>
vars == <<managerVars, diskVars, runVars, th, ops, deaths, histVars>>

Pc == {"idle", "setProxy", "confirm", "tmp", "rename", "merge", "diff", "stop", "detach",
       "want", "fetch", "attach", "retryStop", "retryDetach", "retryAttach", "creds",
       "config", "start", "sync", "cfgStop", "cfgStart", "rm"}

\* want, left, at and failed belong to a pass; job is an HTTP request; set is
\* the set a message or a write carries, unless it is still the live one.
Locals == [pc : Pc, want : DesiredSet, left : SUBSET Id, at : Id \cup {NoId},
           failed : SUBSET Id,
           job : [op : {"none", "confirm", "uninstall"}, id : Id \cup {NoId},
                  entry : Entry \cup {Nothing}],
           set : DesiredSet, live : BOOLEAN]

TypeOK ==
  /\ proxyDesired \in DesiredSet /\ localDesired \in DesiredSet
  /\ staged \subseteq Id \X Ver
  /\ current \in [Id -> Ver \cup {NoVer}]
  /\ currentConfig \in [Id -> Cfg \cup {NoCfg}]
  /\ tab \subseteq Id
  /\ auth \in [Id -> AuthState] /\ authed \subseteq Id
  /\ proxyCache \in DesiredSet /\ localStore \in DesiredSet
  /\ localTmp \in [exists : BOOLEAN, set : DesiredSet]
  /\ raw \subseteq Id \X Ver
  /\ attached \in [Id -> Ver \cup {NoVer}]
  /\ unit \in [Id -> Cfg \cup {Off}]
  /\ configFile \in [Id -> Cfg \cup {NoCfg}]
  /\ th \in [Thread -> Locals]
  /\ ops \in 0 .. MaxOps /\ deaths \in 0 .. MaxDeaths
  /\ last.want \in DesiredSet /\ last.failed \subseteq Id
  /\ overlap \in BOOLEAN /\ unsaved \in BOOLEAN /\ halted \subseteq Id

None == [i \in Id |-> Nothing]
NoJob == [op |-> "none", id |-> NoId, entry |-> Nothing]
Fresh(at) == [pc |-> at, want |-> None, left |-> {}, at |-> NoId, failed |-> {},
              job |-> NoJob, set |-> None, live |-> TRUE]

\* A process that has just read its two stores and is about to reconcile.
Threads == [t \in Thread |-> Fresh(IF t = Run THEN "merge" ELSE "idle")]

Init ==
  /\ proxyDesired = None /\ localDesired = None /\ staged = {}
  /\ current = [i \in Id |-> NoVer] /\ currentConfig = [i \in Id |-> NoCfg] /\ tab = {}
  /\ auth = [i \in Id |-> "none"] /\ authed = {}
  /\ proxyCache = None /\ localStore = None
  /\ localTmp = [exists |-> FALSE, set |-> None]
  /\ raw = {}
  /\ attached = [i \in Id |-> NoVer] /\ unit = [i \in Id |-> Off]
  /\ configFile = [i \in Id |-> NoCfg]
  /\ th = Threads
  /\ ops = 0 /\ deaths = 0
  /\ last = [want |-> None, failed |-> Id]
  /\ overlap = FALSE /\ halted = {} /\ unsaved = FALSE

-----------------------------------------------------------------------------
(* A reconciler pass of goroutine t.                                        *)

Go(t, at) == th' = [th EXCEPT ![t].pc = at]

\* mergeDesired: local entries win.
Merged == [i \in Id |-> IF localDesired[i] # Nothing THEN localDesired[i] ELSE proxyDesired[i]]

\* reconcileMerged: a snapshot, taken under desiredMu and used after it.
Merge(t) ==
  /\ th[t].pc = "merge"
  /\ th' = [th EXCEPT ![t].pc = "diff", ![t].want = Merged, ![t].left = Id, ![t].failed = {}]
  /\ UNCHANGED <<managerVars, diskVars, runVars, ops, deaths, histVars>>

\* Variant: the error of the pass is dropped.
ReturnSwallowsError(t, err) ==
  /\ last' = [want |-> th[t].want, failed |-> IF err THEN Id ELSE th[t].failed]
  /\ th' = [th EXCEPT ![t] = IF th[t].job.op = "uninstall"
                               THEN [Fresh("rm") EXCEPT !.job = th[t].job] ELSE Fresh("idle")]
  /\ UNCHANGED <<overlap, halted, unsaved>>

\* The pass is over.  Only the error of a detach is returned, and it keeps an
\* uninstall from deleting the image.
Return(t, err) ==
  /\ last' = [want |-> th[t].want, failed |-> IF err THEN Id ELSE th[t].failed]
  /\ th' = [th EXCEPT ![t] = IF th[t].job.op = "uninstall" /\ ~err
                               THEN [Fresh("rm") EXCEPT !.job = th[t].job] ELSE Fresh("idle")]
  /\ UNCHANGED <<overlap, halted, unsaved>>

\* A failure that is logged: the pass goes on with the next module.
Skip(t) == th' = [th EXCEPT ![t].pc = "want", ![t].failed = @ \cup {th[t].at}]

\* Every recorded module that is not wanted, or not in this version, is
\* stopped and detached.
Diff(t) ==
  /\ th[t].pc = "diff"
  /\ \/ \E i \in th[t].left :
          th' = [th EXCEPT ![t].left = @ \ {i}, ![t].at = i,
                   ![t].pc = IF current[i] \notin {NoVer, th[t].want[i].ver} THEN "stop" ELSE "diff"]
     \/ /\ th[t].left = {}
        /\ th' = [th EXCEPT ![t].pc = "want", ![t].left = {i \in Id : th[t].want[i] # Nothing}]
  /\ UNCHANGED <<managerVars, diskVars, runVars, ops, deaths, histVars>>

Stop(t) ==
  /\ th[t].pc = "stop"
  /\ \/ /\ unit' = [unit EXCEPT ![th[t].at] = Off]
        /\ halted' = halted \cup {th[t].at}
        /\ Go(t, "detach")
        /\ UNCHANGED <<last, overlap, unsaved>>
     \/ Return(t, TRUE) /\ UNCHANGED unit
  /\ UNCHANGED <<managerVars, diskVars, attached, configFile, authed, ops, deaths>>

\* portablectl refuses what is not attached or still runs.
Detachable(i) == attached[i] # NoVer /\ unit[i] = Off

Detach(t) ==
  LET i == th[t].at IN
  /\ th[t].pc = "detach"
  /\ \/ /\ Detachable(i)
        /\ attached' = [attached EXCEPT ![i] = NoVer]
        /\ current' = [current EXCEPT ![i] = NoVer]
        /\ tab' = tab \ {i}
        /\ halted' = halted \ {i}
        /\ Go(t, "diff")
        /\ UNCHANGED <<last, overlap, unsaved>>
     \/ Return(t, TRUE) /\ UNCHANGED <<attached, current, tab>>
  /\ UNCHANGED <<proxyDesired, localDesired, staged, currentConfig, auth, diskVars,
                 unit, configFile, authed, ops, deaths>>

\* Variant: a module in the wanted version is left alone.
WantComparesVersionOnly(t) ==
  /\ th[t].pc = "want"
  /\ \/ th[t].left = {} /\ Return(t, FALSE)
     \/ /\ \E i \in th[t].left :
             th' = [th EXCEPT ![t].left = @ \ {i}, ![t].at = i,
                      ![t].pc = IF current[i] # th[t].want[i].ver THEN "fetch" ELSE "want"]
        /\ UNCHANGED histVars
  /\ UNCHANGED <<managerVars, diskVars, runVars, ops, deaths>>

\* The next wanted module: restart it if its config changed, attach it if it
\* is not recorded in this version.
Want(t) ==
  /\ th[t].pc = "want"
  /\ \/ th[t].left = {} /\ Return(t, FALSE)
     \/ /\ \E i \in th[t].left :
             th' = [th EXCEPT ![t].left = @ \ {i}, ![t].at = i,
                      ![t].pc = IF current[i] # th[t].want[i].ver THEN "fetch"
                                ELSE IF currentConfig[i] # th[t].want[i].cfg THEN "sync"
                                ELSE "want"]
        /\ UNCHANGED histVars
  /\ UNCHANGED <<managerVars, diskVars, runVars, ops, deaths>>

Image(t) == <<th[t].at, th[t].want[th[t].at].ver>>

\* An image that is not on disk is downloaded; a local one cannot be.
Fetch(t) ==
  /\ th[t].pc = "fetch"
  /\ \/ Image(t) \in raw /\ Go(t, "attach") /\ UNCHANGED raw
     \/ /\ Image(t) \notin raw /\ th[t].want[th[t].at].src = "proxy"
        /\ raw' = raw \cup {Image(t)}
        /\ Go(t, "attach")
     \/ Image(t) \notin raw /\ Skip(t) /\ UNCHANGED raw
  /\ UNCHANGED <<managerVars, proxyCache, localStore, localTmp, runVars, ops, deaths, histVars>>

\* portablectl refuses to attach over an attachment.
PortableAttach(t) ==
  /\ attached[th[t].at] = NoVer /\ Image(t) \in raw
  /\ attached' = [attached EXCEPT ![th[t].at] = Image(t)[2]]

Attach(t) ==
  /\ th[t].pc = "attach"
  /\ \/ PortableAttach(t) /\ Go(t, "creds")
     \/ Go(t, "retryStop") /\ UNCHANGED attached
  /\ UNCHANGED <<managerVars, diskVars, unit, configFile, authed, ops, deaths, histVars>>

\* The retry: stop, if possible, ...
RetryStop(t) ==
  /\ th[t].pc = "retryStop"
  /\ unit' \in {unit, [unit EXCEPT ![th[t].at] = Off]}
  /\ Go(t, "retryDetach")
  /\ UNCHANGED <<managerVars, diskVars, attached, configFile, authed, ops, deaths, histVars>>

\* ... detach, ...
RetryDetach(t) ==
  /\ th[t].pc = "retryDetach"
  /\ \/ /\ Detachable(th[t].at)
        /\ attached' = [attached EXCEPT ![th[t].at] = NoVer]
        /\ Go(t, "retryAttach")
     \/ Skip(t) /\ UNCHANGED attached
  /\ UNCHANGED <<managerVars, diskVars, unit, configFile, authed, ops, deaths, histVars>>

\* ... attach again.
RetryAttach(t) ==
  /\ th[t].pc = "retryAttach"
  /\ \/ PortableAttach(t) /\ Go(t, "creds")
     \/ Skip(t) /\ UNCHANGED attached
  /\ UNCHANGED <<managerVars, diskVars, unit, configFile, authed, ops, deaths, histVars>>

\* ensureModuleCreds: nothing for a module that has a user.  The user stays if
\* writing its files or reloading the server fails; a reload tells the server
\* of every user.
EnsureCreds(t) ==
  LET i == th[t].at IN
  /\ th[t].pc = "creds"
  /\ \/ auth[i] # "none" /\ Go(t, "config") /\ UNCHANGED <<auth, configFile>>
     \/ /\ auth[i] = "none"
        /\ auth' = [j \in Id |-> IF j = i \/ auth[j] = "unserved" THEN "ready" ELSE auth[j]]
        /\ configFile' = [configFile EXCEPT ![i] = th[t].want[i].cfg]
        /\ Go(t, "config")
     \/ /\ auth[i] = "none"
        /\ \E a \in {"none", "unwritten", "unserved"} : auth' = [auth EXCEPT ![i] = a]
        /\ configFile' \in {configFile, [configFile EXCEPT ![i] = th[t].want[i].cfg]}
        /\ Skip(t)
  /\ UNCHANGED <<proxyDesired, localDesired, staged, current, currentConfig, tab, diskVars,
                 attached, unit, authed, ops, deaths, histVars>>

\* writeDesiredConfig.
Config(t, from, to) ==
  /\ th[t].pc = from
  /\ \/ /\ configFile' = [configFile EXCEPT ![th[t].at] = th[t].want[th[t].at].cfg]
        /\ Go(t, to)
     \/ Skip(t) /\ UNCHANGED configFile
  /\ UNCHANGED <<managerVars, diskVars, attached, unit, authed, ops, deaths, histVars>>

\* systemctl start: a running unit is left alone, one that is not attached is
\* not found.  A module reads config.toml and creds.env when it starts.
SystemctlStart(i) ==
  /\ attached[i] # NoVer
  /\ unit' = IF unit[i] = Off THEN [unit EXCEPT ![i] = configFile[i]] ELSE unit
  /\ authed' = IF unit[i] # Off THEN authed
               ELSE IF auth[i] \in {"ready", "unserved"} THEN authed \cup {i}
               ELSE authed \ {i}

\* The module starts and is recorded; it gets a tab if its manifest was read
\* and has one.
Start(t) ==
  LET i == th[t].at IN
  /\ th[t].pc = "start"
  /\ \/ /\ SystemctlStart(i)
        /\ current' = [current EXCEPT ![i] = th[t].want[i].ver]
        /\ currentConfig' = [currentConfig EXCEPT ![i] = th[t].want[i].cfg]
        /\ tab' \in {tab, tab \cup {i}}
        /\ halted' = halted \ {i}
        /\ Go(t, "want")
     \/ Skip(t) /\ UNCHANGED <<unit, authed, current, currentConfig, tab, halted>>
  /\ UNCHANGED <<proxyDesired, localDesired, staged, auth, diskVars, attached, configFile,
                 ops, deaths, last, overlap, unsaved>>

\* applyConfigChange, after it has written the file: stop, ...
CfgStop(t) ==
  /\ th[t].pc = "cfgStop"
  /\ \/ /\ unit' = [unit EXCEPT ![th[t].at] = Off]
        /\ halted' = halted \cup {th[t].at}
        /\ Go(t, "cfgStart")
     \/ Skip(t) /\ UNCHANGED <<unit, halted>>
  /\ UNCHANGED <<managerVars, diskVars, attached, configFile, authed, ops, deaths, last, overlap, unsaved>>

\* ... start, and record the config.
CfgStart(t) ==
  LET i == th[t].at IN
  /\ th[t].pc = "cfgStart"
  /\ \/ /\ SystemctlStart(i)
        /\ currentConfig' = [currentConfig EXCEPT ![i] = th[t].want[i].cfg]
        /\ halted' = halted \ {i}
        /\ Go(t, "want")
     \/ Skip(t) /\ UNCHANGED <<unit, authed, currentConfig, halted>>
  /\ UNCHANGED <<proxyDesired, localDesired, staged, current, tab, auth, diskVars,
                 attached, configFile, ops, deaths, last, overlap, unsaved>>

Pass(t) ==
  \/ Merge(t) \/ Diff(t) \/ Stop(t) \/ Detach(t) \/ Want(t) \/ Fetch(t)
  \/ Attach(t) \/ RetryStop(t) \/ RetryDetach(t) \/ RetryAttach(t)
  \/ EnsureCreds(t) \/ Config(t, "config", "start") \/ Start(t)
  \/ Config(t, "sync", "cfgStop") \/ CfgStop(t) \/ CfgStart(t)

-----------------------------------------------------------------------------
(* Messages and requests.                                                   *)

\* Goroutine t is given work.
Begin(t) ==
  /\ th[t].pc = "idle" /\ ops < MaxOps
  /\ ops' = ops + 1
  /\ overlap' = (overlap \/ \E u \in Thread : th[u].pc # "idle")
  /\ UNCHANGED <<deaths, last, halted>>

\* Variant: the message is not cached.
HandleDesiredInMemory(set) ==
  /\ Begin(Run)
  /\ th' = [th EXCEPT ![Run].pc = "setProxy", ![Run].set = set]
  /\ UNCHANGED <<managerVars, diskVars, runVars, unsaved>>

\* handleDesired: the message replaces the cache, then the set in memory, even
\* if the cache could not be written.
HandleDesired(set) ==
  /\ Begin(Run)
  /\ \/ proxyCache' = set /\ UNCHANGED unsaved
     \/ unsaved' = TRUE /\ UNCHANGED proxyCache
  /\ th' = [th EXCEPT ![Run].pc = "setProxy", ![Run].set = set]
  /\ UNCHANGED <<managerVars, localStore, localTmp, raw, runVars>>

SetProxy ==
  /\ th[Run].pc = "setProxy"
  /\ proxyDesired' = th[Run].set
  /\ Go(Run, "merge")
  /\ UNCHANGED <<localDesired, staged, current, currentConfig, tab, auth, diskVars, runVars,
                 ops, deaths, histVars>>

\* StageModule: the upload is verified and waits for its confirmation.
StageModule(i, v) ==
  /\ <<i, v>> \notin staged
  /\ staged' = staged \cup {<<i, v>>}
  /\ UNCHANGED <<proxyDesired, localDesired, current, currentConfig, tab, auth, diskVars, runVars,
                 th, ops, deaths, histVars>>

\* ConfirmModule: the image moves to its place, ...
ConfirmModule(t, i, v, c) ==
  /\ Begin(t)
  /\ <<i, v>> \in staged
  /\ staged' = staged \ {<<i, v>>}
  /\ raw' = raw \cup {<<i, v>>}
  /\ th' = [th EXCEPT ![t].pc = "confirm",
              ![t].job = [op |-> "confirm", id |-> i, entry |-> [ver |-> v, cfg |-> c, src |-> "file"]]]
  /\ UNCHANGED <<proxyDesired, localDesired, current, currentConfig, tab, auth,
                 proxyCache, localStore, localTmp, runVars, unsaved>>

\* ... its config is written (an empty one only when the module starts), and
\* the entry is put into the local set in place, where a handler that is about to marshal the set sees it.  The pin or the
\* config may fail: the image stays.
ConfirmLocal(t) ==
  LET job == th[t].job IN
  /\ th[t].pc = "confirm"
  /\ \/ /\ configFile' = [configFile EXCEPT ![job.id] = job.entry.cfg]
        /\ localDesired' = [localDesired EXCEPT ![job.id] = job.entry]
        /\ Go(t, "tmp")
     \/ th' = [th EXCEPT ![t] = Fresh("idle")] /\ UNCHANGED <<configFile, localDesired>>
  /\ UNCHANGED <<proxyDesired, staged, current, currentConfig, tab, auth, diskVars, attached, unit,
                 authed, ops, deaths, histVars>>

\* UninstallModule makes a new set without the entry: a handler that holds the
\* old one keeps it.
UninstallModule(t, i) ==
  /\ Begin(t)
  /\ localDesired[i] # Nothing
  /\ localDesired' = [localDesired EXCEPT ![i] = Nothing]
  /\ th' = [u \in Thread |->
              IF u = t THEN [th[t] EXCEPT !.pc = "tmp",
                               !.job = [op |-> "uninstall", id |-> i, entry |-> localDesired[i]]]
              ELSE IF th[u].pc = "tmp" /\ th[u].live
                THEN [th[u] EXCEPT !.set = localDesired, !.live = FALSE]
              ELSE th[u]]
  /\ UNCHANGED <<proxyDesired, staged, current, currentConfig, tab, auth, diskVars, runVars, unsaved>>

\* An error returned to the HTTP handler: nothing is reconciled.
SaveFails(t) ==
  /\ unsaved' = TRUE
  /\ th' = [th EXCEPT ![t] = Fresh("idle")]

\* WriteLocalDesired, outside the lock: the temporary file, ...
WriteTmp(t) ==
  /\ th[t].pc = "tmp"
  /\ \/ /\ localTmp' = [exists |-> TRUE, set |-> IF th[t].live THEN localDesired ELSE th[t].set]
        /\ Go(t, "rename") /\ UNCHANGED unsaved
     \/ SaveFails(t) /\ UNCHANGED localTmp
  /\ UNCHANGED <<managerVars, proxyCache, localStore, raw, runVars, ops, deaths,
                 last, overlap, halted>>

\* ... which all writers share, and its rename.
RenameTmp(t) ==
  /\ th[t].pc = "rename"
  /\ \/ /\ localTmp.exists
        /\ localStore' = localTmp.set
        /\ localTmp' = [localTmp EXCEPT !.exists = FALSE]
        /\ Go(t, "merge") /\ UNCHANGED unsaved
     \/ SaveFails(t) /\ UNCHANGED <<localStore, localTmp>>
  /\ UNCHANGED <<managerVars, proxyCache, raw, runVars, ops, deaths, last, overlap, halted>>

\* The last step of an uninstall whose pass returned no error.
RemoveImage(t) ==
  /\ th[t].pc = "rm"
  /\ raw' = raw \ {<<th[t].job.id, th[t].job.entry.ver>>}
  /\ th' = [th EXCEPT ![t] = Fresh("idle")]
  /\ UNCHANGED <<managerVars, proxyCache, localStore, localTmp, runVars, ops, deaths, histVars>>

\* provisionCachedDesiredCreds, for the proxy's store and then the local one:
\* a new user and runtime files for every stored module whose image is on disk.
\* A module of both is provisioned from the first; failures are ignored.
OnDisk(set, i) == set[i] # Nothing /\ <<i, set[i].ver>> \in raw

Provision(files) ==
  LET stored == {i \in Id : OnDisk(proxyCache, i) \/ OnDisk(localStore, i)} IN
  \E noCreds \in SUBSET stored : \E noConfig \in SUBSET noCreds :
    /\ auth' = [i \in Id |-> IF i \notin stored THEN "none"
                             ELSE IF i \in noCreds THEN "unwritten" ELSE "ready"]
    /\ configFile' = [i \in Id |-> IF i \notin stored \/ i \in noConfig THEN files[i]
                                   ELSE IF OnDisk(proxyCache, i) THEN proxyCache[i].cfg
                                   ELSE localStore[i].cfg]

\* New and Run start over from the two stores, with nothing recorded as attached.
Restart(files) ==
  /\ deaths < MaxDeaths
  /\ deaths' = deaths + 1
  /\ proxyDesired' = proxyCache /\ localDesired' = localStore /\ staged' = {}
  /\ current' = [i \in Id |-> NoVer] /\ currentConfig' = [i \in Id |-> NoCfg] /\ tab' = {}
  /\ Provision(files) /\ authed' = {}
  /\ th' = Threads
  /\ last' = [want |-> None, failed |-> Id]
  /\ overlap' = FALSE /\ halted' = {} /\ unsaved' = FALSE
  /\ UNCHANGED <<diskVars, ops>>

\* A panic, a fatal race on a map, a restart of the service.
AgentDies == Restart(configFile) /\ UNCHANGED <<attached, unit>>

Reboot ==
  /\ Restart([i \in Id |-> NoCfg])
  /\ attached' = [i \in Id |-> NoVer] /\ unit' = [i \in Id |-> Off]

Work(t) ==
  \/ Pass(t) \/ ConfirmLocal(t) \/ WriteTmp(t) \/ RenameTmp(t) \/ RemoveImage(t)
  \/ t = Run /\ SetProxy

\* What the proxy can push.
Pushed == [Id -> {e \in Entry : e.src = "proxy"} \cup {Nothing}]

Next ==
  \/ \E t \in Thread : Work(t)
  \/ \E set \in Pushed : HandleDesired(set)
  \/ \E i \in Id, v \in Ver : StageModule(i, v)
  \/ \E t \in Http, i \in Id, v \in Ver, c \in Cfg : ConfirmModule(t, i, v, c)
  \/ \E t \in Http, i \in Id : UninstallModule(t, i)
  \/ AgentDies
  \/ Reboot

Spec == Init /\ [][Next]_vars

-----------------------------------------------------------------------------
(* Properties.                                                              *)

Idle == \A t \in Thread : th[t].pc = "idle"

\* Nobody is at work and the last pass saw today's desired set.
Settled == Idle /\ last.want = Merged /\ ~overlap

\* Attached by an earlier life of the agent, or by a start that failed: not in
\* the reconciler's record.
Unrecorded(i) == attached[i] # NoVer /\ current[i] = NoVer

\* A pass leaves the rover with what is wanted: every wanted module for which
\* nothing failed is attached in its version and was started with its config
\* and with credentials of this life of the agent (unless they could not be
\* written), and nothing else the reconciler knows of is attached.  The
\* exception: a module that a failed change stopped and that is wanted as it
\* was again (halted).
RunsWhatIsWanted ==
  Settled => \A i \in Id \ (halted \cup last.failed) :
    IF Merged[i] # Nothing
      THEN /\ attached[i] = Merged[i].ver /\ unit[i] = Merged[i].cfg
           /\ i \in authed \/ auth[i] = "unwritten"
      ELSE attached[i] = NoVer \/ Unrecorded(i)

\* Unless two goroutines met or a write failed, a restart finds the desired
\* sets it left: both stores hold what the manager holds when nobody is at work.
RestartKeepsDesired ==
  Idle /\ ~overlap /\ ~unsaved => proxyCache = proxyDesired /\ localStore = localDesired

\* What the reconciler records is attached, and only recorded modules have a
\* tab in the snapshot, unless two passes met.
RecordIsTrue ==
  TypeOK /\ (~overlap => \A i \in Id :
    /\ current[i] # NoVer => attached[i] = current[i]
    /\ i \in tab => current[i] # NoVer)

\* An uninstall never deletes the image of a module it left attached and
\* recorded, unless the proxy wants that very version or two goroutines met.
ImageOutlivesModule ==
  [][\A i \in Id, v \in Ver :
       <<i, v>> \in raw /\ <<i, v>> \notin raw' /\ ~overlap /\ current[i] = v
         => proxyDesired[i].ver = v]_vars

\* A comment of reconciler.go that does not hold: "Reconciler diffs the desired module
\* set against the attached set and drives portablectl + the supervisor to bring them
\* into alignment."  A pass of today's set that failed for nothing leaves attached and
\* running exactly what is desired.
InAlignment ==
  Settled /\ last.failed = {} => \A i \in Id :
    /\ attached[i] = Merged[i].ver
    /\ Merged[i] # Nothing => unit[i] = Merged[i].cfg
=============================================================================
