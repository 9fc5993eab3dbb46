------------------------------- MODULE Sandbox -------------------------------
(***************************************************************************)
(* One module, called Name, from its manifest to what it may do: the       *)
(* rights of its NATS user, its devices and environment, its entry in the  *)
(* snapshot of modules, and the commands the proxy relays to it            *)
(* (agent/internal/modules: manager.go, discovery.go, reconciler.go,       *)
(* publisher.go; localauth; proxy/internal/cmdrelay/classindex.go).        *)
(*                                                                         *)
(* Version 0 is baked into the OS image, the others are installed.  The    *)
(* steps of Reconcile that Modules takes one by one are one step here,     *)
(* with the first thing that fails in it.                                  *)
(***************************************************************************)
EXTENDS Manifest

CONSTANTS
  MaxVer,     \* versions 1 .. MaxVer can be installed
  MaxOps,     \* versions asked for, deaths and reboots
  MaxFaults   \* steps that fail

VARIABLES
  raw,        \* the manifest file of each version
  enabled,    \* modules.toml enables the baked version
  cached,     \* modules.desired.pb: the version wanted, 0 for none
  ondisk,     \* versions whose image has been fetched
  up,         \* the agent: "off", "new", "on", or "none" without a module manager
  auth,       \* localauth.Builder: the user, or NoRights
  users,      \* the same in the server
  work,       \* what Reconcile has to do: "detach", "attach" or "idle"
  current,    \* Reconciler.current, 0 for none
  image,      \* the version attached, which outlives the agent
  dropin,     \* the files in /run/systemd/system
  proc,       \* the module's process, or NoProc
  components, \* Manager.components
  runtime,    \* SnapshotPublisher.runtime: the version in it, 0 for none
  wire,       \* a snapshot on its way: the classes, and whether it is of now
  index,      \* classIndex of the proxy
  seen,       \* the proxy has learned the snapshot of now
  ops, faults,
  was,        \* history: versions attached since the last boot of the rover
  half,       \* history: a user was added and did not reach the server or the disk
  narrow      \* history: the user is of the baked manifest

disk == <<raw, enabled, cached, ondisk>>
server == <<auth, users, half, narrow>>
host == <<image, dropin, proc, was>>
manager == <<work, current, components, runtime>>
proxy == <<wire, index, seen>>
vars == <<disk, up, server, host, manager, proxy, ops, faults>>

Ver == 0 .. MaxVer
Man(v) == ParseManifest(raw[v])
NoProc == [v |-> -1, hw |-> {}, env |-> NoEnv, whole |-> FALSE]
NoFiles == [hw |-> {}, env |-> NoEnv]
NoSnap == [classes |-> {}, now |-> FALSE, sent |-> FALSE]

Arm == Comp("arm", 20)
\* The manifests of the installed versions, one of them with both forms of a
\* component, and those of the baked one, one with a subject of another module.
Sample == {
  Blank,
  [Blank EXCEPT !.components = <<Arm, Comp("sensor", 0)>>, !.devices = {"i2c"}, !.tab = "static"],
  [Blank EXCEPT !.component = <<Comp("drill", 5)>>, !.requires = {"drive-control"}, !.teleop = TRUE],
  [Blank EXCEPT !.component = <<Arm>>, !.components = <<Arm>>, !.tab = "static"]}
Baked == {
  [Blank EXCEPT !.components = <<Arm, Comp("sensor", 0)>>, !.publish = {Own(<<"stats">>)}, !.tab = "proxy"],
  [Blank EXCEPT !.component = <<Comp("base", 50)>>, !.requires = {"drive-control"}],
  [Blank EXCEPT !.publish = {<<"*", "module", "n", "stats">>}]}

TypeOK ==
  /\ cached \in Ver /\ ondisk \subseteq Ver /\ current \in Ver /\ image \in Ver /\ runtime \in Ver
  /\ up \in {"off", "new", "on", "none"} /\ work \in {"detach", "attach", "idle"}
  /\ proc.v \in Ver \cup {-1} /\ {enabled, seen, half, narrow} \subseteq BOOLEAN
  /\ index \subseteq ComponentClass

\* The manifests there may be, the baked one and those of the versions.
Files == {r \in [Ver -> Sample \cup Baked] : \A v \in Ver : r[v] \in IF v = 0 THEN Baked ELSE Sample}

Init ==
  /\ raw \in Files /\ enabled \in BOOLEAN /\ cached = 0 /\ ondisk = {}
  /\ up = "off" /\ auth = NoRights /\ users = NoRights /\ half = FALSE /\ narrow = FALSE
  /\ work = "idle" /\ current = 0 /\ components = {} /\ runtime = 0
  /\ image = 0 /\ dropin = NoFiles /\ proc = NoProc /\ was = {}
  /\ wire = NoSnap /\ index = {} /\ seen = FALSE /\ ops = 0 /\ faults = 0

Ops == ops < MaxOps /\ ops' = ops + 1
Fault(f) == IF f = "none" THEN UNCHANGED faults ELSE faults < MaxFaults /\ faults' = faults + 1

\* The snapshot changes: what is on the wire, and what the proxy has, is of before.
Changes == wire' = [wire EXCEPT !.now = FALSE] /\ seen' = FALSE /\ UNCHANGED index

-----------------------------------------------------------------------------
(* The start of the agent. *)

\* Discover: the baked manifests and modules.toml; one that cannot be parsed, enabled
\* or not, is an error.
Discover == Man(0).ok

\* provisionCachedDesiredCreds: the wanted version, where its image is on the disk.
provisionCachedDesiredCreds == cached # 0 /\ cached \in ondisk

\* New: the users, before the server starts with them.  After an error the agent goes
\* on without a manager.
New ==
  /\ up = "off" /\ up' = IF Discover THEN "new" ELSE "none"
  /\ auth' = IF ~Discover THEN NoRights
             ELSE IF provisionCachedDesiredCreds THEN AddModuleUser(Subtree)
             ELSE IF enabled THEN AddModuleUser(ManifestAuthPermissions(Man(0))) ELSE NoRights
  /\ users' = auth' /\ half' = FALSE
  /\ narrow' = (Discover /\ enabled /\ ~provisionCachedDesiredCreds)
  /\ work' = IF Discover THEN "attach" ELSE "idle"
  /\ Changes
  /\ UNCHANGED <<disk, host, current, components, runtime, ops, faults>>

\* Run, after its first reconcile: the baked modules are started; a unit that runs
\* already stays as it is, and an attached image has the baked one's unit name.
StartBaked ==
  /\ up = "new" /\ work = "idle" /\ up' = "on"
  /\ proc' = IF enabled /\ proc = NoProc
               THEN [v |-> image, hw |-> dropin.hw, env |-> dropin.env, whole |-> FALSE] ELSE proc
  /\ UNCHANGED <<disk, server, image, dropin, was, manager, proxy, ops, faults>>

\* handleDesired: the set is cached and reconciled.
HandleDesired(v) ==
  /\ Ops /\ up = "on" /\ work = "idle" /\ cached' = v
  /\ work' = IF current \notin {0, v} THEN "detach" ELSE "attach"
  /\ UNCHANGED <<raw, enabled, ondisk, up, server, host, current, components, runtime, proxy, faults>>

-----------------------------------------------------------------------------
(* Reconcile. *)

\* onModuleDetached.
onModuleDetached ==
  /\ runtime' = 0 /\ components' = {} /\ Changes

\* detach; when it fails the reconcile is over.  Drop-ins and user stay.
Detach(f) ==
  /\ work = "detach" /\ Fault(f)
  /\ IF f # "none" THEN /\ work' = "idle" /\ proc' \in {proc, NoProc}
                        /\ UNCHANGED <<image, current, components, runtime, proxy>>
     ELSE /\ work' = "attach" /\ proc' = NoProc /\ image' = 0 /\ current' = 0 /\ onModuleDetached
  /\ UNCHANGED <<disk, up, server, dropin, was, ops>>

\* Mounting the image and reading module.toml from it.
readManifest(v, f) == f # "mount" /\ Man(v).ok

\* writeHardwareDropin and writeComponentDropin write nothing for a manifest that
\* declares nothing.
writeHardwareDropin(v, f) == IF f = "hardware" \/ Man(v).hardware = {} THEN dropin.hw ELSE Man(v).hardware
writeComponentDropin(v, f) ==
  IF f = "component" \/ Man(v).components = <<>> THEN dropin.env
  ELSE RenderComponentDropin(Man(v).components)
Dropins(v, f) ==
  IF readManifest(v, f)
    THEN [hw |-> writeHardwareDropin(v, f), env |-> writeComponentDropin(v, f)] ELSE dropin

\* ensureModuleCreds: nothing for a module that has a user; else the subtree, the
\* files, and the reload of the server.
ensureModuleCreds(f) ==
  IF auth # NoRights THEN UNCHANGED server
  ELSE /\ auth' = AddModuleUser(Subtree) /\ half' = (f \in {"creds", "reload users"})
       /\ users' = IF half' THEN users ELSE auth'
       /\ UNCHANGED narrow

\* The reconcile stops at these; at the others it only warns.
Fatal(f) ==
  f \in {"fetch", "attach", "config", "start"} \/ (f \in {"creds", "reload users"} /\ auth = NoRights)

\* onModuleAttached, for a manifest that was read: the recorder sees its classes, and
\* a module with a tab or a window enters the snapshot.
onModuleAttached(v, f) ==
  /\ components' = IF readManifest(v, f) THEN Classes(Man(v)) ELSE {}
  /\ IF readManifest(v, f) /\ Man(v).ui THEN runtime' = v /\ Changes ELSE UNCHANGED <<runtime, proxy>>

\* attach, readManifest, the drop-ins and their reload, the user, the config, and
\* the start.  portablectl reloads the units before the drop-ins are written; a unit
\* that was not stopped, the baked one, is not started again.
Attach(f) ==
  LET v == cached
      loaded == IF f = "reload units" THEN dropin ELSE Dropins(v, f)
  IN
  /\ work = "attach" /\ v # 0 /\ current # v /\ Fault(f) /\ work' = "idle"
  /\ ondisk' = IF f = "fetch" /\ v \notin ondisk THEN ondisk ELSE ondisk \cup {v}
  /\ f = "fetch" => v \notin ondisk
  /\ image' = IF f \in {"fetch", "attach"} THEN image ELSE v
  /\ dropin' = IF f \in {"fetch", "attach"} THEN dropin ELSE Dropins(v, f)
  /\ was' = IF f \in {"fetch", "attach"} THEN was ELSE was \cup {v}
  /\ IF f \in {"fetch", "attach"} THEN UNCHANGED server ELSE ensureModuleCreds(f)
  /\ IF Fatal(f)
       THEN /\ proc' = IF f = "fetch" THEN proc ELSE NoProc
            /\ UNCHANGED <<current, components, runtime, proxy>>
       ELSE /\ \/ proc' = [v |-> v, hw |-> loaded.hw, env |-> loaded.env,
                           whole |-> f = "none" /\ Man(v).ok]
               \/ proc # NoProc /\ image = 0 /\ UNCHANGED proc
            /\ current' = v /\ onModuleAttached(v, f)
  /\ UNCHANGED <<raw, enabled, cached, up, ops>>

\* There is nothing to attach.
Done ==
  /\ work = "attach" /\ (cached = 0 \/ current = cached) /\ work' = "idle"
  /\ UNCHANGED <<disk, up, server, host, current, components, runtime, proxy, ops, faults>>

-----------------------------------------------------------------------------
(* The snapshot and the proxy. *)

\* buildSnapshot: an installed module shadows the baked one.
Shown == IF runtime # 0 THEN Classes(Man(runtime)) ELSE IF enabled THEN Classes(Man(0)) ELSE {}

\* publish, every second and on a change; it is lost when the leaf is down.
Publish(lost) ==
  /\ up = "on" /\ ~wire.sent /\ (lost => faults < MaxFaults) /\ faults' = IF lost THEN faults + 1 ELSE faults
  /\ ~(wire.now \/ seen) \/ lost
  /\ wire' = IF lost THEN NoSnap ELSE [classes |-> Shown, now |-> TRUE, sent |-> TRUE]
  /\ UNCHANGED <<disk, up, server, host, manager, index, seen, ops>>

\* learn: the snapshot replaces what is known of the rover.
Learn ==
  /\ wire.sent /\ index' = wire.classes /\ seen' = wire.now /\ wire' = NoSnap
  /\ UNCHANGED <<disk, up, server, host, manager, ops, faults>>

\* allow: a browser's command to the module is forwarded.
Allow(class) == class \in index

-----------------------------------------------------------------------------
\* The agent dies; systemd stops the modules, which require it.
AgentDies ==
  /\ Ops /\ up # "off" /\ up' = "off" /\ auth' = NoRights /\ users' = NoRights
  /\ half' = FALSE /\ narrow' = FALSE
  /\ work' = "idle" /\ current' = 0 /\ components' = {} /\ runtime' = 0 /\ proc' = NoProc
  /\ Changes
  /\ UNCHANGED <<disk, image, dropin, was, faults>>

\* /run is empty after a boot of the rover.
Reboot ==
  /\ up = "off" /\ was # {} /\ image' = 0 /\ dropin' = NoFiles /\ was' = {}
  /\ UNCHANGED <<disk, up, server, proc, manager, proxy, ops, faults>>

Next ==
  \/ New \/ StartBaked \/ Done \/ Learn \/ AgentDies \/ Reboot
  \/ \E v \in Ver : HandleDesired(v)
  \/ \E f \in {"none", "stop"} : Detach(f)
  \/ \E f \in {"none", "fetch", "attach", "mount", "hardware", "component", "reload units",
               "creds", "reload users", "config", "start"} : Attach(f)
  \/ \E lost \in BOOLEAN : Publish(lost)

Spec == Init /\ [][Next]_vars

-----------------------------------------------------------------------------
Needs(m) == Both(AllOf(Classes(m), componentLeaves), AllOf(m.requires, requiresLeaves))
Literal(S) == substituteRoverID(S)
Covers(rights, needs) ==
  /\ \A s \in Literal(needs.publish) : May(rights.publish, s)
  /\ \A s \in Literal(needs.subscribe) : May(rights.subscribe, s)

\* A module that runs can publish and hear the leaves its manifest declares
\* (ManifestAuthPermissions, ensureModuleCreds), unless its user was added and did
\* not reach the server, or an installed version runs under the user of the baked
\* one, which nothing widens before the agent restarts.
HasItsRights ==
  proc # NoProc /\ Man(proc.v).ok =>
    \/ Covers(users, Needs(Man(proc.v)))
    \/ half \/ (narrow /\ proc.v # 0)

\* Whatever the manifests say, the module's user is let at its own subjects alone
\* (subjectInOwnSandbox, substituteRoverID).
WithinSandbox ==
  \A s \in users.publish \cup users.subscribe : Len(s) > 3 /\ SubSeq(s, 1, 3) = <<Rover, "module", Name>>

\* The devices, paths and capabilities of a process were declared by its version or
\* by one attached since the rover booted, and a version that declares some has
\* those alone, when no step of its attachment failed (writeHardwareDropin).
DevicesDeclared ==
  proc # NoProc =>
    /\ proc.hw \subseteq UNION {Man(v).hardware : v \in was}
    /\ proc.whole => Man(proc.v).hardware \in {{}, proc.hw}

\* A component is served at the rate of its manifest: through the drop-in, the reload
\* and the SDK's reading of it (RenderComponentDropin, stateRateFor).
RateIsDeclared ==
  proc.whole => \A i \in DOMAIN Man(proc.v).components :
    LET c == Man(proc.v).components[i] IN stateRateFor(c.class, proc.env) = c.rate

\* What the recorder takes for the active components is what an attached module
\* declares (ActiveComponents), whatever failed on the way.
ComponentsAreActive ==
  components # {} => current # 0 /\ proc.v \in {current, 0, -1} /\ components = Classes(Man(current))

\* The proxy forwards a command only of a class the module that runs declares, once
\* it has the snapshot: a detached module, or a new version, drops the old ones
\* (learn), and with a tab it gets all of its own.
RelayFollows ==
  seen /\ up = "on" =>
    \A class \in ComponentClass :
      IF current # 0 /\ components # {} /\ Man(current).ui
        THEN Allow(class) <=> class \in components
        ELSE Allow(class) => enabled /\ class \in Classes(Man(0))
===============================================================================
