------------------------------ MODULE Manifest ------------------------------
(***************************************************************************)
(* What a module's manifest, module.toml, asks for and what the agent      *)
(* makes of it: ParseManifest (agent/internal/modules/manifest.go), the    *)
(* rights of its NATS user (acl.go, localauth/users.go), its systemd       *)
(* drop-ins (dropin.go), and the rate the SDK reads back from them         *)
(* (sdk/wpmodule/component.go).                                            *)
(*                                                                         *)
(* A subject is the sequence of its tokens after "waypoint"; the rover's   *)
(* id is the token Rover.  The module is called Name.                      *)
(***************************************************************************)
EXTENDS Integers, Sequences, SequencesExt

Name == "m"
Rover == "r"

Own(leaf) == <<"*", "module", Name>> \o leaf

-----------------------------------------------------------------------------
(* The file, as the TOML decoder delivers it. *)

\* tab: the [ui] table; "proxy" is one on a port that is in range and on the LAN.
Tab == {"none", "static", "proxy", "both", "proxy wan", "proxy port", "no prefix"}

\* A file without anything but a name and an entrypoint.
Blank ==
  [named |-> TRUE, entrypoint |-> TRUE, publish |-> {}, subscribe |-> {}, provides |-> {},
   requires |-> {}, component |-> <<>>, components |-> <<>>, fields |-> <<>>, tab |-> "none",
   teleop |-> FALSE, devices |-> {}, paths |-> {}, capabilities |-> {}]

Comp(class, rate) == [class |-> class, rate |-> rate]

knownCapabilities == {"uplink"}
knownRequires == {"servo-control", "teleop-input", "drive-control"}
ComponentClass == {"arm", "sensor", "base", "drill"}
ConfigFieldKey == {"host", "port"}
allowedDevices == {"i2c", "ttyUSB"}
allowedPaths == {"hwmon", "state"}
allowedCapabilities == {"NET_ADMIN", "SYS_NICE"}

-----------------------------------------------------------------------------
(* ParseManifest. *)

subjectInOwnSandbox(s) == Len(s) > 3 /\ SubSeq(s, 1, 3) = Own(<<>>)

NoneTwice(s, key(_)) == \A i, j \in DOMAIN s : key(s[i]) = key(s[j]) => i = j

\* buildComponents: the single form or the list; a rate of 0 is the default.
Entries(raw) == raw.component \o raw.components
ComponentsOk(raw) ==
  /\ raw.component = <<>> \/ raw.components = <<>>
  /\ \A i \in DOMAIN Entries(raw) :
       Entries(raw)[i].class \in ComponentClass /\ Entries(raw)[i].rate \in 0 .. 100
  /\ NoneTwice(Entries(raw), LAMBDA c : c.class)
buildComponents(raw) ==
  [i \in DOMAIN Entries(raw) |->
     [Entries(raw)[i] EXCEPT !.rate = IF @ = 0 THEN 10 ELSE @]]

buildConfigFields(raw) ==
  ToSet(raw.fields) \subseteq ConfigFieldKey /\ NoneTwice(raw.fields, LAMBDA k : k)

buildUI(raw) == raw.tab \in {"none", "static", "proxy"}

buildHardware(raw) ==
  /\ raw.devices \subseteq allowedDevices /\ raw.paths \subseteq allowedPaths
  /\ raw.capabilities \subseteq allowedCapabilities

\* The manifest, or ok is FALSE.
ParseManifest(raw) ==
  [ok |-> /\ raw.named /\ raw.entrypoint
          /\ \A s \in raw.publish \cup raw.subscribe : subjectInOwnSandbox(s)
          /\ raw.provides \subseteq knownCapabilities /\ raw.requires \subseteq knownRequires
          /\ ComponentsOk(raw) /\ buildConfigFields(raw) /\ buildUI(raw) /\ buildHardware(raw),
   publish |-> raw.publish, subscribe |-> raw.subscribe, requires |-> raw.requires,
   components |-> buildComponents(raw), ui |-> raw.tab # "none" \/ raw.teleop,
   hardware |-> raw.devices \cup raw.paths \cup raw.capabilities]

Classes(m) == {m.components[i].class : i \in DOMAIN m.components}

-----------------------------------------------------------------------------
(* The rights of the module's user. *)

Rights(publish, subscribe) == [publish |-> publish, subscribe |-> subscribe]
Both(a, b) == Rights(a.publish \cup b.publish, a.subscribe \cup b.subscribe)
NoRights == Rights({}, {})

componentLeaves(class) ==
  Rights({Own(<<class, "state">>)}, IF class = "sensor" THEN {} ELSE {Own(<<class, "cmd">>)})

requiresLeaves(require) ==
  IF require = "drive-control"
    THEN Rights({Own(<<"drive", "cmd">>)}, {Own(<<"drive", "telemetry">>), Own(<<"mode">>)})
    ELSE NoRights

AllOf(S, leaves(_)) ==
  Rights(UNION {leaves(x).publish : x \in S}, UNION {leaves(x).subscribe : x \in S})

ManifestAuthPermissions(m) ==
  Both(Rights(m.publish, m.subscribe),
       Both(AllOf(Classes(m), componentLeaves), AllOf(m.requires, requiresLeaves)))

\* What an installed module gets, whatever its manifest says.
Subtree == Rights({Own(<<">">>)}, {Own(<<">">>)})

\* AddModuleUser: every "*" of a subject becomes the rover's id.
substituteRoverID(S) == {[i \in DOMAIN s |-> IF s[i] = "*" THEN Rover ELSE s[i]] : s \in S}
AddModuleUser(r) == Rights(substituteRoverID(r.publish), substituteRoverID(r.subscribe))

\* How the NATS server reads a pattern (external).
Matches(p, s) ==
  LET n == Len(p) IN
  IF p[n] = ">" THEN Len(s) >= n /\ SubSeq(s, 1, n - 1) = SubSeq(p, 1, n - 1) ELSE s = p
May(allow, s) == \E p \in allow : Matches(p, s)

-----------------------------------------------------------------------------
(* The drop-ins: the devices, and the environment the SDK reads. *)

\* RenderComponentDropin: a variable for each class, and one with the first rate for
\* SDKs that know one class only.
NoEnv == [first |-> 0, rate |-> <<>>]
RenderComponentDropin(cs) ==
  IF cs = <<>> THEN NoEnv
  ELSE [first |-> cs[1].rate,
        rate |-> [class \in {cs[i].class : i \in DOMAIN cs} |->
                    (CHOOSE c \in ToSet(cs) : c.class = class).rate]]

\* stateRateFor: the variable of the class, else the first rate, else 10.
stateRateFor(class, env) ==
  IF class \in DOMAIN env.rate THEN env.rate[class]
  ELSE IF env.first # 0 THEN env.first ELSE 10
=============================================================================
