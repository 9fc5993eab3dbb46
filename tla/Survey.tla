------------------------------- MODULE Survey -------------------------------
(***************************************************************************)
(* The survey mission: the engine of the survey module, its panel backend  *)
(* (uiserve), and the path that gives it authority over the wheels.  Core  *)
(* announces its mode; the agent's drive broker keeps the last mode it saw *)
(* as a gate for the module's commands and mirrors it to the module; the   *)
(* module drives while the mode it last heard is Autonomous and not old.   *)
(*                                                                         *)
(* Geometry and clocks are abstract: whether a tick finds the rover at its *)
(* target is a choice, a detection is new (0.8 s), recent (1.2 s) or old,  *)
(* and time is counted in ticks of the control loop.                       *)
(***************************************************************************)
EXTENDS Integers, Sequences

CONSTANTS
  Tag,          \* marker ids
  Baseline,     \* the waypoints of the configuration: a sequence of expected tags
  Overrides,    \* the sequences an operator may apply
  ReturnHome,
  Dwell,        \* sense dwell, in ticks
  MaxPause,     \* ticks a pause may last
  GateQueue,    \* mode events under way to the broker's gate
  ModuleQueue,  \* mode events under way to the module
  MaxCount,     \* sightings of a marker in one dwell
  MaxSwitches,  \* mode changes
  MaxEdits,     \* requests of the operator
  MaxDeaths     \* deaths of the module or of the agent

TagAny == -1
TagNone == -2

ASSUME SurveyAssumption ==
  /\ Tag \subseteq Nat
  /\ Baseline \in Seq(Tag \cup {TagAny})
  /\ \A p \in Overrides : p \in Seq(Tag \cup {TagAny})
  /\ ReturnHome \in BOOLEAN
  /\ Dwell \in Nat \ {0} /\ GateQueue \in Nat /\ ModuleQueue \in Nat /\ MaxPause \in Nat
  /\ MaxCount \in Nat

\* Every mode but Autonomous means the same to the broker and the engine.
Mode == {"manual", "auto"}
Unknown == "unknown"
Plan == Overrides \cup {Baseline}
NoFile == <<-3>>
Torn == <<-4>>

VARIABLES
  mode,              \* core's mode
  announcing,        \* a mode the loop read before it changed and has yet to announce
  toGate, toModule,  \* mode events on their way
  gate,              \* driveBroker.mode
  cmd, relayed,      \* a drive command on its way to the broker, to core
  emode, fresh,      \* Engine.mode; its age is at most 2.5 s
  st, li, legs,      \* Engine.state, leg index (from 1), legs
  plan,              \* Engine.p: the waypoints
  paused, pausedAge, \* ticks since pausedAt
  senseAge,          \* ticks since senseStart
  counts,            \* Engine.senseCounts
  dets,              \* the last frame that showed a marker
  scanDir,
  reached, detected, \* wpReached, wpDetected
  ui,                \* where waypointsSet or waypointsClear is
  override,          \* Server.override
  file,              \* waypoints_override.json
  switches, edits, deaths,
  served,            \* history: ticks with authority in this dwell
  unsaved            \* history: an override was applied or cleared in memory only

coreVars == <<mode, announcing, toGate, toModule, switches>>
agentVars == <<gate, cmd, relayed>>
authVars == <<emode, fresh>>
missionVars == <<st, li, legs, paused, pausedAge, senseAge, scanDir, reached, detected, served>>
uiVars == <<plan, ui, override, file, edits, unsaved>>
vars == <<coreVars, agentVars, authVars, missionVars, counts, dets, uiVars, deaths>>

TypeOK ==
  /\ mode \in Mode /\ {announcing, gate, emode} \subseteq Mode \cup {Unknown}
  /\ toGate \in Seq(Mode) /\ Len(toGate) <= GateQueue
  /\ toModule \in Seq(Mode) /\ Len(toModule) <= ModuleQueue
  /\ {cmd, relayed, fresh, paused, override, unsaved} \subseteq BOOLEAN
  /\ st \in {"idle", "transit", "scan", "sense", "done"}
  /\ plan \in Plan /\ file \in Plan \cup {NoFile, Torn}
  /\ li \in 1 .. Len(legs) + 1
  /\ pausedAge \in 0 .. MaxPause /\ senseAge \in 0 .. Dwell + MaxPause
  /\ counts \in [Tag -> 0 .. MaxCount]
  /\ dets.ids \subseteq Tag /\ dets.age \in {"new", "recent", "old"}
  /\ scanDir \in {1, -1}
  /\ reached \subseteq DOMAIN plan
  /\ detected \in [DOMAIN detected -> Tag \cup {TagNone}]
  /\ DOMAIN detected \in {{}, DOMAIN plan}
  /\ served \in 0 .. Dwell
  /\ ui \in {"idle", "write", "finish", "remove"}

-----------------------------------------------------------------------------
(* Pure parts of the engine.                                                *)

TagMatches(tag, id) == tag = TagAny \/ tag = id

\* buildLegs: out along the waypoints, back along them in reverse, home.
BuildLegs(p) ==
  LET n == Len(p)
      out == [i \in 1 .. n |-> [tag |-> p[i], wp |-> i, sense |-> TRUE]]
      back == [i \in 1 .. n - 1 |-> [tag |-> p[n - i], wp |-> n - i, sense |-> FALSE]]
      home == <<[tag |-> TagNone, wp |-> 0, sense |-> FALSE]>>
  IN  IF ReturnHome THEN out \o back \o home ELSE out

\* freshDet: the last frame shows a marker this leg accepts and is in the window.
Seen(leg, window) == dets.age \in window /\ \E d \in dets.ids : TagMatches(leg.tag, d)

\* senseBest: seen most often, the lowest id among equals; none seen is {}.
SenseBest == {t \in Tag : /\ counts[t] > 0
                          /\ \A u \in Tag : \/ counts[u] < counts[t]
                                            \/ counts[u] = counts[t] /\ t <= u}

Active == st \in {"transit", "scan", "sense"}
Authorized == emode = "auto" /\ fresh
Leg == legs[li]
NoDets == [ids |-> {}, age |-> "old"]
NoCounts == [t \in Tag |-> 0]

Init ==
  /\ mode = "manual" /\ announcing = Unknown /\ toGate = <<>> /\ toModule = <<>> /\ switches = 0
  /\ gate = Unknown /\ cmd = FALSE /\ relayed = FALSE
  /\ emode = Unknown /\ fresh = FALSE
  /\ st = "idle" /\ li = 1 /\ legs = <<>> /\ paused = FALSE /\ pausedAge = 0
  /\ senseAge = 0 /\ scanDir = 1 /\ reached = {} /\ detected = <<>> /\ served = 0
  /\ counts = NoCounts /\ dets = NoDets
  /\ plan = Baseline /\ ui = "idle" /\ override = FALSE /\ file = NoFile
  /\ edits = 0 /\ unsaved = FALSE /\ deaths = 0

-----------------------------------------------------------------------------
(* Core announces its mode when it changes and about once a second.  Each   *)
(* subscriber has its own queue and may miss an announcement.               *)

Offer(q, m, max) == {q} \cup (IF Len(q) < max THEN {Append(q, m)} ELSE {})

Publish(m) ==
  /\ toGate' \in Offer(toGate, m, GateQueue)
  /\ toModule' \in Offer(toModule, m, ModuleQueue)

SetMode(m) ==
  /\ switches < MaxSwitches /\ m # mode
  /\ mode' = m /\ switches' = switches + 1
  /\ announcing' \in (IF announcing = Unknown THEN {Unknown, mode} ELSE {announcing})
  /\ Publish(m)
  /\ UNCHANGED <<agentVars, authVars, missionVars, counts, dets, uiVars, deaths>>

\* Variant: the mode is announced only when it changes.
AnnounceNever == UNCHANGED vars

\* The loop's announcement: the mode, or the one it had read before the change.
Announce ==
  /\ announcing' = Unknown
  /\ Publish(IF announcing = Unknown THEN mode ELSE announcing)
  /\ UNCHANGED <<mode, switches, agentVars, authVars, missionVars, counts, dets, uiVars, deaths>>

-----------------------------------------------------------------------------
(* The drive broker.                                                        *)

GateSees ==
  /\ toGate # <<>>
  /\ gate' = Head(toGate) /\ toGate' = Tail(toGate)
  /\ UNCHANGED <<mode, announcing, toModule, switches, cmd, relayed, authVars, missionVars, counts,
                 dets, uiVars, deaths>>

RelayCmd ==
  /\ cmd
  /\ cmd' = FALSE /\ relayed' = (relayed \/ gate = "auto")
  /\ UNCHANGED <<coreVars, gate, authVars, missionVars, counts, dets, uiVars, deaths>>

CoreTakes ==
  /\ relayed
  /\ relayed' = FALSE
  /\ UNCHANGED <<coreVars, gate, cmd, authVars, missionVars, counts, dets, uiVars, deaths>>

-----------------------------------------------------------------------------
(* The engine's inputs.                                                     *)

Arm ==
  IF plan = <<>> THEN UNCHANGED missionVars
  ELSE /\ legs' = BuildLegs(plan) /\ li' = 1 /\ st' = "transit"
       /\ reached' = {} /\ detected' = [w \in DOMAIN plan |-> TagNone]
       /\ UNCHANGED <<paused, pausedAge, senseAge, scanDir, served>>

OnMode ==
  /\ toModule # <<>>
  /\ emode' = Head(toModule) /\ fresh' = TRUE /\ toModule' = Tail(toModule)
  /\ IF emode' # emode /\ emode' = "auto" /\ st = "idle" THEN Arm ELSE UNCHANGED missionVars
  /\ UNCHANGED <<mode, announcing, toGate, switches, agentVars, counts, dets, uiVars, deaths>>

\* modeFreshFor passes without an event.
ModeGrowsOld ==
  /\ fresh /\ fresh' = FALSE
  /\ UNCHANGED <<coreVars, agentVars, emode, missionVars, counts, dets, uiVars, deaths>>

\* Variant: a dwell counts every marker, also those its leg does not accept.
OnDetectionsCountsAll(ids) ==
  /\ dets' = [ids |-> ids, age |-> "new"]
  /\ counts' = IF st # "sense" THEN counts
               ELSE [t \in Tag |-> IF t \in ids /\ counts[t] < MaxCount THEN counts[t] + 1 ELSE counts[t]]
  /\ UNCHANGED <<coreVars, agentVars, authVars, missionVars, uiVars, deaths>>

OnDetections(ids) ==
  /\ dets' = [ids |-> ids, age |-> "new"]
  /\ counts' = IF st # "sense" THEN counts
               ELSE [t \in Tag |-> IF t \in ids /\ TagMatches(Leg.tag, t) /\ counts[t] < MaxCount
                                   THEN counts[t] + 1 ELSE counts[t]]
  /\ UNCHANGED <<coreVars, agentVars, authVars, missionVars, uiVars, deaths>>

DetsGrowOld ==
  /\ dets.age # "old"
  /\ dets' = IF dets.age = "new" THEN [dets EXCEPT !.age = "recent"] ELSE NoDets
  /\ UNCHANGED <<coreVars, agentVars, authVars, missionVars, counts, uiVars, deaths>>

-----------------------------------------------------------------------------
(* Tick, by the state it finds.                                             *)

\* What every tick leaves alone.
TickFrame == UNCHANGED <<coreVars, gate, relayed, authVars, legs, dets, uiVars, deaths>>

\* What a dwell or a scan leaves behind is not read again; it is cleared here.
Advance ==
  /\ li' = li + 1 /\ st' = (IF li = Len(legs) THEN "done" ELSE "transit")
  /\ senseAge' = 0 /\ counts' = NoCounts

\* A tick with authority resumes the mission and publishes a command, which may be lost.
Authority ==
  /\ Authorized /\ st # "idle"
  /\ paused' = FALSE /\ pausedAge' = 0
  /\ cmd' \in {cmd, TRUE}

EnterSense == st' = "sense" /\ senseAge' = 0 /\ served' = 0 /\ counts' = NoCounts /\ scanDir' = 1

TickUnauthorized ==
  /\ ~Authorized
  /\ st = "sense" /\ paused => pausedAge < MaxPause
  /\ st' = IF st = "done" THEN "idle" ELSE st
  /\ paused' = (paused \/ Active)
  /\ pausedAge' = IF st = "sense" /\ paused THEN pausedAge + 1 ELSE pausedAge
  /\ senseAge' = IF st = "sense" THEN senseAge + 1 ELSE senseAge
  /\ UNCHANGED <<cmd, li, scanDir, reached, detected, served, counts>>
  /\ TickFrame

\* tickTransit on the way, and DONE holding position.
TickHold ==
  /\ Authority /\ st \in {"transit", "done"}
  /\ UNCHANGED <<st, li, senseAge, scanDir, reached, detected, served, counts>>
  /\ TickFrame

\* tickTransit at the target, and arrive.
TickArrive ==
  /\ Authority /\ st = "transit"
  /\ reached' = IF Leg.wp > 0 THEN reached \cup {Leg.wp} ELSE reached
  /\ \/ /\ Leg.sense /\ Seen(Leg, {"new", "recent"})
        /\ EnterSense /\ UNCHANGED li
     \/ /\ Leg.sense /\ ~Seen(Leg, {"new", "recent"})
        /\ st' = "scan" /\ scanDir' = 1
        /\ UNCHANGED <<li, senseAge, served, counts>>
     \/ /\ ~Leg.sense
        /\ Advance /\ UNCHANGED <<scanDir, served>>
  /\ UNCHANGED detected
  /\ TickFrame

\* Variant: the scan goes on until a marker is seen.
TickScanNeverGivesUp ==
  /\ Authority /\ st = "scan"
  /\ Seen(Leg, {"new"})
  /\ EnterSense /\ UNCHANGED <<li, reached, detected>>
  /\ TickFrame

\* A marker in view, or both sweeps done, ends the scan.
TickScanEnds ==
  /\ Authority /\ st = "scan"
  /\ Seen(Leg, {"new"}) \/ scanDir = -1
  /\ EnterSense /\ UNCHANGED <<li, reached, detected>>
  /\ TickFrame

\* Sweeping on; the end of the first sweep turns it round.
TickScan ==
  /\ Authority /\ st = "scan" /\ ~Seen(Leg, {"new"})
  /\ scanDir' \in {scanDir, -1}
  /\ UNCHANGED <<st, li, senseAge, reached, detected, served, counts>>
  /\ TickFrame

\* Variant: paused time counts.
DwellAgeUnshifted == senseAge + 1

\* Ticks since senseStart, which a resume has moved by the length of the pause.
DwellAge == senseAge + 1 - (IF paused THEN pausedAge + 1 ELSE 0)

TickSense ==
  /\ Authority /\ st = "sense"
  /\ served' = served + 1
  /\ IF DwellAge < Dwell THEN senseAge' = DwellAge /\ UNCHANGED <<st, li, detected, counts>>
     ELSE /\ detected' = IF SenseBest = {} THEN detected
                         ELSE [detected EXCEPT ![Leg.wp] = CHOOSE t \in SenseBest : TRUE]
          /\ Advance
  /\ UNCHANGED <<scanDir, reached>>
  /\ TickFrame

-----------------------------------------------------------------------------
(* The panel's requests, served one at a time.                              *)

Reload(p) ==
  /\ st \in {"idle", "done"}
  /\ plan' = p /\ st' = "idle" /\ legs' = <<>> /\ li' = 1 /\ reached' = {} /\ detected' = <<>>
  /\ UNCHANGED <<paused, pausedAge, senseAge, scanDir, served>>

UiFrame == UNCHANGED <<coreVars, agentVars, authVars, counts, dets, deaths>>

WaypointsSet(p) ==
  /\ ui = "idle" /\ edits < MaxEdits
  /\ Reload(p)
  /\ ui' = "write" /\ edits' = edits + 1
  /\ UNCHANGED <<override, file, unsaved>>
  /\ UiFrame

\* os.WriteFile truncates, then writes; either may fail.
WriteOverride ==
  /\ \/ ui = "write" /\ file' = Torn /\ ui' = "finish" /\ UNCHANGED <<override, unsaved>>
     \/ ui = "finish" /\ file' = plan /\ ui' = "idle" /\ override' = TRUE /\ unsaved' = FALSE
     \/ ui \in {"write", "finish"} /\ ui' = "idle" /\ unsaved' = TRUE /\ UNCHANGED <<file, override>>
  /\ UNCHANGED <<missionVars, plan, edits>>
  /\ UiFrame

WaypointsClear ==
  /\ ui = "idle" /\ edits < MaxEdits
  /\ Reload(Baseline)
  /\ ui' = "remove" /\ edits' = edits + 1
  /\ UNCHANGED <<override, file, unsaved>>
  /\ UiFrame

\* Variant: a failed removal is taken for a file that was not there.
RemoveIgnoresError ==
  /\ ui = "remove" /\ ui' = "idle"
  /\ file' \in {file, NoFile} /\ override' = FALSE /\ unsaved' = FALSE
  /\ UNCHANGED <<missionVars, plan, edits>>
  /\ UiFrame

RemoveOverride ==
  /\ ui = "remove" /\ ui' = "idle"
  /\ \/ file' = NoFile /\ override' = FALSE /\ unsaved' = FALSE
     \/ file # NoFile /\ unsaved' = TRUE /\ UNCHANGED <<file, override>>
  /\ UNCHANGED <<missionVars, plan, edits>>
  /\ UiFrame

-----------------------------------------------------------------------------
(* Deaths.                                                                  *)

\* What LoadOverride makes of the file.
Loaded == file \notin {NoFile, Torn}

\* The module dies and its unit starts it again: setup, LoadOverride.
ModuleDies ==
  /\ deaths < MaxDeaths /\ deaths' = deaths + 1
  /\ emode' = Unknown /\ fresh' = FALSE /\ toModule' = <<>>
  /\ st' = "idle" /\ li' = 1 /\ legs' = <<>> /\ paused' = FALSE /\ pausedAge' = 0
  /\ senseAge' = 0 /\ scanDir' = 1 /\ reached' = {} /\ detected' = <<>> /\ served' = 0
  /\ counts' = NoCounts /\ dets' = NoDets
  /\ plan' = (IF Loaded THEN file ELSE Baseline) /\ override' = Loaded
  /\ ui' = "idle" /\ unsaved' = FALSE
  /\ UNCHANGED <<mode, announcing, toGate, switches, agentVars, file, edits>>

\* The agent dies with its NATS server: the gate is unspecified, messages are gone.
AgentDies ==
  /\ deaths < MaxDeaths /\ deaths' = deaths + 1
  /\ gate' = Unknown /\ cmd' = FALSE /\ relayed' = FALSE
  /\ toGate' = <<>> /\ toModule' = <<>>
  /\ UNCHANGED <<mode, announcing, switches, authVars, missionVars, counts, dets, uiVars>>

Next ==
  \/ \E m \in Mode : SetMode(m)
  \/ Announce \/ GateSees \/ RelayCmd \/ CoreTakes
  \/ OnMode \/ ModeGrowsOld \/ DetsGrowOld
  \/ \E ids \in SUBSET Tag \ {{}} : OnDetections(ids)
  \/ TickUnauthorized \/ TickHold \/ TickArrive \/ TickScanEnds \/ TickScan \/ TickSense
  \/ \E p \in Overrides : WaypointsSet(p)
  \/ WriteOverride \/ WaypointsClear \/ RemoveOverride
  \/ ModuleDies \/ AgentDies

Spec == Init /\ [][Next]_vars

\* The control loop, the subscriptions and the relay run; time passes; an announcement
\* is heard now and then; a rover that keeps driving arrives, and one that keeps turning
\* completes its sweeps.  Nothing is assumed of the operator, the camera or of deaths.
HeardByModule == Announce /\ toModule' # toModule
HeardByGate == Announce /\ toGate' # toGate
TickProgress == TickArrive \/ TickSense \/ TickScanEnds \/ (TickScan /\ scanDir' # scanDir)

Fairness ==
  /\ WF_vars(GateSees) /\ WF_vars(RelayCmd) /\ WF_vars(CoreTakes)
  /\ WF_vars(OnMode) /\ WF_vars(ModeGrowsOld)
  /\ SF_vars(HeardByModule) /\ SF_vars(HeardByGate)
  /\ SF_vars(TickProgress)

FairSpec == Spec /\ Fairness

-----------------------------------------------------------------------------
(* Properties.                                                              *)

\* The legs of a mission under way are those of the waypoints the panel shows, the leg
\* index is one of them (tickTransit, tickScan and tickSense index e.legs unchecked), and
\* exactly the waypoints of the legs already arrived at count as reached.
LegsMatchPlan ==
  Active => /\ legs = BuildLegs(plan)
            /\ li \in DOMAIN legs
            /\ reached = {legs[i].wp : i \in 1 .. (IF st = "transit" THEN li - 1 ELSE li)} \ {0}

\* A mission that ends has been at every waypoint, and what it reports as detected at a
\* waypoint is a marker that waypoint accepts.
DoneMeansVisited ==
  /\ st = "done" => reached = DOMAIN plan
  /\ \A w \in DOMAIN detected : detected[w] # TagNone => w \in reached /\ TagMatches(plan[w], detected[w])

\* The mission follows its waypoints: both of these.
PlanIsFollowed == TypeOK /\ LegsMatchPlan /\ DoneMeansVisited

\* A dwell that ends by itself has lasted its full length in ticks with authority, and no
\* longer, however often the mode was taken away and given back meanwhile.
DwellIsServed == [][st = "sense" /\ st' \in {"transit", "done"} => served' = Dwell]_vars

\* Between two requests, and unless the last one failed to save, a restart of the module
\* would run the waypoints that are in force, and the panel names their source rightly.
RestartKeepsPlan ==
  ui = "idle" /\ ~unsaved =>
    /\ plan = IF Loaded THEN file ELSE Baseline
    /\ override = Loaded

\* When the rover stays out of Autonomous the module's commands cease and the broker's
\* gate closes, whichever announcements of the change were lost and whoever restarted.
AuthorityEnds == <>[](mode # "auto") => <>[](~cmd /\ ~relayed /\ gate # "auto")

\* A mission under way while the rover stays in Autonomous comes to its end, through
\* pauses by a stale mirror, missing markers and restarts of the module.
MissionEnds == [](Active /\ [](mode = "auto") => <>(st = "done"))

=============================================================================
