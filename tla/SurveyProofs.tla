---------------------------- MODULE SurveyProofs ----------------------------
(***************************************************************************)
(* The survey engine follows its plan, serves its dwells in full and runs  *)
(* the plan in force again after a restart, for every set of tags, every   *)
(* baseline and every set of overrides, every dwell and every bound.       *)
(*                                                                         *)
(* The proofs look at the mission through what a step does to it           *)
(* (MissionSteps), and at the rest through what it does to the panel       *)
(* (PanelSteps) and to the messages.                                       *)
(***************************************************************************)
EXTENDS Survey, TLAPS

-----------------------------------------------------------------------------
(* What a step does to the mission.                                         *)

mission == <<st, li, legs, paused, pausedAge, senseAge, scanDir, reached, detected, served, counts, plan>>

ArmDoes ==
  /\ st = "idle" /\ plan # <<>>
  /\ legs' = BuildLegs(plan) /\ li' = 1 /\ st' = "transit"
  /\ reached' = {} /\ detected' = [w \in DOMAIN plan |-> TagNone]
  /\ UNCHANGED <<paused, pausedAge, senseAge, scanDir, served, counts, plan>>

CountDoes ==
  /\ \A t \in Tag : counts'[t] # counts[t] => st = "sense" /\ TagMatches(Leg.tag, t)
  /\ counts' \in [Tag -> 0 .. MaxCount]
  /\ UNCHANGED <<st, li, legs, paused, pausedAge, senseAge, scanDir, reached, detected, served, plan>>

PauseDoes ==
  /\ st = "sense" /\ paused => pausedAge < MaxPause
  /\ st' = IF st = "done" THEN "idle" ELSE st
  /\ paused' = (paused \/ Active)
  /\ pausedAge' = IF st = "sense" /\ paused THEN pausedAge + 1 ELSE pausedAge
  /\ senseAge' = IF st = "sense" THEN senseAge + 1 ELSE senseAge
  /\ UNCHANGED <<li, legs, scanDir, reached, detected, served, counts, plan>>

Resumes == paused' = FALSE /\ pausedAge' = 0 /\ UNCHANGED <<legs, plan>>

HoldDoes ==
  /\ Resumes /\ st \in {"transit", "done", "scan"} /\ scanDir' \in {scanDir, -1}
  /\ UNCHANGED <<st, li, senseAge, reached, detected, served, counts>>

\* Arriving with a marker in view, or the end of a scan.
SenseBegins ==
  /\ Resumes /\ st \in {"transit", "scan"} /\ (st = "transit" => Leg.sense)
  /\ reached' = IF st = "transit" /\ Leg.wp > 0 THEN reached \cup {Leg.wp} ELSE reached
  /\ EnterSense
  /\ UNCHANGED <<li, detected>>

ScanBegins ==
  /\ Resumes /\ st = "transit" /\ Leg.sense
  /\ reached' = IF Leg.wp > 0 THEN reached \cup {Leg.wp} ELSE reached
  /\ st' = "scan" /\ scanDir' = 1
  /\ UNCHANGED <<li, senseAge, detected, served, counts>>

PassesBy ==
  /\ Resumes /\ st = "transit" /\ ~Leg.sense
  /\ reached' = IF Leg.wp > 0 THEN reached \cup {Leg.wp} ELSE reached
  /\ Advance
  /\ UNCHANGED <<scanDir, detected, served>>

SenseGoesOn ==
  /\ Resumes /\ st = "sense" /\ DwellAge < Dwell
  /\ served' = served + 1 /\ senseAge' = DwellAge
  /\ UNCHANGED <<st, li, scanDir, reached, detected, counts>>

SenseEnds ==
  /\ Resumes /\ st = "sense" /\ ~(DwellAge < Dwell)
  /\ served' = served + 1
  /\ detected' = IF SenseBest = {} THEN detected
                 ELSE [detected EXCEPT ![Leg.wp] = CHOOSE t \in SenseBest : TRUE]
  /\ Advance
  /\ UNCHANGED <<scanDir, reached>>

ReloadDoes ==
  /\ st \in {"idle", "done"} /\ plan' \in Plan
  /\ st' = "idle" /\ legs' = <<>> /\ li' = 1 /\ reached' = {} /\ detected' = <<>>
  /\ UNCHANGED <<paused, pausedAge, senseAge, scanDir, served, counts>>

DiesDoes ==
  /\ plan' \in Plan
  /\ st' = "idle" /\ li' = 1 /\ legs' = <<>> /\ paused' = FALSE /\ pausedAge' = 0
  /\ senseAge' = 0 /\ scanDir' = 1 /\ reached' = {} /\ detected' = <<>> /\ served' = 0
  /\ counts' = NoCounts

MissionSteps ==
  \/ UNCHANGED mission
  \/ ArmDoes \/ CountDoes \/ PauseDoes \/ HoldDoes \/ SenseBegins \/ ScanBegins \/ PassesBy
  \/ SenseGoesOn \/ SenseEnds \/ ReloadDoes \/ DiesDoes

-----------------------------------------------------------------------------
(* The inductive invariant.                                                 *)

\* The messages, the gate and the detections.
MessagesOK ==
  /\ mode \in Mode /\ announcing \in Mode \cup {Unknown} /\ gate \in Mode \cup {Unknown}
  /\ emode \in Mode \cup {Unknown}
  /\ toGate \in Seq(Mode) /\ Len(toGate) <= GateQueue
  /\ toModule \in Seq(Mode) /\ Len(toModule) <= ModuleQueue
  /\ cmd \in BOOLEAN /\ relayed \in BOOLEAN /\ fresh \in BOOLEAN
  /\ dets.ids \subseteq Tag /\ dets.age \in {"new", "recent", "old"}

\* The panel: Baseline is in force while the override is being removed.
PanelInv ==
  /\ plan \in Plan /\ file \in Plan \cup {NoFile, Torn}
  /\ override \in BOOLEAN /\ unsaved \in BOOLEAN
  /\ ui \in {"idle", "write", "finish", "remove"}
  /\ ui = "remove" => plan = Baseline
  /\ RestartKeepsPlan

\* The dwell: its age is the ticks served and the ticks of the pause under way.
DwellAges ==
  /\ st \in {"idle", "transit", "scan", "sense", "done"} /\ scanDir \in {1, -1}
  /\ pausedAge \in 0 .. MaxPause /\ senseAge \in Nat /\ served \in 0 .. Dwell
  /\ ~paused => pausedAge = 0
  /\ ~Active => ~paused
  /\ st # "sense" => pausedAge = 0 /\ senseAge = 0
  /\ st = "sense" => served < Dwell /\ senseAge = served + (IF paused THEN pausedAge + 1 ELSE 0)

DwellInv == paused \in BOOLEAN /\ DwellAges

\* The mission is on a leg of the plan; it scans and senses on the way out; what
\* it counts are markers of the leg.
LegsInv ==
  /\ li \in Nat \ {0}
  /\ Active => /\ plan # <<>> /\ legs = BuildLegs(plan) /\ li \in 1 .. Len(legs)
               /\ DOMAIN detected = DOMAIN plan
  /\ ~Active => li \in 1 .. Len(legs) + 1
  /\ st \in {"scan", "sense"} => Leg.sense
  /\ counts \in [Tag -> 0 .. MaxCount]
  /\ st = "sense" => \A t \in Tag : counts[t] > 0 => TagMatches(Leg.tag, t)

\* The waypoints behind the rover count as reached, and what was detected fits.
VisitedInv ==
  /\ Active => reached = {legs[i].wp : i \in 1 .. (IF st = "transit" THEN li - 1 ELSE li)} \ {0}
  /\ st = "done" => reached = DOMAIN plan
  /\ reached \subseteq DOMAIN plan
  /\ DOMAIN detected \in {{}, DOMAIN plan}
  /\ detected \in [DOMAIN detected -> Tag \cup {TagNone}]
  /\ \A w \in DOMAIN detected : detected[w] # TagNone => w \in reached /\ TagMatches(plan[w], detected[w])

SurveyInv == MessagesOK /\ PanelInv /\ DwellInv /\ LegsInv /\ VisitedInv

-----------------------------------------------------------------------------
(* The legs of a plan.                                                      *)

\* Plans are sequences of expected tags, and no file marker is one.
LEMMA PlansAre ==
  ASSUME NEW p \in Plan
  PROVE  p \in Seq(Tag \cup {TagAny}) /\ p \notin {NoFile, Torn}
<1>1. p \in Seq(Tag \cup {TagAny})
  BY SurveyAssumption DEF Plan
<1>2. p # NoFile /\ p # Torn
  <2>1. \A n \in {-3, -4} : n \notin Tag \cup {TagAny}
    BY SurveyAssumption DEF TagAny
  <2>2. ASSUME NEW n \in {-3, -4}, p = <<n>>
        PROVE  FALSE
    BY <1>1, <2>1, <2>2
  <2> QED
    BY <2>2 DEF NoFile, Torn
<1> QED
  BY <1>1, <1>2

\* A function on 1 .. n is a sequence.
LEMMA SeqOf ==
  ASSUME NEW S, NEW n \in Nat, NEW f \in [1 .. n -> S]
  PROVE  f \in Seq(S) /\ Len(f) = n
  OBVIOUS

\* What a concatenation holds.
LEMMA Concat ==
  ASSUME NEW S, NEW a \in Seq(S), NEW b \in Seq(S)
  PROVE  /\ a \o b \in Seq(S) /\ Len(a \o b) = Len(a) + Len(b)
         /\ \A i \in 1 .. Len(a) : (a \o b)[i] = a[i]
         /\ \A i \in Len(a) + 1 .. Len(a) + Len(b) : (a \o b)[i] = b[i - Len(a)]
  BY SMTT(30)

\* buildLegs: leg i on the way out is waypoint i, sensed; on the way back 2n - i,
\* passed by; the last one is home.
LEMMA LegsAre ==
  ASSUME NEW p \in Plan, p # <<>>
  PROVE  LET n == Len(p)
             L == BuildLegs(p)
         IN  /\ n \in Nat \ {0} /\ DOMAIN p = 1 .. n
             /\ Len(L) \in {n, n + n} /\ DOMAIN L = 1 .. Len(L)
             /\ \A i \in 1 .. n : L[i] = [tag |-> p[i], wp |-> i, sense |-> TRUE]
             /\ \A i \in 1 .. Len(L) : i > n => ~L[i].sense /\ L[i].wp \in 0 .. n
<1> DEFINE n == Len(p)
           L == BuildLegs(p)
           out == [i \in 1 .. n |-> [tag |-> p[i], wp |-> i, sense |-> TRUE]]
           back == [i \in 1 .. n - 1 |-> [tag |-> p[n - i], wp |-> n - i, sense |-> FALSE]]
           home == <<[tag |-> TagNone, wp |-> 0, sense |-> FALSE]>>
           T == Tag \cup {TagAny, TagNone}
           R == [tag : T, wp : 0 .. n, sense : BOOLEAN]
<1>1. p \in Seq(Tag \cup {TagAny}) /\ n \in Nat \ {0} /\ DOMAIN p = 1 .. n
  BY PlansAre
<1>2. \A i \in 1 .. n : p[i] \in Tag \cup {TagAny}
  BY <1>1
<1>3. out \in Seq(R) /\ Len(out) = n
  <2>1. \A i \in 1 .. n : [tag |-> p[i], wp |-> i, sense |-> TRUE] \in R
    BY <1>1, <1>2
  <2>2. out \in [1 .. n -> R]
    BY <2>1
  <2> QED
    BY <1>1, <2>2, SeqOf
<1>4. back \in Seq(R) /\ Len(back) = n - 1
  <2>1. \A i \in 1 .. n - 1 : n - i \in 1 .. n
    BY <1>1
  <2>2. \A i \in 1 .. n - 1 : [tag |-> p[n - i], wp |-> n - i, sense |-> FALSE] \in R
    BY <1>1, <1>2, <2>1
  <2>3. back \in [1 .. n - 1 -> R] /\ n - 1 \in Nat
    BY <1>1, <2>2
  <2> HIDE DEF back, R, n
  <2> QED
    BY <2>3, SeqOf
<1>5. home \in Seq(R) /\ Len(home) = 1 /\ home[1] = [tag |-> TagNone, wp |-> 0, sense |-> FALSE]
  <2>1. [tag |-> TagNone, wp |-> 0, sense |-> FALSE] \in R
    BY <1>1
  <2> QED
    BY <2>1
<1>6. L = IF ReturnHome THEN out \o back \o home ELSE out
  BY DEF BuildLegs
<1>7. /\ out \o back \in Seq(R) /\ Len(out \o back) = n + n - 1
      /\ \A i \in 1 .. n : (out \o back)[i] = out[i]
      /\ \A i \in n + 1 .. n + n - 1 : (out \o back)[i] = back[i - n]
  <2> HIDE DEF out, back, R, n
  <2> QED
    <3>1. /\ out \o back \in Seq(R) /\ Len(out \o back) = Len(out) + Len(back)
          /\ \A i \in 1 .. Len(out) : (out \o back)[i] = out[i]
          /\ \A i \in Len(out) + 1 .. Len(out) + Len(back) : (out \o back)[i] = back[i - Len(out)]
      BY <1>3, <1>4, Concat, Zenon
    <3>2. Len(out) + Len(back) = n + n - 1 /\ Len(out) = n
      BY <1>1, <1>3, <1>4
    <3> QED
      BY <3>1, <3>2
<1>8. /\ Len(out \o back \o home) = n + n
      /\ \A i \in 1 .. n + n - 1 : (out \o back \o home)[i] = (out \o back)[i]
      /\ (out \o back \o home)[n + n] = home[1]
  <2> DEFINE ob == out \o back
  <2>1. ob \in Seq(R) /\ Len(ob) = n + n - 1 /\ n \in Nat
    BY <1>1, <1>7
  <2> HIDE DEF ob, home, R, n
  <2>2. /\ Len(ob \o home) = n + n
        /\ \A i \in 1 .. n + n - 1 : (ob \o home)[i] = ob[i]
        /\ (ob \o home)[n + n] = home[1]
    <3>1. n + n \in Len(ob) + 1 .. Len(ob) + Len(home) /\ n + n - Len(ob) = 1
      BY <1>5, <2>1
    <3>2. /\ Len(ob \o home) = Len(ob) + Len(home)
          /\ \A i \in 1 .. Len(ob) : (ob \o home)[i] = ob[i]
          /\ \A i \in Len(ob) + 1 .. Len(ob) + Len(home) : (ob \o home)[i] = home[i - Len(ob)]
      BY <1>5, <2>1, Concat, Zenon
    <3>3. Len(ob) + Len(home) = n + n /\ Len(ob) = n + n - 1
      BY <1>5, <2>1
    <3>4. \A m \in Len(ob) + 1 .. Len(ob) + Len(home) : m - Len(ob) = 1
      BY <1>5, <2>1
    <3>6. \A m \in Len(ob) + 1 .. Len(ob) + Len(home) : (ob \o home)[m] = home[1]
      BY <3>2, <3>4
    <3>7. (ob \o home)[n + n] = home[1]
      BY <3>1, <3>6
    <3>5. \A i \in 1 .. n + n - 1 : (ob \o home)[i] = ob[i]
      BY <3>2, <3>3, Zenon
    <3> QED
      BY <3>2, <3>3, <3>5, <3>7, Zenon
  <2> QED
    BY Zenon, <2>2 DEF ob
<1>9. Len(L) \in {n, n + n} /\ DOMAIN L = 1 .. Len(L)
  <2>1. out \o back \o home \in Seq(R)
    <3> HIDE DEF out, back, home, R, n
    <3> QED
      BY <1>5, <1>7, Concat
  <2> HIDE DEF out, back, home, R, n, L
  <2> QED
    BY <1>1, <1>3, <1>6, <1>8, <2>1
<1>10. \A i \in 1 .. n : L[i] = out[i]
  <2>1. \A i \in 1 .. n : i \in 1 .. n + n - 1
    BY <1>1
  <2> HIDE DEF out, back, home, R, n, L
  <2> QED
    BY <1>6, <1>7, <1>8, <2>1
<1>11. \A i \in 1 .. n : L[i] = [tag |-> p[i], wp |-> i, sense |-> TRUE]
  BY <1>10
<1>12. ASSUME NEW i \in 1 .. Len(L), i > n
       PROVE  ~L[i].sense /\ L[i].wp \in 0 .. n
  <2>1. Len(L) = n + n /\ L = out \o back \o home
    <3> HIDE DEF out, back, home, R, n, L
    <3> QED
      BY <1>1, <1>3, <1>6, <1>8, <1>9, <1>12
  <2>2. i \in n + 1 .. n + n - 1 \/ i = n + n
    <3> HIDE DEF L, n
    <3> QED
      BY <1>1, <1>12, <2>1
  <2>3. CASE i \in n + 1 .. n + n - 1
    <3>1. i - n \in 1 .. n - 1 /\ n - (i - n) \in 0 .. n
      <4> HIDE DEF n
      <4> QED
        BY <1>1, <2>3
    <3>2. i \in 1 .. n + n - 1
      <4> HIDE DEF n
      <4> QED
        BY <1>1, <2>3
    <3>3. L[i] = back[i - n]
      <4> HIDE DEF out, back, home, R, n, L
      <4> QED
        BY <1>7, <1>8, <2>1, <2>3, <3>2
    <3> QED
      BY <3>1, <3>3
  <2>4. CASE i = n + n
    BY SMTT(30), <1>1, <1>5, <1>8, <2>1, <2>4
  <2> QED
    BY <2>2, <2>3, <2>4
<1> QED
  BY Zenon, <1>1, <1>9, <1>11, <1>12

-----------------------------------------------------------------------------
(* A step of the program is one of the mission's steps.                     *)

\* Ticks with authority.
LEMMA TicksDo ==
  ASSUME TickHold \/ TickArrive \/ TickScanEnds \/ TickScan \/ TickSense
  PROVE  HoldDoes \/ SenseBegins \/ ScanBegins \/ PassesBy \/ SenseGoesOn \/ SenseEnds
<1> USE DEF TickFrame, Authority, Resumes, uiVars
<1>1. CASE TickHold
  BY <1>1 DEF TickHold, HoldDoes
<1>2. CASE TickArrive
  <2>1. CASE Leg.sense /\ Seen(Leg, {"new", "recent"})
    BY <1>2, <2>1 DEF TickArrive, SenseBegins, EnterSense
  <2>2. CASE Leg.sense /\ ~Seen(Leg, {"new", "recent"})
    BY <1>2, <2>2 DEF TickArrive, ScanBegins
  <2>3. CASE ~Leg.sense
    BY <1>2, <2>3 DEF TickArrive, PassesBy, Advance
  <2> QED
    BY <2>1, <2>2, <2>3
<1>3. CASE TickScanEnds
  BY <1>3 DEF TickScanEnds, SenseBegins, EnterSense
<1>4. CASE TickScan
  BY <1>4 DEF TickScan, HoldDoes
<1>5. CASE TickSense
  BY <1>5 DEF TickSense, SenseGoesOn, SenseEnds, Advance
<1> QED
  BY <1>1, <1>2, <1>3, <1>4, <1>5

\* A frame counts the markers the leg accepts.
LEMMA DetectionsCount ==
  ASSUME LegsInv, NEW ids \in SUBSET Tag, OnDetections(ids)
  PROVE  CountDoes
<1>1. UNCHANGED <<st, li, legs, paused, pausedAge, senseAge, scanDir, reached, detected, served, plan>>
  BY DEF OnDetections, missionVars, uiVars
<1>2. CASE st # "sense"
  <2>1. counts' = counts
    BY <1>2 DEF OnDetections
  <2> QED
    BY <1>1, <2>1 DEF CountDoes, LegsInv
<1>3. CASE st = "sense"
  <2>1. counts' = [t \in Tag |-> IF t \in ids /\ TagMatches(Leg.tag, t) /\ counts[t] < MaxCount
                                   THEN counts[t] + 1 ELSE counts[t]]
    BY <1>3 DEF OnDetections
  <2>2. \A t \in Tag : counts[t] \in 0 .. MaxCount
    BY Zenon DEF LegsInv
  <2>3. \A t \in Tag : counts'[t] \in 0 .. MaxCount
    BY <2>1, <2>2, SurveyAssumption
  <2>4. counts' \in [Tag -> 0 .. MaxCount]
    BY <2>1, <2>3
  <2>5. \A t \in Tag : counts'[t] # counts[t] => TagMatches(Leg.tag, t)
    BY <2>1
  <2> QED
    BY <1>1, <1>3, <2>4, <2>5 DEF CountDoes
<1> QED
  BY <1>2, <1>3

\* Every step.
LEMMA StepsDo ==
  ASSUME LegsInv, PanelInv, [Next]_vars
  PROVE  MissionSteps
<1> USE DEF MissionSteps
<1>1. ASSUME NEW m \in Mode, SetMode(m) PROVE UNCHANGED mission
  BY <1>1 DEF SetMode, mission, missionVars, uiVars
<1>2. CASE Announce
  BY <1>2 DEF Announce, mission, missionVars, uiVars
<1>3. CASE GateSees \/ RelayCmd \/ CoreTakes
  BY <1>3 DEF GateSees, RelayCmd, CoreTakes, mission, missionVars, uiVars
<1>4. CASE OnMode
  <2>1. counts' = counts /\ plan' = plan
    BY <1>4 DEF OnMode, uiVars
  <2>2. CASE UNCHANGED missionVars
    BY <2>1, <2>2 DEF mission, missionVars
  <2>3. CASE st = "idle" /\ Arm /\ ~UNCHANGED missionVars
    <3>1. plan # <<>>
      BY <2>3 DEF Arm
    <3>2. ArmDoes
      BY <2>1, <2>3, <3>1 DEF Arm, ArmDoes
    <3> QED
      BY <3>2
  <2> QED
    BY <1>4, <2>2, <2>3 DEF OnMode
<1>5. CASE ModeGrowsOld \/ DetsGrowOld
  BY <1>5 DEF ModeGrowsOld, DetsGrowOld, mission, missionVars, uiVars
<1>6. ASSUME NEW ids \in SUBSET Tag, OnDetections(ids) PROVE MissionSteps
  BY <1>6, DetectionsCount
<1>7. CASE TickUnauthorized
  <2>1. PauseDoes
    BY <1>7 DEF TickUnauthorized, PauseDoes, TickFrame, uiVars
  <2> QED
    BY <2>1
<1>8. CASE TickHold \/ TickArrive \/ TickScanEnds \/ TickScan \/ TickSense
  BY <1>8, TicksDo
<1>9. ASSUME NEW p \in Overrides, WaypointsSet(p) PROVE ReloadDoes
  BY <1>9 DEF WaypointsSet, Reload, ReloadDoes, UiFrame, Plan
<1>10. CASE WaypointsClear
  <2>1. ReloadDoes
    BY <1>10 DEF WaypointsClear, Reload, ReloadDoes, UiFrame, Plan
  <2> QED
    BY <2>1
<1>11. CASE WriteOverride \/ RemoveOverride
  BY <1>11 DEF WriteOverride, RemoveOverride, UiFrame, mission, missionVars
<1>12. CASE ModuleDies
  <2>1. plan' \in Plan
    BY <1>12 DEF ModuleDies, Loaded, PanelInv, Plan
  <2>2. DiesDoes
    BY <1>12, <2>1 DEF ModuleDies, DiesDoes
  <2> QED
    BY <2>2
<1>13. CASE AgentDies
  BY <1>13 DEF AgentDies, mission, missionVars, uiVars
<1>14. CASE UNCHANGED vars
  BY SMTT(30), <1>14 DEF vars, mission, missionVars, uiVars
<1> QED
  BY <1>1, <1>2, <1>3, <1>4, <1>5, <1>6, <1>7, <1>8, <1>9, <1>10, <1>11, <1>12, <1>13, <1>14 DEF Next

-----------------------------------------------------------------------------
(* Each part of the invariant is kept.                                      *)

\* The dwell's age stays what was served and the pause under way.
LEMMA DwellStep ==
  ASSUME DwellInv, MissionSteps
  PROVE  DwellInv'
<1>0. paused' \in BOOLEAN
  BY Zenon DEF MissionSteps, DwellInv, mission, ArmDoes, CountDoes, PauseDoes, HoldDoes, SenseBegins,
     ScanBegins, PassesBy, SenseGoesOn, SenseEnds, ReloadDoes, DiesDoes, Resumes
<1> USE SurveyAssumption DEF DwellInv, DwellAges, Active
<1>1. ASSUME UNCHANGED mission PROVE DwellAges'
  BY <1>1 DEF mission
<1>2. ASSUME ArmDoes PROVE DwellAges'
  BY <1>2 DEF ArmDoes
<1>3. ASSUME CountDoes PROVE DwellAges'
  BY <1>3 DEF CountDoes
<1>4. ASSUME PauseDoes PROVE DwellAges'
  <2>1. /\ st = "sense" /\ paused => pausedAge < MaxPause
        /\ st' = IF st = "done" THEN "idle" ELSE st
        /\ pausedAge' = IF st = "sense" /\ paused THEN pausedAge + 1 ELSE pausedAge
        /\ senseAge' = IF st = "sense" THEN senseAge + 1 ELSE senseAge
        /\ scanDir' = scanDir /\ served' = served
    BY <1>4 DEF PauseDoes
  <2>2. Active => paused'
    BY <1>4, Zenon DEF PauseDoes
  <2>3. ~Active => ~paused'
    BY <1>4, Zenon DEF PauseDoes
  <2>4. CASE st = "sense" /\ paused
    BY <2>1, <2>2, <2>4
  <2>5. CASE st = "sense" /\ ~paused
    BY <2>1, <2>2, <2>5
  <2>6. CASE st # "sense"
    BY <2>1, <2>2, <2>3, <2>6
  <2> QED
    BY <2>4, <2>5, <2>6
<1>5. ASSUME HoldDoes PROVE DwellAges'
  BY <1>5 DEF HoldDoes, Resumes
<1>6. ASSUME SenseBegins PROVE DwellAges'
  BY <1>6 DEF SenseBegins, EnterSense, Resumes
<1>7. ASSUME ScanBegins PROVE DwellAges'
  BY <1>7 DEF ScanBegins, Resumes
<1>8. ASSUME PassesBy PROVE DwellAges'
  BY <1>8 DEF PassesBy, Advance, Resumes
<1>9. ASSUME SenseGoesOn PROVE DwellAges'
  <2>1. DwellAge = served + 1
    BY <1>9 DEF SenseGoesOn, DwellAge
  <2> QED
    BY <1>9, <2>1 DEF SenseGoesOn, Resumes
<1>10. ASSUME SenseEnds PROVE DwellAges'
  <2>1. DwellAge = served + 1
    BY <1>10 DEF SenseEnds, DwellAge
  <2> QED
    BY <1>10, <2>1 DEF SenseEnds, Advance, Resumes
<1>11. ASSUME ReloadDoes PROVE DwellAges'
  BY <1>11 DEF ReloadDoes
<1>12. ASSUME DiesDoes PROVE DwellAges'
  BY <1>12 DEF DiesDoes
<1> QED
  BY <1>0, <1>1, <1>2, <1>3, <1>4, <1>5, <1>6, <1>7, <1>8, <1>9, <1>10, <1>11, <1>12 DEF MissionSteps

\* A dwell that ends has been served in full.
LEMMA DwellEnds ==
  ASSUME DwellInv, MissionSteps, st = "sense", st' \in {"transit", "done"}
  PROVE  served' = Dwell
<1>1. SenseEnds
  BY DEF MissionSteps, mission, ArmDoes, CountDoes, PauseDoes, HoldDoes, SenseBegins, ScanBegins,
     PassesBy, SenseGoesOn, ReloadDoes, DiesDoes
<1>2. DwellAge = served + 1
  BY SMTT(30) DEF DwellInv, DwellAges, DwellAge
<1> QED
  BY <1>1, <1>2, SurveyAssumption DEF SenseEnds, DwellInv, DwellAges

\* The leg under way, seen through the plan.
LEMMA LegIs ==
  ASSUME PanelInv, LegsInv, Active
  PROVE  /\ Leg.wp \in 0 .. Len(plan) /\ Len(plan) \in Nat \ {0} /\ DOMAIN plan = 1 .. Len(plan)
         /\ Leg.sense => Leg.wp = li /\ li \in DOMAIN plan /\ Leg.tag = plan[li]
<1>1. plan \in Plan /\ plan # <<>> /\ Leg = BuildLegs(plan)[li] /\ li \in 1 .. Len(BuildLegs(plan))
  BY DEF PanelInv, LegsInv, Leg
<1> DEFINE n == Len(plan)
           L == BuildLegs(plan)
<1>2. /\ n \in Nat \ {0} /\ DOMAIN plan = 1 .. n
      /\ Len(L) \in {n, n + n} /\ DOMAIN L = 1 .. Len(L)
      /\ \A i \in 1 .. n : L[i] = [tag |-> plan[i], wp |-> i, sense |-> TRUE]
      /\ \A i \in 1 .. Len(L) : i > n => ~L[i].sense /\ L[i].wp \in 0 .. n
  BY <1>1, LegsAre
<1>3. CASE li \in 1 .. n
  <2>1. Leg = [tag |-> plan[li], wp |-> li, sense |-> TRUE]
    BY Zenon, <1>1, <1>2, <1>3
  <2>2. Leg.wp = li /\ Leg.tag = plan[li]
    BY SMTT(30), <2>1
  <2>3. Len(plan) \in Nat \ {0} /\ DOMAIN plan = 1 .. Len(plan) /\ li \in 1 .. Len(plan)
    BY Zenon, <1>2, <1>3
  <2>4. li \in 0 .. Len(plan)
    BY SMTT(30), <2>3
  <2> QED
    BY <2>2, <2>3, <2>4, ZenonT(40)
<1>4. CASE li > n
  BY Zenon, <1>1, <1>2, <1>4
<1> HIDE DEF n, L
<1> QED
  BY <1>1, <1>2, <1>3, <1>4 DEF L

\* The mission stays on the legs of its plan.
LEMMA LegsStep ==
  ASSUME PanelInv, LegsInv, MissionSteps
  PROVE  LegsInv'
<1> USE DEF Active
<1>0. Active => Len(legs) \in Nat
  BY LegsAre DEF LegsInv, PanelInv
<1>1. CASE UNCHANGED mission
  BY <1>1 DEF mission, LegsInv, Leg
<1>2. CASE ArmDoes
  <2>1. Len(BuildLegs(plan)) \in Nat \ {0}
    BY <1>2, LegsAre DEF ArmDoes, PanelInv
  <2> QED
    BY <1>2, <2>1 DEF ArmDoes, LegsInv
<1>3. CASE CountDoes
  <2>1. Leg' = Leg /\ UNCHANGED <<st, li, legs, plan, detected>>
    BY <1>3 DEF CountDoes, Leg
  <2>2. counts' \in [Tag -> 0 .. MaxCount]
    BY <1>3 DEF CountDoes
  <2>3. st = "sense" => \A t \in Tag : counts'[t] > 0 => TagMatches(Leg.tag, t)
    BY <1>3 DEF CountDoes, LegsInv
  <2> QED
    BY <2>1, <2>2, <2>3 DEF LegsInv, TagMatches
<1>4. CASE PauseDoes
  BY <1>4 DEF PauseDoes, LegsInv, Leg, TagMatches
<1>5. CASE HoldDoes
  BY <1>5 DEF HoldDoes, Resumes, LegsInv, Leg
<1>6. CASE SenseBegins
  BY <1>6, SurveyAssumption DEF SenseBegins, EnterSense, NoCounts, Resumes, LegsInv, Leg
<1>7. CASE ScanBegins
  BY <1>7 DEF ScanBegins, Resumes, LegsInv, Leg
<1>8. CASE PassesBy
  BY <1>0, <1>8, SurveyAssumption DEF PassesBy, Advance, NoCounts, Resumes, LegsInv
<1>9. CASE SenseGoesOn
  BY <1>9 DEF SenseGoesOn, Resumes, LegsInv, Leg, TagMatches
<1>10. CASE SenseEnds
  <2>1. DOMAIN detected' = DOMAIN detected
    BY <1>10 DEF SenseEnds
  <2> QED
    BY <1>0, <1>10, <2>1, SurveyAssumption DEF SenseEnds, Advance, NoCounts, Resumes, LegsInv
<1>11. CASE ReloadDoes
  BY <1>11 DEF ReloadDoes, LegsInv
<1>12. CASE DiesDoes
  BY <1>12, SurveyAssumption DEF DiesDoes, NoCounts, LegsInv
<1> QED
  BY <1>1, <1>2, <1>3, <1>4, <1>5, <1>6, <1>7, <1>8, <1>9, <1>10, <1>11, <1>12 DEF MissionSteps

\* The waypoints of the first k legs.
Behind(k) == {legs[i].wp : i \in 1 .. k} \ {0}

\* Arriving adds the waypoint of the leg under way.
LEMMA BehindGrows ==
  ASSUME PanelInv, LegsInv, Active
  PROVE  Behind(li) = IF Leg.wp > 0 THEN Behind(li - 1) \cup {Leg.wp} ELSE Behind(li - 1)
<1>1. li \in Nat \ {0} /\ Leg.wp \in Nat /\ Leg = legs[li]
  BY LegIs DEF LegsInv, Leg
<1>2. 1 .. li = (1 .. li - 1) \cup {li}
  BY <1>1
<1>3. {legs[i].wp : i \in 1 .. li} = {legs[i].wp : i \in 1 .. li - 1} \cup {Leg.wp}
  BY <1>1, <1>2, Zenon
<1>4. Leg.wp > 0 <=> Leg.wp # 0
  BY <1>1
<1> QED
  BY <1>3, <1>4, Zenon DEF Behind

\* All legs together visit every waypoint, and no leg another place.
LEMMA BehindAll ==
  ASSUME PanelInv, LegsInv, Active
  PROVE  /\ Behind(Len(legs)) = DOMAIN plan
         /\ Behind(li) \subseteq DOMAIN plan /\ Behind(li - 1) \subseteq DOMAIN plan
<1> DEFINE n == Len(plan)
<1>0. plan \in Plan /\ plan # <<>> /\ legs = BuildLegs(plan) /\ li \in 1 .. Len(legs)
  BY SMTT(30) DEF LegsInv, PanelInv
<1>1. /\ n \in Nat \ {0} /\ DOMAIN plan = 1 .. n
      /\ Len(legs) \in {n, n + n} /\ li \in 1 .. Len(legs)
      /\ \A i \in 1 .. n : legs[i] = [tag |-> plan[i], wp |-> i, sense |-> TRUE]
      /\ \A i \in 1 .. Len(legs) : i > n => legs[i].wp \in 0 .. n
  <2> DEFINE L == BuildLegs(plan)
  <2>1. /\ n \in Nat \ {0} /\ DOMAIN plan = 1 .. n
        /\ Len(L) \in {n, n + n} /\ DOMAIN L = 1 .. Len(L)
        /\ \A i \in 1 .. n : L[i] = [tag |-> plan[i], wp |-> i, sense |-> TRUE]
        /\ \A i \in 1 .. Len(L) : i > n => ~L[i].sense /\ L[i].wp \in 0 .. n
    BY <1>0, LegsAre
  <2>2. L = legs
    BY <1>0
  <2> HIDE DEF L, n
  <2> QED
    BY Zenon, <1>0, <2>1, <2>2
<1> HIDE DEF n
<1>2. ASSUME NEW i \in 1 .. n PROVE legs[i].wp = i
  <2>1. legs[i] = [tag |-> plan[i], wp |-> i, sense |-> TRUE]
    BY <1>1
  <2> QED
    BY <2>1
<1>3. \A i \in 1 .. Len(legs) : legs[i].wp \in 0 .. n
  BY <1>1, <1>2
<1>4. \A i \in 1 .. n : i \in 1 .. Len(legs) /\ i # 0
  BY <1>1
<1>5. \A w \in 0 .. n : w # 0 => w \in 1 .. n
  BY <1>1
<1>6. Behind(Len(legs)) = 1 .. n
  BY <1>2, <1>3, <1>4, <1>5, ZenonT(40) DEF Behind
<1>7. (1 .. li) \subseteq 1 .. Len(legs) /\ (1 .. li - 1) \subseteq 1 .. Len(legs)
  BY <1>1
<1> QED
  BY <1>1, <1>6, <1>7, Zenon DEF Behind, n

\* What is reached and detected stays true.
LEMMA VisitedStep ==
  ASSUME PanelInv, DwellInv, LegsInv, VisitedInv, MissionSteps
  PROVE  VisitedInv'
<1> USE DEF Active
<1>1. CASE UNCHANGED mission
  BY <1>1 DEF mission, VisitedInv, TagMatches
<1>2. CASE ArmDoes
  <2>1. st' = "transit" /\ li' = 1 /\ reached' = {} /\ plan' = plan /\ detected' = [w \in DOMAIN plan |-> TagNone]
    BY <1>2 DEF ArmDoes
  <2>2. 1 .. li' - 1 = {}
    BY <2>1
  <2> QED
    BY <2>1, <2>2 DEF VisitedInv
<1>3. CASE CountDoes
  BY <1>3 DEF CountDoes, VisitedInv, TagMatches
<1>4. CASE PauseDoes
  BY <1>4 DEF PauseDoes, VisitedInv, TagMatches
<1>5. CASE HoldDoes
  BY <1>5 DEF HoldDoes, Resumes, VisitedInv, TagMatches
\* An arrival, or a scan that ends: the waypoint of the leg is behind.
<1>6. ASSUME /\ st \in {"transit", "scan"} /\ st' \in {"scan", "sense"}
             /\ reached' = IF st = "transit" /\ Leg.wp > 0 THEN reached \cup {Leg.wp} ELSE reached
             /\ UNCHANGED <<li, legs, plan, detected>>
      PROVE  VisitedInv'
  <2>1. reached' = Behind(li)
    BY SMTT(30), <1>6, BehindGrows DEF VisitedInv, Behind
  <2>2. Behind(li)' = Behind(li)
    BY <1>6 DEF Behind
  <2>3. reached' \subseteq DOMAIN plan /\ reached \subseteq reached'
    BY <1>6, <2>1, BehindAll
  <2>4. reached' = Behind(li)'
    BY <2>1, <2>2
  <2> QED
    BY <1>6, <2>3, <2>4 DEF VisitedInv, TagMatches, Behind
<1>7. CASE SenseBegins
  BY <1>6, <1>7 DEF SenseBegins, EnterSense, Resumes
<1>8. CASE ScanBegins
  BY <1>6, <1>8 DEF ScanBegins, Resumes
\* A leg that ends: the next one is under way, or all are behind.
<1>9. ASSUME Active, Advance, reached' = Behind(li), UNCHANGED <<legs, plan>>,
             DOMAIN detected' = DOMAIN detected,
             detected' \in [DOMAIN detected -> Tag \cup {TagNone}],
             \A w \in DOMAIN detected :
               detected'[w] # TagNone => w \in reached' /\ TagMatches(plan[w], detected'[w])
      PROVE  VisitedInv'
  <2>1. li \in Nat /\ li' = li + 1 /\ li' - 1 = li
    BY <1>9 DEF Advance, LegsInv
  <2>2. CASE li = Len(legs)
    <3>1. st' = "done" /\ reached' = DOMAIN plan
      BY <1>9, <2>2, BehindAll DEF Advance
    <3> QED
      BY <1>9, <3>1 DEF VisitedInv, TagMatches
  <2>3. CASE li # Len(legs)
    <3>1. st' = "transit"
      BY <1>9, <2>3 DEF Advance
    <3>2. reached' = {legs'[i].wp : i \in 1 .. li' - 1} \ {0}
      BY <1>9, <2>1 DEF Behind
    <3>3. reached' \subseteq DOMAIN plan
      BY <1>9, BehindAll
    <3> QED
      BY <1>9, <3>1, <3>2, <3>3 DEF VisitedInv, TagMatches
  <2> QED
    BY <2>2, <2>3
<1>10. CASE PassesBy
  <2>1. Active /\ reached = Behind(li - 1) /\ UNCHANGED <<legs, plan, detected>> /\ Advance
    BY <1>10 DEF PassesBy, Resumes, VisitedInv, Behind
  <2>2. reached' = Behind(li) /\ reached \subseteq reached'
    BY <1>10, <2>1, BehindGrows DEF PassesBy
  <2> QED
    BY <1>9, <2>1, <2>2 DEF VisitedInv, TagMatches
<1>11. CASE SenseGoesOn
  BY <1>11 DEF SenseGoesOn, Resumes, VisitedInv, TagMatches
<1>12. CASE SenseEnds
  <2>1. Active /\ reached' = reached /\ UNCHANGED <<legs, plan>> /\ Advance
    BY <1>12 DEF SenseEnds, Resumes
  <2>2. reached = Behind(li)
    BY <1>12, <2>1 DEF SenseEnds, VisitedInv, Behind
  <2>3. Leg.sense
    BY <1>12 DEF SenseEnds, LegsInv
  <2>4. Leg.wp \in DOMAIN plan /\ Leg.tag = plan[Leg.wp] /\ Leg.wp > 0
    BY <2>1, <2>3, LegIs
  <2>5. Leg.wp \in reached
    BY <2>1, <2>2, <2>4, BehindGrows
  <2>6. \A t \in SenseBest : t \in Tag /\ TagMatches(Leg.tag, t)
    BY <1>12 DEF SenseEnds, SenseBest, LegsInv
  <2>7. CASE SenseBest = {}
    BY SMTT(30), <1>9, <1>12, <2>1, <2>2, <2>7 DEF SenseEnds, VisitedInv, TagMatches
  <2>8. CASE SenseBest # {}
    <3>1. PICK t \in SenseBest : detected' = [detected EXCEPT ![Leg.wp] = t]
      BY <1>12, <2>8, Zenon DEF SenseEnds
    <3>2. t \in Tag /\ TagMatches(plan[Leg.wp], t)
      BY <2>4, <2>6
    <3>3. DOMAIN detected' = DOMAIN detected
      BY <3>1
    <3>4. \A w \in DOMAIN detected : detected'[w] = IF w = Leg.wp THEN t ELSE detected[w]
      BY <3>1
    <3>5. detected' \in [DOMAIN detected -> Tag \cup {TagNone}]
      BY Zenon, <3>1, <3>2 DEF VisitedInv
    <3>6. \A w \in DOMAIN detected :
            detected'[w] # TagNone => w \in reached' /\ TagMatches(plan[w], detected'[w])
      BY <2>1, <2>5, <3>2, <3>4 DEF VisitedInv
    <3> QED
      BY <1>9, <2>1, <2>2, <3>3, <3>5, <3>6
  <2> QED
    BY <2>7, <2>8
<1>13. CASE ReloadDoes
  BY <1>13 DEF ReloadDoes, VisitedInv
<1>14. CASE DiesDoes
  BY <1>14 DEF DiesDoes, VisitedInv
<1> QED
  BY <1>1, <1>2, <1>3, <1>4, <1>5, <1>7, <1>8, <1>10, <1>11, <1>12, <1>13, <1>14 DEF MissionSteps

\* The panel: the file, the plan in force and what the panel says of them.
LEMMA PanelStep ==
  ASSUME PanelInv, [Next]_vars
  PROVE  PanelInv'
<1>1. CASE UNCHANGED <<plan, ui, override, file, unsaved>>
  BY <1>1 DEF PanelInv, RestartKeepsPlan, Loaded
<1>2. ASSUME NEW p \in Overrides, WaypointsSet(p) PROVE PanelInv'
  <2>1. plan' = p /\ ui' = "write" /\ UNCHANGED <<override, file, unsaved>>
    BY <1>2 DEF WaypointsSet, Reload
  <2> QED
    BY <2>1 DEF PanelInv, RestartKeepsPlan, Plan
<1>3. CASE WriteOverride
  <2>1. plan' = plan /\ plan \notin {NoFile, Torn}
    BY <1>3, PlansAre DEF WriteOverride, PanelInv
  <2>2. CASE ui = "write" /\ file' = Torn /\ ui' = "finish" /\ UNCHANGED <<override, unsaved>>
    BY <2>1, <2>2 DEF PanelInv, RestartKeepsPlan
  <2>3. CASE ui = "finish" /\ file' = plan /\ ui' = "idle" /\ override' = TRUE /\ unsaved' = FALSE
    BY <2>1, <2>3, Zenon DEF PanelInv, RestartKeepsPlan, Loaded
  <2>4. CASE ui \in {"write", "finish"} /\ ui' = "idle" /\ unsaved' = TRUE /\ UNCHANGED <<file, override>>
    BY <2>1, <2>4, Zenon DEF PanelInv, RestartKeepsPlan
  <2> QED
    BY Zenon, <1>3, <2>2, <2>3, <2>4 DEF WriteOverride
<1>4. CASE WaypointsClear
  <2>1. plan' = Baseline /\ ui' = "remove" /\ UNCHANGED <<override, file, unsaved>>
    BY <1>4 DEF WaypointsClear, Reload
  <2> QED
    BY <2>1 DEF PanelInv, RestartKeepsPlan, Plan
<1>5. CASE RemoveOverride
  <2>1. plan' = plan /\ plan = Baseline /\ ui' = "idle"
    BY <1>5 DEF RemoveOverride, PanelInv
  <2>2. CASE file' = NoFile /\ override' = FALSE /\ unsaved' = FALSE
    BY <2>1, <2>2, Zenon DEF PanelInv, RestartKeepsPlan, Loaded
  <2>3. CASE unsaved' = TRUE /\ UNCHANGED <<file, override>>
    BY <2>1, <2>3, Zenon DEF PanelInv, RestartKeepsPlan
  <2> QED
    BY Zenon, <1>5, <2>2, <2>3 DEF RemoveOverride
<1>6. CASE ModuleDies
  <2>1. /\ plan' = (IF Loaded THEN file ELSE Baseline) /\ override' = Loaded
        /\ ui' = "idle" /\ unsaved' = FALSE /\ file' = file
    BY <1>6 DEF ModuleDies
  <2>2. plan' \in Plan
    BY <2>1 DEF PanelInv, Loaded, Plan
  <2>3. override' \in BOOLEAN /\ unsaved' \in BOOLEAN /\ Loaded' = Loaded
    BY <2>1, Zenon DEF Loaded
  <2> QED
    BY <2>1, <2>2, <2>3 DEF PanelInv, RestartKeepsPlan
<1>7. ASSUME NEW m \in Mode, SetMode(m) PROVE PanelInv'
  BY <1>1, <1>7 DEF SetMode, uiVars
<1>8. ASSUME NEW ids, OnDetections(ids) PROVE PanelInv'
  BY <1>1, <1>8 DEF OnDetections, uiVars
<1>9. CASE Announce \/ GateSees \/ RelayCmd \/ CoreTakes \/ OnMode \/ ModeGrowsOld \/ DetsGrowOld \/ AgentDies
  BY <1>1, <1>9 DEF Announce, GateSees, RelayCmd, CoreTakes, OnMode, ModeGrowsOld, DetsGrowOld, AgentDies, uiVars
<1>10. CASE TickUnauthorized \/ TickHold \/ TickArrive \/ TickScanEnds \/ TickScan \/ TickSense
  <2>1. UNCHANGED uiVars
    BY <1>10 DEF TickUnauthorized, TickHold, TickArrive, TickScanEnds, TickScan, TickSense, TickFrame
  <2> QED
    BY <1>1, <2>1 DEF uiVars
<1>11. CASE UNCHANGED vars
  BY <1>1, <1>11 DEF vars, uiVars
<1> QED
  BY <1>2, <1>3, <1>4, <1>5, <1>6, <1>7, <1>8, <1>9, <1>10, <1>11 DEF Next

\* A queue takes a message only while it has room.
LEMMA Offers ==
  ASSUME NEW S, NEW q \in Seq(S), NEW max \in Nat, Len(q) <= max, NEW m \in S, NEW r \in Offer(q, m, max)
  PROVE  r \in Seq(S) /\ Len(r) <= max
  BY DEF Offer

\* And gives one as long as it has one.
LEMMA Gives ==
  ASSUME NEW S, NEW q \in Seq(S), NEW max \in Nat, Len(q) <= max, q # <<>>
  PROVE  Head(q) \in S /\ Tail(q) \in Seq(S) /\ Len(Tail(q)) <= max
  OBVIOUS

\* The messages, the gate and the detections keep their types, the queues their bounds.
LEMMA MessagesStep ==
  ASSUME MessagesOK, [Next]_vars
  PROVE  MessagesOK'
<1> DEFINE queues == <<toGate, toModule>>
           rest == <<mode, announcing, gate, emode, cmd, relayed, fresh, dets>>
           QueuesOK == /\ toGate \in Seq(Mode) /\ Len(toGate) <= GateQueue
                       /\ toModule \in Seq(Mode) /\ Len(toModule) <= ModuleQueue
<1>0. GateQueue \in Nat /\ ModuleQueue \in Nat /\ QueuesOK
  BY SurveyAssumption DEF MessagesOK
<1>1. ASSUME NEW m \in Mode, Publish(m) PROVE QueuesOK'
  BY SMTT(30), <1>0, <1>1, Offers DEF Publish
<1>2. ASSUME NEW m \in Mode, SetMode(m) PROVE MessagesOK'
  <2>1. Publish(m) /\ mode' = m /\ announcing' \in {Unknown, mode, announcing}
        /\ UNCHANGED <<gate, emode, cmd, relayed, fresh, dets>>
    BY SMTT(30), <1>2 DEF SetMode, agentVars, authVars
  <2> QED
    BY Zenon, <1>1, <2>1 DEF MessagesOK
<1>3. CASE Announce
  <2>1. PICK m \in Mode : Publish(m)
    BY <1>3 DEF Announce, MessagesOK
  <2>2. announcing' = Unknown /\ UNCHANGED <<mode, gate, emode, cmd, relayed, fresh, dets>>
    BY <1>3 DEF Announce, agentVars, authVars
  <2> QED
    BY Zenon, <1>1, <2>1, <2>2 DEF MessagesOK
<1>4. CASE GateSees
  <2>1. gate' \in Mode /\ QueuesOK'
    BY <1>0, <1>4, Gives DEF GateSees
  <2> QED
    BY <1>4, <2>1 DEF GateSees, authVars, MessagesOK
<1>5. CASE RelayCmd
  <2>1. cmd' \in BOOLEAN /\ relayed' \in BOOLEAN
    BY <1>5, Zenon DEF RelayCmd
  <2> QED
    BY <1>5, <2>1 DEF RelayCmd, coreVars, authVars, MessagesOK
<1>6. CASE CoreTakes
  <2>1. relayed' \in BOOLEAN
    BY <1>6, Zenon DEF CoreTakes
  <2> QED
    BY <1>6, <2>1 DEF CoreTakes, coreVars, authVars, MessagesOK
<1>7. CASE OnMode
  <2>1. emode' \in Mode /\ QueuesOK'
    BY <1>0, <1>7, Gives DEF OnMode
  <2>2. fresh' \in BOOLEAN
    BY <1>7, Zenon DEF OnMode
  <2> QED
    BY <1>7, <2>1, <2>2 DEF OnMode, agentVars, MessagesOK
<1>8. CASE ModeGrowsOld
  <2>1. fresh' \in BOOLEAN
    BY <1>8, Zenon DEF ModeGrowsOld
  <2> QED
    BY <1>8, <2>1 DEF ModeGrowsOld, coreVars, agentVars, MessagesOK
<1>9. CASE DetsGrowOld
  <2>1. dets'.ids \subseteq Tag /\ dets'.age \in {"new", "recent", "old"}
    BY <1>9 DEF DetsGrowOld, NoDets, MessagesOK
  <2> QED
    BY <1>9, <2>1 DEF DetsGrowOld, coreVars, agentVars, authVars, MessagesOK
<1>10. ASSUME NEW ids \in SUBSET Tag, OnDetections(ids) PROVE MessagesOK'
  <2>1. dets'.ids \subseteq Tag /\ dets'.age \in {"new", "recent", "old"}
    BY <1>10 DEF OnDetections
  <2> QED
    BY <1>10, <2>1 DEF OnDetections, coreVars, agentVars, authVars, MessagesOK
<1>11. CASE TickUnauthorized \/ TickHold \/ TickArrive \/ TickScanEnds \/ TickScan \/ TickSense
  <2>1. TickFrame /\ cmd' \in {cmd, TRUE}
    BY Zenon, <1>11 DEF TickUnauthorized, TickHold, TickArrive, TickScanEnds, TickScan, TickSense, Authority
  <2>2. cmd' \in BOOLEAN
    BY <2>1, Zenon DEF MessagesOK
  <2> QED
    BY <2>1, <2>2 DEF TickFrame, coreVars, authVars, MessagesOK
<1>12. ASSUME UiFrame PROVE MessagesOK'
  BY Zenon, <1>12 DEF UiFrame, coreVars, agentVars, authVars, MessagesOK
<1>13. ASSUME NEW p, WaypointsSet(p) PROVE MessagesOK'
  BY <1>12, <1>13 DEF WaypointsSet
<1>14. CASE WriteOverride \/ WaypointsClear \/ RemoveOverride
  BY <1>12, <1>14 DEF WriteOverride, WaypointsClear, RemoveOverride
<1>15. CASE ModuleDies
  <2>1. fresh' \in BOOLEAN /\ dets' = NoDets /\ emode' = Unknown /\ toModule' = <<>>
        /\ UNCHANGED <<mode, announcing, toGate, gate, cmd, relayed>>
    BY <1>15, Zenon DEF ModuleDies, agentVars
  <2> QED
    BY <1>0, <2>1 DEF MessagesOK, NoDets
<1>16. CASE AgentDies
  <2>1. cmd' \in BOOLEAN /\ relayed' \in BOOLEAN /\ gate' = Unknown /\ toGate' = <<>> /\ toModule' = <<>>
        /\ UNCHANGED <<mode, announcing, emode, fresh, dets>>
    BY <1>16, Zenon DEF AgentDies, authVars
  <2> QED
    BY <1>0, <2>1 DEF MessagesOK
<1>17. CASE UNCHANGED vars
  BY <1>17 DEF vars, coreVars, agentVars, authVars, MessagesOK
<1> QED
  BY <1>2, <1>3, <1>4, <1>5, <1>6, <1>7, <1>8, <1>9, <1>10, <1>11, <1>13, <1>14, <1>15, <1>16, <1>17
     DEF Next

-----------------------------------------------------------------------------
(* The theorems.                                                            *)

\* The program starts in the invariant.
LEMMA SurveyInit == Init => SurveyInv
<1> SUFFICES ASSUME Init PROVE SurveyInv
  OBVIOUS
<1>1. MessagesOK
  <2>1. cmd \in BOOLEAN /\ relayed \in BOOLEAN /\ fresh \in BOOLEAN
    BY Zenon DEF Init
  <2> QED
    BY <2>1, SurveyAssumption DEF Init, MessagesOK, NoDets, Mode
<1>2. PanelInv
  <2>1. override \in BOOLEAN /\ unsaved \in BOOLEAN /\ ~Loaded
    BY Zenon DEF Init, Loaded
  <2>2. override = Loaded
    BY Zenon DEF Init, Loaded
  <2>3. RestartKeepsPlan
    BY <2>1, <2>2, Zenon DEF Init, RestartKeepsPlan
  <2> QED
    BY <2>1, <2>3 DEF Init, PanelInv, Plan
<1>3. DwellInv
  <2>1. paused \in BOOLEAN
    BY Zenon DEF Init
  <2> QED
    BY <2>1, SurveyAssumption DEF Init, DwellInv, DwellAges, Active
<1>4. LegsInv
  BY SurveyAssumption DEF Init, LegsInv, Active, NoCounts
<1>5. VisitedInv
  BY DEF Init, VisitedInv, Active
<1> QED
  BY <1>1, <1>2, <1>3, <1>4, <1>5 DEF SurveyInv

\* And stays in it.
LEMMA SurveyStep == SurveyInv /\ [Next]_vars => SurveyInv'
<1> SUFFICES ASSUME SurveyInv, [Next]_vars PROVE SurveyInv'
  OBVIOUS
<1>1. MissionSteps
  BY StepsDo DEF SurveyInv
<1> QED
  BY <1>1, MessagesStep, PanelStep, DwellStep, LegsStep, VisitedStep DEF SurveyInv

\* The invariant says that the plan is followed.
LEMMA SurveyImplies == SurveyInv => PlanIsFollowed
<1> SUFFICES ASSUME SurveyInv PROVE PlanIsFollowed
  OBVIOUS
<1>1. Active => DOMAIN legs = 1 .. Len(legs)
  BY LegsAre DEF SurveyInv, LegsInv, PanelInv
<1>2. LegsMatchPlan /\ DoneMeansVisited
  BY <1>1 DEF SurveyInv, LegsInv, VisitedInv, LegsMatchPlan, DoneMeansVisited
<1>3. senseAge \in 0 .. Dwell + MaxPause
  BY SurveyAssumption DEF SurveyInv, DwellInv, DwellAges
<1>4. {cmd, relayed, fresh, paused, override, unsaved} \subseteq BOOLEAN
  BY Zenon DEF SurveyInv, MessagesOK, DwellInv, PanelInv
<1>5. {announcing, gate, emode} \subseteq Mode \cup {Unknown}
  BY DEF SurveyInv, MessagesOK
<1>6. detected \in [DOMAIN detected -> Tag \cup {TagNone}]
  BY DEF SurveyInv, VisitedInv
<1>7. li \in 1 .. Len(legs) + 1
  BY SMTT(30) DEF SurveyInv, LegsInv, Active
<1>8. TypeOK
  BY <1>3, <1>4, <1>5, <1>6, <1>7
     DEF TypeOK, SurveyInv, MessagesOK, PanelInv, DwellInv, DwellAges, LegsInv, VisitedInv
<1> QED
  BY <1>2, <1>8 DEF PlanIsFollowed

\* The mission follows its waypoints: its legs are those of the plan in force and
\* indexed within bounds, exactly the waypoints behind it count as reached, a mission
\* that ends has been everywhere, and what it reports fits (tickTransit, arrive,
\* tickSense, Reload).
THEOREM PlanIsFollowedCorrect == Spec => []PlanIsFollowed
<1> QED
  BY SurveyInit, SurveyStep, SurveyImplies, PTL DEF Spec

\* A restart of the module runs the waypoints in force, between two requests that were
\* saved (waypointsSet, waypointsClear, LoadOverride).
THEOREM RestartKeepsPlanCorrect == Spec => []RestartKeepsPlan
<1>1. SurveyInv => RestartKeepsPlan
  BY DEF SurveyInv, PanelInv
<1> QED
  BY <1>1, SurveyInit, SurveyStep, PTL DEF Spec

\* A dwell that ends has been served in full in ticks with authority (tickSense, the
\* shift of senseStart on a resume).
THEOREM DwellIsServedCorrect == Spec => DwellIsServed
<1>1. SurveyInv /\ [Next]_vars => [st = "sense" /\ st' \in {"transit", "done"} => served' = Dwell]_vars
  BY StepsDo, DwellEnds DEF SurveyInv
<1> QED
  BY <1>1, SurveyInit, SurveyStep, PTL DEF Spec, DwellIsServed
=============================================================================
