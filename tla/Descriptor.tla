------------------------------ MODULE Descriptor ------------------------------
(***************************************************************************)
(* The platform descriptor as its two readers see it: the Go parser of     *)
(* protocol/platform/descriptor, which the agent derives the servo broker's *)
(* deny-list from (agent/internal/modules/platform_deny.go), and the core's *)
(* own parser (core/src/platform/Descriptor.cpp), from which the core takes *)
(* its deny-list, its wheels and its kinematics.                           *)
(*                                                                         *)
(* An operator edits /data/waypoint/platform.toml between starts of the    *)
(* two processes; each reads it once, when it starts.                      *)
(***************************************************************************)
EXTENDS Integers, Sequences, FiniteSets, SequencesExt

CONSTANT MaxEdits    \* edits an operator makes to the file

VARIABLES
  data,     \* /data/waypoint/platform.toml, or Missing
  baked,    \* /usr/share/waypoint/platform.toml, or Missing
  edits,
  agent,    \* the broker's deny-list and the file it is from
  core,     \* the file the core runs on and its WheelJoints
  moved,    \* servos a module's command has reached since the core started
  turned    \* the speed the drive last wrote, by servo

vars == <<data, baked, edits, agent, core, moved, turned>>

-----------------------------------------------------------------------------
(* The file. *)

wheelPositions == <<"front_left", "front_right", "back_left", "back_right">>
Position == Range(wheelPositions)

WheelJoint(pos, bus, invert) ==
  [name |-> pos, driver |-> "main", bus |-> bus, type |-> "wheel", own |-> "platform",
   invert |-> invert, iface |-> {"velocity"}, limits |-> {"velocity"}]

\* waypoint-rover.toml: four wheels of the platform and a joint of the arm module.
Rover ==
  [schema |-> 1, id |-> "rover", class |-> "diff_drive_rover", extra |-> FALSE,
   drivers |-> [d \in {"main"} |-> [kind |-> "sts3215", port |-> TRUE]],
   joints |-> <<WheelJoint("front_left", 7, FALSE), WheelJoint("front_right", 8, TRUE),
                WheelJoint("back_left", 9, FALSE), WheelJoint("back_right", 10, TRUE),
                [name |-> "arm", driver |-> "main", bus |-> 1, type |-> "revolute",
                 own |-> "module", invert |-> FALSE, iface |-> {"position"}, limits |-> {}]>>,
   kin |-> [there |-> TRUE, model |-> "diff_drive", radius |-> 1, track |-> 2,
            wheels |-> [p \in Position |-> p]],
   sensor |-> "imu"]

Missing == [Rover EXCEPT !.id = "missing"]
NoKin == [Rover.kin EXCEPT !.there = FALSE]

\* What an operator may do to the file; the arm and the first wheel stand for
\* the joints.
Edited(f) ==
  {[f EXCEPT !.schema = 2], [f EXCEPT !.class = "fixed_base"], [f EXCEPT !.class = "quadrotor"],
   [f EXCEPT !.extra = TRUE], [f EXCEPT !.drivers["main"].kind = "can"],
   [f EXCEPT !.drivers["main"].port = FALSE], [f EXCEPT !.joints = <<>>], [f EXCEPT !.kin = NoKin],
   [f EXCEPT !.kin.model = "ackermann"], [f EXCEPT !.kin.radius = 0],
   [f EXCEPT !.kin.wheels = [p \in Position \ {"back_left"} |-> p]],
   [f EXCEPT !.kin.wheels = [p \in Position \cup {"middle"} |-> "front_left"]],
   [f EXCEPT !.kin.wheels = [p \in Position |-> IF p = "back_left" THEN "front_left" ELSE p]],
   [f EXCEPT !.kin.wheels = [p \in Position |-> IF p = "back_left" THEN "arm" ELSE p]],
   [f EXCEPT !.kin.wheels = [p \in Position |-> IF p = "back_left" THEN "front_right" ELSE p]],
   [f EXCEPT !.sensor = "lidar"],
   [f EXCEPT !.drivers = [d \in {"main", "aux"} |-> [kind |-> "sim", port |-> FALSE]]]}
  \cup UNION {{[f EXCEPT !.joints[i].bus = 0], [f EXCEPT !.joints[i].bus = 2],
               [f EXCEPT !.joints[i].bus = 300], [f EXCEPT !.joints[i].bus = 8],
               [f EXCEPT !.joints[i].name = "back_right"], [f EXCEPT !.joints[i].driver = "aux"],
               [f EXCEPT !.joints[i].type = "prismatic"], [f EXCEPT !.joints[i].own = "platfrom"],
               [f EXCEPT !.joints[i].own = IF @ = "module" THEN "platform" ELSE "module"],
               [f EXCEPT !.joints[i].invert = ~@], [f EXCEPT !.joints[i].iface = {"torque"}],
               [f EXCEPT !.joints[i].limits = {}]} : i \in DOMAIN f.joints \cap {1, 5}}

JointsOf(f) == Range(f.joints)

-----------------------------------------------------------------------------
(* The Go parser. *)

\* The bounds the platform itself enforces.
LimitsDeclared(j) ==
  j.own = "platform" =>
    CASE j.type = "wheel" -> "velocity" \in j.limits
      [] OTHER -> {"min", "max"} \subseteq j.limits

validateJoints(f) ==
  /\ \A i, k \in DOMAIN f.joints : i /= k =>
       /\ f.joints[i].name /= f.joints[k].name
       /\ f.joints[i].driver = f.joints[k].driver => f.joints[i].bus /= f.joints[k].bus
  /\ \A j \in JointsOf(f) :
       /\ j.driver \in DOMAIN f.drivers
       /\ j.type \in {"wheel", "revolute", "gripper"}
       /\ j.own \in {"platform", "module"}
       /\ j.iface \subseteq {"position", "velocity", "effort"}
       /\ LimitsDeclared(j)

WheelsNameWheels(f) ==
  \A p \in Position : /\ p \in DOMAIN f.kin.wheels
                      /\ \E j \in JointsOf(f) : j.name = f.kin.wheels[p] /\ j.type = "wheel"

KinematicsUsable(f) == f.kin.there /\ f.kin.model = "diff_drive" /\ f.kin.radius > 0 /\ f.kin.track > 0

validateKinematics(f) ==
  IF f.class = "fixed_base" THEN ~f.kin.there
  ELSE KinematicsUsable(f) /\ WheelsNameWheels(f) /\ DOMAIN f.kin.wheels \subseteq Position

DriversKnown(f) ==
  \A d \in DOMAIN f.drivers : /\ f.drivers[d].kind \in {"sts3215", "sim"}
                              /\ f.drivers[d].kind = "sts3215" => f.drivers[d].port

HeaderKnown(f) == f.schema = 1 /\ f.id /= "" /\ f.class \in {"diff_drive_rover", "fixed_base"}

validate(f) ==
  /\ HeaderKnown(f) /\ DriversKnown(f) /\ validateJoints(f) /\ validateKinematics(f)
  /\ f.sensor \in {"imu", "gps", "camera"}

\* Parse: a key no field takes is an error; Load: so is a file that is not there.
Load(f) == f /= Missing /\ ~f.extra /\ validate(f)

\* The first joint of that name, and the first with that id.
BusIDFor(f, name) == f.joints[SelectInSeq(f.joints, LAMBDA j : j.name = name)].bus
NameForBusID(f, driver, id) ==
  f.joints[SelectInSeq(f.joints, LAMBDA j : j.driver = driver /\ j.bus = id)].name

PlatformOwnedBusIDs(f) == {j.bus : j \in {k \in JointsOf(f) : k.own = "platform"}}

Side(pos, vx, wz, track) ==
  IF pos \in {"front_right", "back_right"} THEN vx + (wz * track) \div 2 ELSE vx - (wz * track) \div 2

\* Ranging over a map: of two positions with one joint either may be the last.
WheelSpeeds(f, vx, wz) ==
  LET invert(n) == \E j \in JointsOf(f) : j.name = n /\ j.invert
      at(p) == LET w == Side(p, vx, wz, f.kin.track) \div f.kin.radius
               IN  IF invert(f.kin.wheels[p]) THEN -w ELSE w
  IN  [n \in Range(f.kin.wheels) |-> {at(p) : p \in {q \in DOMAIN f.kin.wheels : f.kin.wheels[q] = n}}]

-----------------------------------------------------------------------------
(* The core's parser and what it builds. *)

parseJoint(j) == j.bus \in 1 .. 253

\* Descriptor::parse: keys it does not know are not looked at.
parse(f) ==
  /\ HeaderKnown(f) /\ DriversKnown(f)
  /\ f.joints /= <<>>
  /\ \A j \in JointsOf(f) : parseJoint(j) /\ j.driver \in DOMAIN f.drivers
  /\ \A i, k \in DOMAIN f.joints : i /= k =>
       /\ f.joints[i].name /= f.joints[k].name
       /\ f.joints[i].driver = f.joints[k].driver => f.joints[i].bus /= f.joints[k].bus
  /\ IF f.class = "fixed_base" THEN ~f.kin.there ELSE KinematicsUsable(f) /\ WheelsNameWheels(f)

platformOwnedBusIds(f) == {j.bus : j \in {k \in JointsOf(f) : k.own = "platform"}}

\* desc->drivers.begin(): the map is ordered by name.
FirstDriver(f) == IF "aux" \in DOMAIN f.drivers THEN "aux" ELSE "main"

\* Sts3215Driver: the joints of one driver.
Info(f) == {j \in JointsOf(f) : j.driver = FirstDriver(f)}

\* wheelId: *id of an empty optional has no defined value.
wheelId(f, pos, junk) ==
  IF \E j \in Info(f) : j.name = f.kin.wheels[pos]
    THEN (CHOOSE j \in Info(f) : j.name = f.kin.wheels[pos]).bus ELSE junk

bodyToWheels(f, pos, vx, wz) == Side(pos, vx, wz, f.kin.track) \div f.kin.radius

\* writeCommands: ids that are not joints are dropped, and of two commands to one
\* servo the last stays.
writeCommands(f, wheels, vx, wz, old) ==
  LET speed(j) ==
        LET p == wheelPositions[SelectLastInSeq(wheelPositions, LAMBDA q : wheels[q] = j.bus)]
            w == bodyToWheels(f, p, vx, wz)
        IN  IF j.invert THEN -w ELSE w
      written == {j \in Info(f) : \E p \in Position : wheels[p] = j.bus}
  IN  [id \in DOMAIN old |-> IF \E j \in written : j.bus = id
                               THEN speed(CHOOSE j \in written : j.bus = id) ELSE old[id]]

-----------------------------------------------------------------------------
Servo == {0, 1, 2, 7, 8, 9, 10, 300}
Still == [s \in Servo |-> 0]
Twist == {<<3, 1>>}   \* the wheels of the two sides turn at two speeds
Unread == [file |-> Missing, deny |-> {}]
Down == [file |-> Missing, wheels |-> [p \in Position |-> 0]]

Init == /\ data \in {Missing, Rover} /\ baked \in {Missing, Rover}
        /\ edits = 0 /\ agent = Unread /\ core = Down /\ moved = {} /\ turned = Still

\* A bound: a file that neither parser takes is not edited on.
Edit ==
  /\ edits < MaxEdits /\ data /= Missing /\ (Load(data) \/ parse(data))
  /\ data' \in Edited(data) \ {data} /\ edits' = edits + 1
  /\ UNCHANGED <<baked, agent, core, moved, turned>>

\* loadDenyIDs: the first path that parses; the fixed set when none does.
loadDenyIDs ==
  /\ agent' = IF Load(data) THEN [file |-> data, deny |-> PlatformOwnedBusIDs(data)]
              ELSE IF Load(baked) THEN [file |-> baked, deny |-> PlatformOwnedBusIDs(baked)]
              ELSE [file |-> Missing, deny |-> {7, 8, 9, 10}]
  /\ UNCHANGED <<data, baked, edits, core, moved, turned>>

\* main: the first file that is there, valid or not.  A core that does not
\* parse it exits.
Main ==
  LET f == IF data /= Missing THEN data ELSE baked
  IN  /\ \/ /\ f /= Missing /\ parse(f)
            /\ \E junk \in {0, 1} :
                 core' = [file |-> f, wheels |-> [p \in Position |-> IF f.kin.there THEN wheelId(f, p, junk) ELSE 0]]
         \/ /\ (f = Missing \/ ~parse(f)) /\ core' = Down
      /\ moved' = {} /\ turned' = Still
      /\ UNCHANGED <<data, baked, edits, agent>>

\* The servos of a command that reach the bus: the broker drops the ones on the
\* agent's deny-list, handleSync and handleControl the ones on the core's.
Passed(ids) == {id \in ids \ agent.deny : id \in 1 .. 12 /\ id \notin platformOwnedBusIds(core.file)}

\* A module's sync write that names every servo.
Sync ==
  /\ agent /= Unread /\ core /= Down
  /\ moved' = moved \cup Passed(Servo)
  /\ UNCHANGED <<data, baked, edits, agent, core, turned>>

\* The drive controller's tick: only where the descriptor declares a drive.
Drive(t) ==
  /\ core /= Down /\ core.file.kin.there
  /\ turned' = writeCommands(core.file, core.wheels, t[1], t[2], turned)
  /\ UNCHANGED <<data, baked, edits, agent, core, moved>>

Next ==
  \/ Edit \/ loadDenyIDs \/ Main \/ Sync
  \/ \E t \in Twist : Drive(t)

Spec == Init /\ [][Next]_vars

-----------------------------------------------------------------------------
TypeOK ==
  /\ edits \in 0 .. MaxEdits /\ baked \in {Missing, Rover}
  /\ agent.deny \subseteq Servo /\ moved \subseteq Servo /\ core.wheels \in [Position -> Servo]

\* A wheel two positions name.
Shared(f) == \E p, q \in DOMAIN f.kin.wheels : p /= q /\ f.kin.wheels[p] = f.kin.wheels[q]

\* The wheels are joints of the driver the core takes.
OnFirst(f) == \A p \in Position : \E j \in Info(f) : j.name = f.kin.wheels[p]

\* A file that both parsers accept is the same robot to both: its platform-owned
\* servos, and for every twist the speeds written, wherever each wheel has one
\* position and is a joint of the first driver.
SameRobot ==
  Load(data) /\ parse(data) =>
    /\ PlatformOwnedBusIDs(data) = platformOwnedBusIds(data)
    /\ data.kin.there /\ ~Shared(data) /\ OnFirst(data) => \A t \in Twist :
         LET wheels == [p \in Position |-> wheelId(data, p, 0)]
             core1 == writeCommands(data, wheels, t[1], t[2], Still)
             go == WheelSpeeds(data, t[1], t[2])
         IN  \A p \in Position : go[data.kin.wheels[p]] = {core1[BusIDFor(data, data.kin.wheels[p])]}

\* The servo ids and the joint names of a file the Go parser accepts name each
\* other.
NamesInvert ==
  Load(data) => \A j \in JointsOf(data) : NameForBusID(data, j.driver, BusIDFor(data, j.name)) = j.name

\* The two enforcers of ownership have one deny-list whenever they run on the
\* same file, and no command of a module reaches a servo that the core's file
\* gives to the platform, whatever file the agent fell back to.
OwnersAreKept ==
  /\ (agent /= Unread /\ core /= Down /\ agent.file = core.file)
        => agent.deny = platformOwnedBusIds(core.file)
  /\ core /= Down => \A j \in JointsOf(core.file) : j.own = "platform" => j.bus \notin moved

\* The drive turns wheels only, and no wheel it turns answers to a module too,
\* unless the file says so, the driver the core takes is not the wheels' own, or
\* the owner is a word that only the Go parser refuses.
WheelsAreDriven ==
  (core /= Down /\ core.file.kin.there /\ OnFirst(core.file)) =>
    \A j \in JointsOf(core.file) :
      /\ turned[j.bus] /= 0 => j.type = "wheel" \/ j.driver /= FirstDriver(core.file)
      /\ (turned[j.bus] /= 0 /\ j.bus \in moved) =>
           \E k \in JointsOf(core.file) : k.bus = j.bus /\ k.own /= "platform"

\* What the core runs on and the agent would refuse is one of these, and the
\* other way round.
ParsersAgree ==
  (data /= Missing /\ Load(data) /= parse(data)) =>
    \/ parse(data) /\ (\/ data.extra \/ data.sensor = "lidar"
                       \/ data.kin.there /\ ~(DOMAIN data.kin.wheels \subseteq Position)
                       \/ \E j \in JointsOf(data) : \/ j.type = "prismatic" \/ j.own = "platfrom"
                                                    \/ j.iface = {"torque"} \/ ~LimitsDeclared(j))
    \/ Load(data) /\ (data.joints = <<>> \/ \E j \in JointsOf(data) : j.bus \notin 1 .. 253)
=============================================================================
