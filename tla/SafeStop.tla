------------------------------ MODULE SafeStop ------------------------------
(***************************************************************************)
(* The control daemon waypoint-core (core/src): the mode machine, the      *)
(* heartbeat watchdog, the drive-command watchdog, the drive controller    *)
(* and the servo registers they write, as the two threads of the process   *)
(* execute them:                                                           *)
(*                                                                         *)
(*   Loop    the main thread: the boot-time disarm, then the control loop; *)
(*   Reader  the NATS reader thread, which runs one message handler at a   *)
(*           time, to completion.                                          *)
(*                                                                         *)
(* Neither the mode machine nor the drive controller takes a lock, so a    *)
(* step here is one access to a shared member, or one servo bus            *)
(* transaction (the bus mutex is held for one transaction).  A servo keeps *)
(* its last GOAL_SPEED when the process dies.                              *)
(***************************************************************************)
EXTENDS Integers

CONSTANTS
  NWheels,      \* drive wheels, written in the order 1 .. NWheels
  NModule,      \* wheel servos that belong to modules
  Speeds,       \* body targets and wheel speeds; 0 is standstill
  LossyBus,     \* whether a bus write may be lost (its result is ignored)
  MaxRestarts   \* bound on the restarts of the process

ASSUME CountAssumption == NWheels \in Nat \ {0} /\ NModule \in Nat /\ MaxRestarts \in Nat
ASSUME SpeedAssumption == 0 \in Speeds
ASSUME LossyAssumption == LossyBus \in BOOLEAN

Loop   == "loop"
Reader == "reader"
Thread == {Loop, Reader}

Wheel       == 1 .. NWheels
ModuleWheel == NWheels + 1 .. NWheels + NModule
Servo       == 1 .. NWheels + NModule

Mode      == {"Manual", "Safe", "Estop", "Autonomous"}
Actuating == {"Manual", "Autonomous"}

VARIABLES
  mode,         \* ModeMachine::mode_
  heartbeatOk,  \* ModeMachine::heartbeatOk_
  wd,           \* Watchdog: "idle" (not alive_), "fresh", "expired" (since > timeout_)
  driveSafety,  \* DriveSafety: the same, for drive commands
  armed,        \* DriveController::armed_
  target,       \* DriveController::target_
  desired,      \* the wheel speed computed by the tick in progress
  speed,        \* GOAL_SPEED latched in every wheel-mode servo
  torque,       \* TORQUE_ENABLE of every servo
  pc,           \* the next step of every thread
  to,           \* the mode a thread is switching to
  arg,          \* the speed carried by the message being handled
  id,           \* the servo a thread's next bus transaction addresses
  booted,       \* whether the main thread has reached the control loop
  restarts,     \* restarts so far
  late          \* history: the last disarm met a tick that was still writing

modeVars  == <<mode, heartbeatOk>>
dogVars   == <<wd, driveSafety>>
driveVars == <<armed, target, desired>>
servoVars == <<speed, torque>>
vars == <<modeVars, dogVars, driveVars, servoVars,
          pc, to, arg, id, booted, restarts, late>>

(* The steps of ModeMachine::transition and of the onChange callback, which *)
(* either thread can be in.                                                *)
ChangePc == {"set", "clear", "arm", "zero", "torque", "modZero", "modTorque"}
LoopPc   == ChangePc \cup {"auxTorque", "wd", "lost", "lostClear", "stale",
                           "staleClear", "tick", "write"}
ReaderPc == ChangePc \cup {"idle", "hbOk", "driveSet", "driveKick", "servoSet"}

TypeOK ==
  /\ mode \in Mode
  /\ heartbeatOk \in BOOLEAN
  /\ wd \in {"idle", "fresh", "expired"}
  /\ driveSafety \in {"idle", "fresh", "expired"}
  /\ armed \in BOOLEAN
  /\ target \in Speeds
  /\ desired \in Speeds
  /\ speed \in [Servo -> Speeds]
  /\ torque \in [Servo -> BOOLEAN]
  /\ pc \in [Thread -> LoopPc \cup ReaderPc]
  /\ pc[Loop] \in LoopPc /\ pc[Reader] \in ReaderPc
  /\ to \in [Thread -> Mode]
  /\ arg \in Speeds
  /\ id \in [Thread -> 1 .. NWheels + NModule + 1]
  /\ booted \in BOOLEAN
  /\ restarts \in 0 .. MaxRestarts
  /\ late \in BOOLEAN

-----------------------------------------------------------------------------
(* The servo bus.  Writing v to register reg of servo s: a transaction that *)
(* fails leaves the register as it was, and no caller looks at the result.  *)

Exchange(reg, s, v) ==
  {[reg EXCEPT ![s] = v]} \cup {r \in {reg} : LossyBus}

SetGoalSpeed(s, v) == speed' \in Exchange(speed, s, v)

SetTorqueEnable(s, on) == torque' \in Exchange(torque, s, on)

-----------------------------------------------------------------------------
(* A process that has just subscribed to its subjects: the reader thread    *)
(* may already deliver messages, the main thread is about to disarm.        *)
BootPc == [t \in Thread |-> IF t = Loop THEN "arm" ELSE "idle"]

(* Servos power up at standstill; some clones with torque enabled.          *)
Init ==
  /\ mode = "Safe" /\ heartbeatOk = FALSE
  /\ wd = "idle" /\ driveSafety = "idle"
  /\ armed = FALSE /\ target = 0 /\ desired = 0
  /\ speed = [s \in Servo |-> 0]
  /\ \E on \in BOOLEAN : torque = [s \in Servo |-> on]
  /\ pc = BootPc
  /\ to = [t \in Thread |-> "Safe"]
  /\ arg = 0
  /\ id = [t \in Thread |-> 1]
  /\ booted = FALSE
  /\ restarts = 0
  /\ late = FALSE

(* The process dies at any point and is started again: all its memory is    *)
(* new, the servo registers are not.                                        *)
Restart ==
  /\ restarts < MaxRestarts
  /\ restarts' = restarts + 1
  /\ mode' = "Safe" /\ heartbeatOk' = FALSE
  /\ wd' = "idle" /\ driveSafety' = "idle"
  /\ armed' = FALSE /\ target' = 0 /\ desired' = 0
  /\ pc' = BootPc
  /\ to' = [t \in Thread |-> "Safe"]
  /\ arg' = 0
  /\ id' = [t \in Thread |-> 1]
  /\ booted' = FALSE
  /\ late' = FALSE
  /\ UNCHANGED servoVars

-----------------------------------------------------------------------------
(* ModeMachine::transition and the onChange callback, run by thread t.      *)

(* Where thread t goes when the callback returns.                           *)
Caller(t) == IF t = Reader THEN "idle" ELSE "lostClear"

Goto(t, label) == pc' = [pc EXCEPT ![t] = label]

Set(t) ==
  /\ pc[t] = "set"
  /\ IF mode = to[t]
       THEN Goto(t, Caller(t)) /\ UNCHANGED mode
       ELSE Goto(t, "clear") /\ mode' = to[t]
  /\ UNCHANGED <<heartbeatOk, dogVars, driveVars, servoVars,
                 to, arg, id, booted, restarts, late>>

(* "the old authority's last command must not keep driving"                 *)
Clear(t) ==
  /\ pc[t] = "clear"
  /\ target' = 0
  /\ Goto(t, "arm")
  /\ UNCHANGED <<modeVars, dogVars, armed, desired, servoVars,
                 to, arg, id, booted, restarts, late>>

(* Variant: disarming relies on torque-off alone.                           *)
ArmTorqueOnly(t) ==
  /\ pc[t] = "arm"
  /\ armed' = (to[t] \in Actuating)
  /\ target' = IF to[t] \in Actuating THEN target ELSE 0
  /\ id' = [id EXCEPT ![t] = 1]
  /\ Goto(t, "torque")
  /\ UNCHANGED <<modeVars, dogVars, desired, servoVars, to, arg, booted, restarts, late>>

(* DriveController::setArmed, called by armDrive.                           *)
Arm(t) ==
  /\ pc[t] = "arm"
  /\ IF to[t] \in Actuating
       THEN armed' = TRUE /\ Goto(t, "torque") /\ UNCHANGED <<target, late>>
       ELSE /\ armed' = FALSE /\ target' = 0 /\ Goto(t, "zero")
            /\ late' = (t = Reader /\ pc[Loop] = "write")
  /\ id' = [id EXCEPT ![t] = 1]
  /\ UNCHANGED <<modeVars, dogVars, desired, servoVars, to, arg, booted, restarts>>

(* armDrive, disarming: one zero-speed write per wheel.                     *)
Zero(t) ==
  /\ pc[t] = "zero"
  /\ SetGoalSpeed(id[t], 0)
  /\ id' = [id EXCEPT ![t] = IF @ = NWheels THEN 1 ELSE @ + 1]
  /\ Goto(t, IF id[t] = NWheels THEN "torque" ELSE "zero")
  /\ UNCHANGED <<modeVars, dogVars, driveVars, torque, to, arg, booted, restarts, late>>

(* What follows armDrive: the sweep of the module wheels on an e-stop, the  *)
(* torque-off of every other servo at boot, or nothing.                     *)
AfterArm(t) ==
  CASE ~booted /\ t = Loop -> IF NModule > 0 THEN "auxTorque" ELSE "wd"
    [] to[t] = "Estop" /\ NModule > 0 -> "modZero"
    [] OTHER -> Caller(t)

(* armDrive: the torque of every wheel.                                     *)
Torque(t) ==
  /\ pc[t] = "torque"
  /\ SetTorqueEnable(id[t], to[t] \in Actuating)
  /\ id' = [id EXCEPT ![t] = @ + 1]
  /\ Goto(t, IF id[t] = NWheels THEN AfterArm(t) ELSE "torque")
  /\ booted' = IF id[t] = NWheels /\ t = Loop /\ NModule = 0 THEN TRUE ELSE booted
  /\ UNCHANGED <<modeVars, dogVars, driveVars, speed, to, arg, restarts, late>>

ModZero(t) ==
  /\ pc[t] = "modZero"
  /\ SetGoalSpeed(id[t], 0)
  /\ Goto(t, "modTorque")
  /\ UNCHANGED <<modeVars, dogVars, driveVars, torque, to, arg, id, booted, restarts, late>>

(* Variant: the sweep runs one servo past the last.                         *)
ModTorqueTooFar(t) ==
  /\ pc[t] = "modTorque"
  /\ id' = [id EXCEPT ![t] = @ + 1]
  /\ Goto(t, IF id[t] > NWheels + NModule THEN Caller(t) ELSE "modTorque")
  /\ UNCHANGED <<modeVars, dogVars, driveVars, servoVars, to, arg, booted, restarts, late>>


ModTorque(t) ==
  /\ pc[t] = "modTorque"
  /\ SetTorqueEnable(id[t], FALSE)
  /\ IF id[t] = NWheels + NModule
       THEN Goto(t, Caller(t)) /\ UNCHANGED id
       ELSE Goto(t, "modZero") /\ id' = [id EXCEPT ![t] = @ + 1]
  /\ UNCHANGED <<modeVars, dogVars, driveVars, speed, to, arg, booted, restarts, late>>

Change(t) ==
  Set(t) \/ Clear(t) \/ Arm(t) \/ Zero(t) \/ Torque(t) \/ ModZero(t) \/ ModTorque(t)

-----------------------------------------------------------------------------
(* The main thread.                                                         *)

(* The boot sequence ends by dropping the torque of every non-drive servo.  *)
AuxTorque ==
  /\ pc[Loop] = "auxTorque"
  /\ SetTorqueEnable(id[Loop], FALSE)
  /\ IF id[Loop] = NWheels + NModule
       THEN Goto(Loop, "wd") /\ booted' = TRUE /\ UNCHANGED id
       ELSE id' = [id EXCEPT ![Loop] = @ + 1] /\ UNCHANGED <<pc, booted>>
  /\ UNCHANGED <<modeVars, dogVars, driveVars, speed, to, arg, restarts, late>>

(* Watchdog::tickAndCheck: true once, when the last kick is too old.        *)
CheckHeartbeat ==
  /\ pc[Loop] = "wd"
  /\ IF wd = "expired"
       THEN wd' = "idle" /\ Goto(Loop, "lost")
       ELSE Goto(Loop, "stale") /\ UNCHANGED wd
  /\ UNCHANGED <<modeVars, driveSafety, driveVars, servoVars,
                 to, arg, id, booted, restarts, late>>

(* ModeMachine::onHeartbeatLost, up to its call of transition.              *)
OnHeartbeatLost ==
  /\ pc[Loop] = "lost"
  /\ heartbeatOk' = FALSE
  /\ to' = [to EXCEPT ![Loop] = "Safe"]
  /\ Goto(Loop, IF mode \in Actuating THEN "set" ELSE "lostClear")
  /\ UNCHANGED <<mode, dogVars, driveVars, servoVars, arg, id, booted, restarts, late>>

ClearTarget(from, next) ==
  /\ pc[Loop] = from
  /\ target' = 0
  /\ Goto(Loop, next)
  /\ UNCHANGED <<modeVars, dogVars, armed, desired, servoVars,
                 to, arg, id, booted, restarts, late>>

(* Variant: the stale stream is noticed and the target kept.                *)
CheckStaleKeeps ==
  /\ pc[Loop] = "stale"
  /\ driveSafety' = IF driveSafety = "expired" THEN "idle" ELSE driveSafety
  /\ Goto(Loop, "tick")
  /\ UNCHANGED <<modeVars, wd, driveVars, servoVars, to, arg, id, booted, restarts, late>>


CheckStale ==
  /\ pc[Loop] = "stale"
  /\ IF driveSafety = "expired"
       THEN driveSafety' = "idle" /\ Goto(Loop, "staleClear")
       ELSE Goto(Loop, "tick") /\ UNCHANGED driveSafety
  /\ UNCHANGED <<modeVars, wd, driveVars, servoVars, to, arg, id, booted, restarts, late>>

(* DriveController::tick: a snapshot of the target, if armed.               *)
Tick ==
  /\ pc[Loop] = "tick"
  /\ IF armed
       THEN desired' = target /\ id' = [id EXCEPT ![Loop] = 1] /\ Goto(Loop, "write")
       ELSE Goto(Loop, "wd") /\ UNCHANGED <<desired, id>>
  /\ UNCHANGED <<modeVars, dogVars, armed, target, servoVars, to, arg, booted, restarts, late>>

(* A pass of the 5 ms loop in which the 20 ms tick is not due.              *)
NotDue ==
  /\ pc[Loop] = "tick"
  /\ Goto(Loop, "wd")
  /\ UNCHANGED <<modeVars, dogVars, driveVars, servoVars, to, arg, id, booted, restarts, late>>

(* Sts3215Driver::writeCommands of the tick: one goal speed per wheel.      *)
Write ==
  /\ pc[Loop] = "write"
  /\ SetGoalSpeed(id[Loop], desired)
  /\ IF id[Loop] = NWheels
       THEN Goto(Loop, "wd") /\ desired' = 0 /\ UNCHANGED id
       ELSE id' = [id EXCEPT ![Loop] = @ + 1] /\ UNCHANGED <<pc, desired>>
  /\ UNCHANGED <<modeVars, dogVars, armed, target, torque, to, arg, booted, restarts, late>>

LoopStep ==
  \/ Change(Loop) \/ AuxTorque \/ CheckHeartbeat \/ OnHeartbeatLost
  \/ ClearTarget("lostClear", "stale") \/ CheckStale \/ ClearTarget("staleClear", "tick")
  \/ Tick \/ NotDue \/ Write

-----------------------------------------------------------------------------
(* The reader thread.  A message that a handler refuses changes nothing.    *)

(* infra.heartbeat: Watchdog::kick, then ModeMachine::onHeartbeatRestored.  *)
OnHeartbeat ==
  /\ pc[Reader] = "idle"
  /\ wd' = "fresh"
  /\ Goto(Reader, "hbOk")
  /\ UNCHANGED <<modeVars, driveSafety, driveVars, servoVars,
                 to, arg, id, booted, restarts, late>>

OnHeartbeatRestored ==
  /\ pc[Reader] = "hbOk"
  /\ heartbeatOk' = TRUE
  /\ Goto(Reader, "idle")
  /\ UNCHANGED <<mode, dogVars, driveVars, servoVars, to, arg, id, booted, restarts, late>>

(* Variant: commands are taken in every mode.                               *)
OnDriveAnyMode(v) ==
  /\ pc[Reader] = "idle"
  /\ arg' = v
  /\ Goto(Reader, "driveSet")
  /\ UNCHANGED <<modeVars, dogVars, driveVars, servoVars, to, id, booted, restarts, late>>

(* cmd.drive: the mode is checked, then the target set, then the watchdog   *)
(* kicked.                                                                  *)
OnDrive(v) ==
  /\ pc[Reader] = "idle"
  /\ mode \in Actuating
  /\ arg' = v
  /\ Goto(Reader, "driveSet")
  /\ UNCHANGED <<modeVars, dogVars, driveVars, servoVars, to, id, booted, restarts, late>>

(* Variant: the command watchdog is not kicked.                             *)
DriveSetNoKick ==
  /\ pc[Reader] = "driveSet"
  /\ target' = arg
  /\ Goto(Reader, "idle")
  /\ UNCHANGED <<modeVars, dogVars, armed, desired, servoVars,
                 to, arg, id, booted, restarts, late>>


DriveSet ==
  /\ pc[Reader] = "driveSet"
  /\ target' = arg
  /\ Goto(Reader, "driveKick")
  /\ UNCHANGED <<modeVars, dogVars, armed, desired, servoVars,
                 to, arg, id, booted, restarts, late>>

DriveKick ==
  /\ pc[Reader] = "driveKick"
  /\ driveSafety' = "fresh"
  /\ arg' = 0
  /\ Goto(Reader, "idle")
  /\ UNCHANGED <<modeVars, wd, driveVars, servoVars, to, id, booted, restarts, late>>

(* rpc.set_mode, rpc.estop and rpc.recover, up to the call of transition.   *)
Request(m) ==
  /\ pc[Reader] = "idle"
  /\ to' = [to EXCEPT ![Reader] = m]
  /\ Goto(Reader, "set")
  /\ UNCHANGED <<modeVars, dogVars, driveVars, servoVars, arg, id, booted, restarts, late>>

OnSetMode(m) ==
  /\ mode # "Estop"
  /\ m \in Actuating => heartbeatOk
  /\ Request(m)

OnEstop == Request("Estop")

OnRecover == mode = "Estop" /\ Request("Safe")

(* Variant: no e-stop gate.                                                 *)
OnServoUngated(s, v) ==
  /\ pc[Reader] = "idle"
  /\ id' = [id EXCEPT ![Reader] = s]
  /\ arg' = v
  /\ Goto(Reader, "servoSet")
  /\ UNCHANGED <<modeVars, dogVars, driveVars, servoVars, to, booted, restarts, late>>

(* cmd.servo with a goal velocity for a module wheel: refused in Estop.     *)
OnServo(s, v) ==
  /\ pc[Reader] = "idle"
  /\ mode # "Estop"
  /\ id' = [id EXCEPT ![Reader] = s]
  /\ arg' = v
  /\ Goto(Reader, "servoSet")
  /\ UNCHANGED <<modeVars, dogVars, driveVars, servoVars, to, booted, restarts, late>>

ServoSet ==
  /\ pc[Reader] = "servoSet"
  /\ SetGoalSpeed(id[Reader], arg)
  /\ arg' = 0
  /\ Goto(Reader, "idle")
  /\ UNCHANGED <<modeVars, dogVars, driveVars, torque, to, id, booted, restarts, late>>

ReaderStep ==
  \/ Change(Reader) \/ OnHeartbeat \/ OnHeartbeatRestored
  \/ (\E v \in Speeds : OnDrive(v)) \/ DriveSet \/ DriveKick
  \/ (\E m \in Mode \ {"Estop"} : OnSetMode(m)) \/ OnEstop \/ OnRecover
  \/ (\E s \in ModuleWheel, v \in Speeds : OnServo(s, v)) \/ ServoSet

-----------------------------------------------------------------------------
(* Time: a kick becomes older than the watchdog's timeout.                  *)

HeartbeatAges ==
  /\ wd = "fresh" /\ wd' = "expired"
  /\ UNCHANGED <<modeVars, driveSafety, driveVars, servoVars,
                 pc, to, arg, id, booted, restarts, late>>

CommandAges ==
  /\ driveSafety = "fresh" /\ driveSafety' = "expired"
  /\ UNCHANGED <<modeVars, wd, driveVars, servoVars,
                 pc, to, arg, id, booted, restarts, late>>

Next == LoopStep \/ ReaderStep \/ HeartbeatAges \/ CommandAges \/ Restart

Spec == Init /\ [][Next]_vars

(* Both threads are scheduled, a handler that has begun finishes, time      *)
(* passes, and next50 += 20ms makes the tick due in every fourth pass.      *)
Fairness ==
  /\ WF_vars(LoopStep) /\ SF_vars(Tick)
  /\ WF_vars(pc[Reader] # "idle" /\ ReaderStep)
  /\ WF_vars(HeartbeatAges) /\ WF_vars(CommandAges)

FairSpec == Spec /\ Fairness

-----------------------------------------------------------------------------
(* Properties.                                                              *)

Changing(t) == pc[t] \in ChangePc

(* No thread is inside a mode change and the boot sequence is over.         *)
Settled == booted /\ \A t \in Thread : ~Changing(t)

(* Whatever the two threads interleave, the controller holds a nonzero      *)
(* target while armed only in Manual or Autonomous: outside them every tick *)
(* writes standstill or nothing.  (onChange clears the target before it     *)
(* arms, and cmd.drive is handled by the thread that switches modes.)       *)
NoDriveOutsideAuthority ==
  Settled /\ armed /\ target # 0 => mode \in Actuating

(* The inductive strengthening of NoDriveOutsideAuthority: while a mode     *)
(* change is under way, some thread has yet to clear the target or disarm.  *)
AuthorityInv ==
  /\ to[Loop] = "Safe"                      \* the loop never arms
  /\ pc[Reader] = "arm" => target = 0       \* what arms starts from standstill
  /\ pc[Reader] = "driveSet" /\ armed /\ mode \notin Actuating
       => pc[Loop] \in {"clear", "arm"}     \* a late command meets the loop's disarm
  /\ armed /\ target # 0 /\ mode \notin Actuating
       => pc[Reader] = "clear" \/ pc[Loop] \in {"clear", "arm"}

(* Every bus transaction of a sequence addresses a servo of the group the   *)
(* sequence is for, whichever thread runs it.                               *)
BusInv ==
  \A t \in Thread :
    /\ pc[t] \in {"zero", "torque", "write"} => id[t] \in Wheel
    /\ pc[t] \in {"modZero", "modTorque", "auxTorque", "servoSet"} => id[t] \in ModuleWheel

(* Outside Manual and Autonomous every drive wheel is latched at            *)
(* standstill, also after a restart that found the wheels turning, unless   *)
(* the last disarm met a tick between its snapshot and its last write.      *)
WheelsStopped ==
  Settled /\ mode \notin Actuating /\ ~late => \A w \in Wheel : speed[w] = 0

(* Its inductive strengthening.  Stopping(t, w): thread t has yet to write  *)
(* zero to wheel w.                                                         *)
Stopping(t, w) ==
  \/ pc[t] \in {"clear", "arm"} /\ to[t] \notin Actuating
  \/ pc[t] = "zero" /\ w >= id[t]

StopInv ==
  mode \notin Actuating =>
    /\ ~late => \A w \in Wheel : speed[w] = 0 \/ \E t \in Thread : Stopping(t, w)
    /\ pc[Loop] = "write" /\ desired # 0 /\ ~late
         => pc[Reader] \in {"clear", "arm"} /\ to[Reader] \notin Actuating
    /\ pc[Reader] \in {"clear", "arm"} /\ to[Reader] \in Actuating /\ armed
         => pc[Loop] \in {"clear", "arm"}

(* In Estop the module wheels are at standstill: the sweep of onChange      *)
(* stopped them and cmd.servo is refused from then on.                      *)
EstopFreezesModules ==
  Settled /\ mode = "Estop" => \A s \in ModuleWheel : speed[s] = 0

(* Its inductive strengthening: the reader thread alone enters Estop, so no *)
(* accepted cmd.servo is pending in it, and the sweep has stopped every     *)
(* module wheel it has passed.                                              *)
SweepInv ==
  mode = "Estop" =>
    /\ pc[Reader] # "servoSet"
    /\ pc[Reader] \in {"clear", "arm", "zero", "torque", "modZero", "modTorque"}
         => to[Reader] = "Estop"
    /\ pc[Reader] \notin {"clear", "arm", "zero", "torque"} =>
         \A s \in ModuleWheel :
            \/ pc[Reader] = "modZero" /\ s >= id[Reader]
            \/ pc[Reader] = "modTorque" /\ s > id[Reader]
            \/ speed[s] = 0

(* When messages stop arriving (the agent died), the two watchdogs bring    *)
(* every wheel to standstill, unless a disarm met a tick in progress.       *)
AgentDeathStops ==
  <>[](pc[Reader] = "idle") => <>[](late \/ \A w \in Wheel : speed[w] = 0)

(* When drive commands stop while the drive stays armed, the stale check    *)
(* zeroes the target and the next tick stops the wheels; no order of the    *)
(* handler's steps and the check leaves a target that nothing will clear.   *)
StaleStreamStops ==
  <>[](pc[Reader] # "driveSet" /\ armed) => <>[](\A w \in Wheel : speed[w] = 0)

\* A comment of ModeMachine.cpp that two threads without a lock do not keep: "Cannot
\* leave estop except via explicit recover."  onHeartbeatLost has seen Manual when the
\* e-stop is stored, and then stores Safe over it.
EstopIsLatched ==
  [][mode = "Estop" /\ mode' # "Estop" => pc[Reader] = "set" /\ pc'[Reader] # "set"]_vars
=============================================================================
