--------------------------- MODULE SafeStopProofs ---------------------------
(***************************************************************************)
(* Proofs about SafeStop, for any number of wheels, module wheels, speeds  *)
(* and restarts.                                                           *)
(***************************************************************************)
EXTENDS SafeStop, TLAPS

USE DEF Thread, Loop, Reader, modeVars, dogVars, driveVars, servoVars

-----------------------------------------------------------------------------
(* Types, and the servo a bus transaction addresses.                        *)

TypeInv == TypeOK /\ BusInv

LEMMA TypeInit == Init => TypeInv
<1> SUFFICES ASSUME Init PROVE TypeInv
  OBVIOUS
<1>1. {heartbeatOk, armed, booted, late} \subseteq BOOLEAN
  BY Zenon DEF Init
<1>2. torque \in [Servo -> BOOLEAN]
  BY DEF Init
<1> QED
  BY <1>1, <1>2, CountAssumption, SpeedAssumption
  DEF Init, BootPc, TypeInv, TypeOK, BusInv, Wheel, ModuleWheel, Servo,
      Mode, ChangePc, LoopPc, ReaderPc

(* The mode change keeps the types, whichever thread runs it.               *)
LEMMA TypeChange ==
  ASSUME TypeInv, NEW t \in Thread, Change(t)
  PROVE  TypeInv'
<1> USE CountAssumption, SpeedAssumption
    DEF TypeInv, TypeOK, BusInv, Wheel, ModuleWheel, Servo, Mode, Actuating,
        ChangePc, LoopPc, ReaderPc, Goto, Caller
<1>1. CASE Set(t)
  BY <1>1 DEF Set
<1>2. CASE Clear(t)
  BY <1>2 DEF Clear
<1>3. CASE Arm(t)
  <2>1. armed' \in BOOLEAN /\ late' \in BOOLEAN
    BY <1>3, Zenon DEF Arm
  <2> QED
    BY <1>3, <2>1 DEF Arm
<1>4. CASE Zero(t)
  <2>1. speed' \in [Servo -> Speeds]
    BY <1>4 DEF Zero, SetGoalSpeed, Exchange
  <2>2. BusInv' /\ id' \in [Thread -> 1 .. NWheels + NModule + 1]
    <3>1. CASE id[t] = NWheels
      BY <1>4, <3>1 DEF Zero
    <3>2. CASE id[t] # NWheels
      BY <1>4, <3>2 DEF Zero
    <3> QED
      BY <3>1, <3>2
  <2>3. pc' \in [Thread -> LoopPc \cup ReaderPc] /\ pc'[Loop] \in LoopPc /\ pc'[Reader] \in ReaderPc
    BY <1>4 DEF Zero
  <2> QED
    BY <1>4, <2>1, <2>2, <2>3 DEF Zero
<1>5. CASE Torque(t)
  <2>1. torque' \in [Servo -> BOOLEAN]
    <3> DEFINE on == to[t] \in Actuating
    <3>1. on \in BOOLEAN
      OBVIOUS
    <3>2. torque' = [torque EXCEPT ![id[t]] = on] \/ torque' = torque
      BY <1>5, Zenon DEF Torque, SetTorqueEnable, Exchange
    <3> HIDE DEF on
    <3> QED
      BY <3>1, <3>2
  <2>2. booted' \in BOOLEAN
    BY <1>5 DEF Torque
  <2>3. BusInv' /\ id' \in [Thread -> 1 .. NWheels + NModule + 1]
    BY <1>5 DEF Torque, AfterArm
  <2>4. pc' \in [Thread -> LoopPc \cup ReaderPc] /\ pc'[Loop] \in LoopPc /\ pc'[Reader] \in ReaderPc
    BY <1>5 DEF Torque, AfterArm
  <2> QED
    BY <1>5, <2>1, <2>2, <2>3, <2>4 DEF Torque
<1>6. CASE ModZero(t)
  <2>1. speed' \in [Servo -> Speeds]
    BY <1>6 DEF ModZero, SetGoalSpeed, Exchange
  <2> QED
    BY <1>6, <2>1 DEF ModZero
<1>7. CASE ModTorque(t)
  <2>1. torque' \in [Servo -> BOOLEAN]
    BY <1>7 DEF ModTorque, SetTorqueEnable, Exchange
  <2>2. BusInv' /\ id' \in [Thread -> 1 .. NWheels + NModule + 1]
    <3>1. CASE id[t] = NWheels + NModule
      BY <1>7, <3>1 DEF ModTorque
    <3>2. CASE id[t] # NWheels + NModule
      <4>1. id[t] \in ModuleWheel /\ id[t] + 1 \in ModuleWheel
        BY <1>7, <3>2 DEF ModTorque
      <4>2. id' = [id EXCEPT ![t] = id[t] + 1] /\ pc' = [pc EXCEPT ![t] = "modZero"]
        BY <1>7, <3>2, Zenon DEF ModTorque
      <4> QED
        BY <4>1, <4>2
    <3> QED
      BY <3>1, <3>2
  <2> QED
    BY <1>7, <2>1, <2>2 DEF ModTorque
<1> QED
  BY <1>1, <1>2, <1>3, <1>4, <1>5, <1>6, <1>7 DEF Change

LEMMA TypeLoop ==
  ASSUME TypeInv, LoopStep
  PROVE  TypeInv'
<1>0. CASE Change(Loop)
  BY <1>0, TypeChange
<1> USE CountAssumption, SpeedAssumption
    DEF TypeInv, TypeOK, BusInv, Wheel, ModuleWheel, Servo, Mode, Actuating,
        ChangePc, LoopPc, ReaderPc, Goto
<1>1. CASE AuxTorque
  <2>1. booted' \in BOOLEAN
    BY <1>1, Zenon DEF AuxTorque
  <2>2. torque' \in [Servo -> BOOLEAN]
    BY <1>1 DEF AuxTorque, SetTorqueEnable, Exchange
  <2>3. BusInv' /\ id' \in [Thread -> 1 .. NWheels + NModule + 1]
    <3>1. CASE id[Loop] = NWheels + NModule
      BY <1>1, <3>1 DEF AuxTorque
    <3>2. CASE id[Loop] # NWheels + NModule
      BY <1>1, <3>2 DEF AuxTorque
    <3> QED
      BY <3>1, <3>2
  <2> QED
    BY <1>1, <2>1, <2>2, <2>3 DEF AuxTorque
<1>2. CASE CheckHeartbeat
  BY <1>2 DEF CheckHeartbeat
<1>3. CASE OnHeartbeatLost
  <2>1. heartbeatOk' \in BOOLEAN
    BY <1>3, Zenon DEF OnHeartbeatLost
  <2> QED
    BY <1>3, <2>1 DEF OnHeartbeatLost
<1>4. CASE ClearTarget("lostClear", "stale") \/ ClearTarget("staleClear", "tick")
  BY <1>4 DEF ClearTarget
<1>5. CASE CheckStale
  BY <1>5 DEF CheckStale
<1>6. CASE Tick
  BY <1>6 DEF Tick
<1>7. CASE NotDue
  BY <1>7 DEF NotDue
<1>8. CASE Write
  <2>1. speed' \in [Servo -> Speeds]
    BY <1>8 DEF Write, SetGoalSpeed, Exchange
  <2>2. CASE id[Loop] = NWheels
    BY <1>8, <2>1, <2>2 DEF Write
  <2>3. CASE id[Loop] # NWheels
    BY <1>8, <2>1, <2>3 DEF Write
  <2> QED
    BY <2>2, <2>3
<1> QED
  BY <1>0, <1>1, <1>2, <1>3, <1>4, <1>5, <1>6, <1>7, <1>8 DEF LoopStep

LEMMA TypeReader ==
  ASSUME TypeInv, ReaderStep
  PROVE  TypeInv'
<1>0. CASE Change(Reader)
  BY <1>0, TypeChange
<1> USE CountAssumption, SpeedAssumption
    DEF TypeInv, TypeOK, BusInv, Wheel, ModuleWheel, Servo, Mode, Actuating,
        ChangePc, LoopPc, ReaderPc, Goto
<1>1. CASE OnHeartbeat \/ OnHeartbeatRestored
  <2>1. heartbeatOk' \in BOOLEAN
    BY <1>1, Zenon DEF OnHeartbeat, OnHeartbeatRestored
  <2> QED
    BY <1>1, <2>1 DEF OnHeartbeat, OnHeartbeatRestored
<1>2. CASE (\E v \in Speeds : OnDrive(v)) \/ DriveSet \/ DriveKick
  BY <1>2 DEF OnDrive, DriveSet, DriveKick
<1>3. CASE (\E m \in Mode \ {"Estop"} : OnSetMode(m)) \/ OnEstop \/ OnRecover
  BY <1>3 DEF OnSetMode, OnEstop, OnRecover, Request
<1>4. CASE \E s \in ModuleWheel, v \in Speeds : OnServo(s, v)
  BY <1>4 DEF OnServo
<1>5. CASE ServoSet
  BY <1>5 DEF ServoSet, SetGoalSpeed, Exchange
<1> QED
  BY <1>0, <1>1, <1>2, <1>3, <1>4, <1>5 DEF ReaderStep

LEMMA TypeStep == TypeInv /\ [Next]_vars => TypeInv'
<1> SUFFICES ASSUME TypeInv, [Next]_vars PROVE TypeInv'
  OBVIOUS
<1>1. CASE LoopStep
  BY <1>1, TypeLoop
<1>2. CASE ReaderStep
  BY <1>2, TypeReader
<1>3. CASE HeartbeatAges \/ CommandAges
  BY <1>3 DEF HeartbeatAges, CommandAges, TypeInv, TypeOK, BusInv
<1>4. CASE Restart
  <2>1. {heartbeatOk', armed', booted', late'} \subseteq BOOLEAN
    BY <1>4, Zenon DEF Restart
  <2> QED
    BY <1>4, <2>1, CountAssumption, SpeedAssumption
    DEF Restart, BootPc, TypeInv, TypeOK, BusInv, Wheel, ModuleWheel,
         Mode, ChangePc, LoopPc, ReaderPc
<1>5. CASE UNCHANGED vars
  BY <1>5 DEF vars, TypeInv, TypeOK, BusInv
<1> QED
  BY <1>1, <1>2, <1>3, <1>4, <1>5 DEF Next

(* Every variable of the daemon keeps its type, whatever the two threads    *)
(* interleave and wherever the process dies.                                *)
THEOREM TypeCorrect == Spec => []TypeOK
<1>1. Spec => []TypeInv
  BY TypeInit, TypeStep, PTL DEF Spec
<1> QED
  BY <1>1, PTL DEF TypeInv

-----------------------------------------------------------------------------
(* No driving outside Manual and Autonomous.                                *)

LEMMA AuthorityInit == Init => AuthorityInv
BY DEF Init, BootPc, AuthorityInv

LEMMA AuthorityChange ==
  ASSUME TypeOK, AuthorityInv, NEW t \in Thread, Change(t)
  PROVE  AuthorityInv'
<1> USE DEF TypeOK, AuthorityInv, Goto, Caller, Actuating
<1>1. CASE Set(t)
  BY <1>1 DEF Set
<1>2. CASE Clear(t)
  BY <1>2 DEF Clear
<1>3. CASE Arm(t)
  BY <1>3 DEF Arm
<1>4. CASE Zero(t)
  BY <1>4 DEF Zero
<1>5. CASE Torque(t)
  BY <1>5 DEF Torque, AfterArm
<1>6. CASE ModZero(t)
  BY <1>6 DEF ModZero
<1>7. CASE ModTorque(t)
  BY <1>7 DEF ModTorque
<1> QED
  BY <1>1, <1>2, <1>3, <1>4, <1>5, <1>6, <1>7 DEF Change

LEMMA AuthorityStep == TypeOK /\ AuthorityInv /\ [Next]_vars => AuthorityInv'
<1> SUFFICES ASSUME TypeOK, AuthorityInv, [Next]_vars PROVE AuthorityInv'
  OBVIOUS
<1>1. CASE Change(Loop) \/ Change(Reader)
  BY <1>1, AuthorityChange
<1> USE DEF TypeOK, AuthorityInv, Goto, Actuating
<1>2. CASE CheckHeartbeat \/ OnHeartbeatLost \/ CheckStale
  BY <1>2 DEF CheckHeartbeat, OnHeartbeatLost, CheckStale
<1>3. CASE AuxTorque
  BY <1>3 DEF AuxTorque
<1>4. CASE ClearTarget("lostClear", "stale") \/ ClearTarget("staleClear", "tick")
  BY <1>4 DEF ClearTarget
<1>5. CASE Tick \/ NotDue \/ Write
  BY <1>5 DEF Tick, NotDue, Write
<1>6. CASE OnHeartbeat \/ OnHeartbeatRestored
  BY <1>6 DEF OnHeartbeat, OnHeartbeatRestored
<1>7. CASE \E v \in Speeds : OnDrive(v)
  BY <1>7 DEF OnDrive
<1>8. CASE DriveSet
  BY <1>8 DEF DriveSet
<1>9. CASE DriveKick \/ ServoSet
  BY <1>9 DEF DriveKick, ServoSet
<1>10. CASE (\E m \in Mode \ {"Estop"} : OnSetMode(m)) \/ OnEstop \/ OnRecover
  BY <1>10 DEF OnSetMode, OnEstop, OnRecover, Request
<1>11. CASE \E s \in ModuleWheel, v \in Speeds : OnServo(s, v)
  BY <1>11 DEF OnServo
<1>12. CASE HeartbeatAges \/ CommandAges
  BY <1>12 DEF HeartbeatAges, CommandAges
<1>13. CASE Restart
  BY <1>13 DEF Restart, BootPc
<1>14. CASE UNCHANGED vars
  BY <1>14 DEF vars
<1> QED
  BY <1>1, <1>2, <1>3, <1>4, <1>5, <1>6, <1>7, <1>8, <1>9, <1>10, <1>11, <1>12,
     <1>13, <1>14
  DEF Next, LoopStep, ReaderStep

(* Between mode changes the drive controller is armed with a nonzero target *)
(* only in Manual or Autonomous, for every interleaving of the loop and the *)
(* message handlers.                                                        *)
THEOREM AuthorityCorrect == Spec => []NoDriveOutsideAuthority
<1>1. AuthorityInv => NoDriveOutsideAuthority
  BY DEF AuthorityInv, NoDriveOutsideAuthority, Settled, Changing, ChangePc
<1> QED
  BY <1>1, AuthorityInit, TypeCorrect, AuthorityStep, PTL DEF Spec

-----------------------------------------------------------------------------
(* The drive wheels stop.                                                   *)

LEMMA StopChange ==
  ASSUME ~LossyBus, TypeInv, AuthorityInv, StopInv, NEW t \in Thread, Change(t)
  PROVE  StopInv'
<1> USE CountAssumption
    DEF TypeInv, TypeOK, BusInv, AuthorityInv, StopInv, Stopping, Goto, Caller,
        Actuating, Wheel, ModuleWheel, Servo
<1>1. CASE Set(t)
  BY <1>1 DEF Set
<1>2. CASE Clear(t)
  BY <1>2 DEF Clear
<1>3. CASE Arm(t)
  <2>1. CASE to[t] \in Actuating
    BY <1>3, <2>1 DEF Arm
  <2>2. CASE to[t] \notin Actuating /\ t = Loop
    BY <1>3, <2>2 DEF Arm
  <2>3. CASE to[t] \notin Actuating /\ t = Reader
    <3>1. \A w \in Wheel : Stopping(Reader, w)'
      BY <1>3, <2>3 DEF Arm
    <3>2. pc'[Loop] = "write" => late'
      BY <1>3, <2>3 DEF Arm
    <3> QED
      BY <1>3, <2>3, <3>1, <3>2 DEF Arm
  <2> QED
    BY <2>1, <2>2, <2>3
<1>4. CASE Zero(t)
  BY <1>4 DEF Zero, SetGoalSpeed, Exchange
<1>5. CASE Torque(t)
  BY <1>5 DEF Torque, AfterArm
<1>6. CASE ModZero(t)
  BY <1>6 DEF ModZero, SetGoalSpeed, Exchange
<1>7. CASE ModTorque(t)
  BY <1>7 DEF ModTorque
<1> QED
  BY <1>1, <1>2, <1>3, <1>4, <1>5, <1>6, <1>7 DEF Change

LEMMA StopStep ==
  ~LossyBus /\ TypeInv /\ AuthorityInv /\ StopInv /\ [Next]_vars => StopInv'
<1> SUFFICES ASSUME ~LossyBus, TypeInv, AuthorityInv, StopInv, [Next]_vars PROVE StopInv'
  OBVIOUS
<1>1. CASE Change(Loop) \/ Change(Reader)
  BY <1>1, StopChange
<1> USE CountAssumption
    DEF TypeInv, TypeOK, BusInv, AuthorityInv, StopInv, Stopping, Goto, Actuating,
        Wheel, ModuleWheel, Servo
<1>2. CASE CheckHeartbeat \/ OnHeartbeatLost \/ CheckStale
  BY <1>2 DEF CheckHeartbeat, OnHeartbeatLost, CheckStale
<1>3. CASE AuxTorque
  BY <1>3 DEF AuxTorque
<1>4. CASE ClearTarget("lostClear", "stale") \/ ClearTarget("staleClear", "tick")
  BY <1>4 DEF ClearTarget
<1>5. CASE Tick \/ NotDue
  BY <1>5 DEF Tick, NotDue
<1>6. CASE Write
  BY <1>6 DEF Write, SetGoalSpeed, Exchange
<1>7. CASE OnHeartbeat \/ OnHeartbeatRestored
  BY <1>7 DEF OnHeartbeat, OnHeartbeatRestored
<1>8. CASE (\E v \in Speeds : OnDrive(v)) \/ DriveSet \/ DriveKick
  BY <1>8 DEF OnDrive, DriveSet, DriveKick
<1>9. CASE (\E m \in Mode \ {"Estop"} : OnSetMode(m)) \/ OnEstop \/ OnRecover
  BY <1>9 DEF OnSetMode, OnEstop, OnRecover, Request
<1>10. CASE \E s \in ModuleWheel, v \in Speeds : OnServo(s, v)
  BY <1>10 DEF OnServo
<1>11. CASE ServoSet
  BY <1>11 DEF ServoSet, SetGoalSpeed, Exchange
<1>12. CASE HeartbeatAges \/ CommandAges
  BY <1>12 DEF HeartbeatAges, CommandAges
<1>13. CASE Restart
  BY <1>13 DEF Restart, BootPc
<1>14. CASE UNCHANGED vars
  BY <1>14 DEF vars
<1> QED
  BY <1>1, <1>2, <1>3, <1>4, <1>5, <1>6, <1>7, <1>8, <1>9, <1>10, <1>11, <1>12,
     <1>13, <1>14
  DEF Next, LoopStep, ReaderStep

(* On a bus that loses no write, outside Manual and Autonomous every drive  *)
(* wheel is latched at standstill once the switch (or the boot after a      *)
(* crash) is over, unless the disarm met a tick that was still writing.     *)
THEOREM StopCorrect == ~LossyBus => (Spec => []WheelsStopped)
<1> SUFFICES ASSUME ~LossyBus PROVE Spec => []WheelsStopped
  OBVIOUS
<1>1. Init => TypeInv /\ AuthorityInv /\ StopInv
  BY TypeInit, AuthorityInit DEF Init, BootPc, StopInv, Stopping, Wheel, Servo, TypeInv, TypeOK
<1>2. TypeInv /\ AuthorityInv /\ StopInv /\ [Next]_vars => (TypeInv /\ AuthorityInv /\ StopInv)'
  BY TypeStep, AuthorityStep, StopStep DEF TypeInv
<1>3. StopInv => WheelsStopped
  BY DEF StopInv, Stopping, WheelsStopped, Settled, Changing, ChangePc
<1> QED
  BY <1>1, <1>2, <1>3, PTL DEF Spec

-----------------------------------------------------------------------------
(* An e-stop freezes the module wheels.                                     *)

LEMMA SweepChange ==
  ASSUME ~LossyBus, TypeInv, AuthorityInv, SweepInv, NEW t \in Thread, Change(t)
  PROVE  SweepInv'
<1> USE CountAssumption
    DEF TypeInv, TypeOK, BusInv, AuthorityInv, SweepInv, Goto, Caller, Actuating,
        Wheel, ModuleWheel, Servo
<1>1. CASE Set(t)
  BY <1>1 DEF Set
<1>2. CASE Clear(t)
  BY <1>2 DEF Clear
<1>3. CASE Arm(t)
  BY <1>3 DEF Arm
<1>4. CASE Zero(t)
  BY <1>4 DEF Zero, SetGoalSpeed, Exchange
<1>5. CASE Torque(t)
  BY <1>5 DEF Torque, AfterArm
<1>6. CASE ModZero(t)
  BY <1>6 DEF ModZero, SetGoalSpeed, Exchange
<1>7. CASE ModTorque(t)
  BY <1>7 DEF ModTorque
<1> QED
  BY <1>1, <1>2, <1>3, <1>4, <1>5, <1>6, <1>7 DEF Change

LEMMA SweepStep ==
  ~LossyBus /\ TypeInv /\ AuthorityInv /\ SweepInv /\ [Next]_vars => SweepInv'
<1> SUFFICES ASSUME ~LossyBus, TypeInv, AuthorityInv, SweepInv, [Next]_vars PROVE SweepInv'
  OBVIOUS
<1>1. CASE Change(Loop) \/ Change(Reader)
  BY <1>1, SweepChange
<1> USE CountAssumption
  DEF TypeInv, TypeOK, BusInv, SweepInv, Goto, Wheel, ModuleWheel, Servo
<1>2. CASE CheckHeartbeat \/ OnHeartbeatLost \/ CheckStale
  BY <1>2 DEF CheckHeartbeat, OnHeartbeatLost, CheckStale
<1>3. CASE AuxTorque
  BY <1>3 DEF AuxTorque
<1>4. CASE ClearTarget("lostClear", "stale") \/ ClearTarget("staleClear", "tick")
  BY <1>4 DEF ClearTarget
<1>5. CASE Tick \/ NotDue
  BY <1>5 DEF Tick, NotDue
<1>6. CASE Write
  BY <1>6 DEF Write, SetGoalSpeed, Exchange
<1>7. CASE OnHeartbeat \/ OnHeartbeatRestored
  BY <1>7 DEF OnHeartbeat, OnHeartbeatRestored
<1>8. CASE (\E v \in Speeds : OnDrive(v)) \/ DriveSet \/ DriveKick
  BY <1>8 DEF OnDrive, DriveSet, DriveKick
<1>9. CASE (\E m \in Mode \ {"Estop"} : OnSetMode(m)) \/ OnEstop \/ OnRecover
  BY <1>9 DEF OnSetMode, OnEstop, OnRecover, Request
<1>10. CASE \E s \in ModuleWheel, v \in Speeds : OnServo(s, v)
  BY <1>10 DEF OnServo
<1>11. CASE ServoSet
  BY <1>11 DEF ServoSet
<1>12. CASE HeartbeatAges \/ CommandAges
  BY <1>12 DEF HeartbeatAges, CommandAges
<1>13. CASE Restart
  BY <1>13 DEF Restart
<1>14. CASE UNCHANGED vars
  BY <1>14 DEF vars
<1> QED
  BY <1>1, <1>2, <1>3, <1>4, <1>5, <1>6, <1>7, <1>8, <1>9, <1>10, <1>11, <1>12,
     <1>13, <1>14
  DEF Next, LoopStep, ReaderStep

(* On a bus that loses no write, every module wheel stands still in Estop   *)
(* once the switch is over: core's sweep stopped it and no cmd.servo was    *)
(* admitted behind it.                                                      *)
THEOREM SweepCorrect == ~LossyBus => (Spec => []EstopFreezesModules)
<1> SUFFICES ASSUME ~LossyBus PROVE Spec => []EstopFreezesModules
  OBVIOUS
<1>1. Init => TypeInv /\ AuthorityInv /\ SweepInv
  BY TypeInit, AuthorityInit DEF Init, SweepInv
<1>2. TypeInv /\ AuthorityInv /\ SweepInv /\ [Next]_vars => (TypeInv /\ AuthorityInv /\ SweepInv)'
  BY TypeStep, AuthorityStep, SweepStep DEF TypeInv
<1>3. SweepInv => EstopFreezesModules
  BY DEF SweepInv, EstopFreezesModules, Settled, Changing, ChangePc
<1> QED
  BY <1>1, <1>2, <1>3, PTL DEF Spec
=============================================================================
