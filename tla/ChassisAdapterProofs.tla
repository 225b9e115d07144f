------------------------- MODULE ChassisAdapterProofs -------------------------
(***************************************************************************)
(* Theorems about SafetyGuard, for every timeout, limit and set of         *)
(* commands, and about ChassisAdapter, for every profile, timeout,         *)
(* lifetime of a packet and set of commands.                               *)
(*                                                                         *)
(* The argument about the adapter is about the socket: what is in it is    *)
(* the command of the exchange the executor is blocked in, and a           *)
(* connection that was given up is one the daemon will find closed.        *)
(***************************************************************************)
EXTENDS ChassisAdapter, TLAPS

-----------------------------------------------------------------------------
(* The safety guard *)

\* The preparation timer never runs ahead of the time since a tick last met a
\* non-zero command, and it runs while the guard prepares.
Preamble ==
  state = "Preparing" => /\ preparation_age \in 0..ZeroPreparation
                         /\ quiet_age = preparation_age

\* A guard without permission to move never leaves Disabled.
Immobile == ~AllowMotion => state = "Disabled"

GuardInv == GuardTypeOK /\ NoResidualOutput /\ Preamble /\ Immobile

\* Every age stays in its saturated range.
LEMMA OlderIsAnAge ==
  ASSUME NEW limit \in Nat, NEW age \in Age(limit)
  PROVE  Older(age, limit) \in Age(limit)
  BY DEF Age, Older, NoStamp

LEMMA ZeroIsAnAge ==
  ASSUME NEW limit \in Nat
  PROVE  0 \in Age(limit) /\ NoStamp \in Age(limit)
  BY DEF Age, NoStamp

LEMMA SlewStaysInRange ==
  ASSUME NEW current \in 0..MaxSpeed, NEW target \in 0..MaxSpeed
  PROVE  /\ Slew(current, target) \in 0..MaxSpeed
         /\ Slew(current, target) <= current + MaxStep
         /\ Slew(current, target) >= current - MaxStep
  BY GuardAssumption DEF Slew

LEMMA ClampIsInRange ==
  ASSUME NEW v \in Int
  PROVE  Clamp(v) \in 0..MaxSpeed
  BY GuardAssumption DEF Clamp

LEMMA GuardInvInit == GuardInit => GuardInv
<1> SUFFICES ASSUME GuardInit PROVE GuardInv
  OBVIOUS
<1>1. /\ robot_age \in Age(StateTimeout + 1)
      /\ command_age \in Age(CommandTimeout + 1)
      /\ preparation_age \in Age(ZeroPreparation)
      /\ quiet_age \in Age(ZeroPreparation)
  BY GuardAssumption DEF GuardInit, Age, NoStamp
<1>2. /\ state \in GuardState \ {"Preparing", "Armed"} /\ Immobile
      /\ output = 0 /\ output \in 0..MaxSpeed
  BY GuardAssumption DEF GuardInit, GuardState, Immobile
<1>3. robot_ok \in BOOLEAN /\ command_finite \in BOOLEAN
  BY DEF GuardInit
<1>4. command \in Int /\ decision \in {"none", "Stop", "Move"}
  BY DEF GuardInit
<1> QED
  BY <1>1, <1>2, <1>3, <1>4 DEF GuardInv, GuardTypeOK, NoResidualOutput, Preamble

\* An armed tick, which alone moves the output away from zero.
LEMMA ArmedTickSteps ==
  ASSUME GuardInv, ArmedTick
  PROVE  /\ output' \in 0..MaxSpeed
         /\ output' <= output + MaxStep /\ output' >= output - MaxStep
<1>1. output \in 0..MaxSpeed /\ Clamp(command) \in 0..MaxSpeed
  BY ClampIsInRange DEF GuardInv, GuardTypeOK
<1> QED
  BY <1>1, SlewStaysInRange DEF ArmedTick

LEMMA TickKeepsGuardInv ==
  ASSUME GuardInv, Tick
  PROVE  GuardInv'
<1> USE GuardAssumption DEF GuardInv, GuardTypeOK, NoResidualOutput, Preamble,
       Immobile, GuardState, Tick, inputs
<1>1. 0 \in Age(ZeroPreparation)
  BY ZeroIsAnAge
<1>2. CASE IdleTick
  BY <1>2 DEF IdleTick, StopDecision
<1>3. CASE UnhealthyTick
  BY <1>3 DEF UnhealthyTick, StopDecision, ForceFault
<1>4. CASE RestartPreparation
  BY <1>1, <1>4 DEF RestartPreparation, StopDecision
<1>5. CASE HoldZero
  BY <1>5 DEF HoldZero, StopDecision
<1>6. CASE ArmedTick
  <2>1. output' \in 0..MaxSpeed
    BY <1>6, ArmedTickSteps
  <2>2. AllowMotion
    BY <1>6 DEF ArmedTick, Prepared
  <2>3. state' = "Armed" /\ decision' \in {"none", "Stop", "Move"}
    BY <1>6 DEF ArmedTick
  <2> QED
    BY <1>6, <2>1, <2>2, <2>3 DEF ArmedTick
<1> QED
  BY <1>2, <1>3, <1>4, <1>5, <1>6

LEMMA GuardInvNext == GuardInv /\ [GuardNext]_guard_vars => GuardInv'
<1> SUFFICES ASSUME GuardInv, [GuardNext]_guard_vars PROVE GuardInv'
  OBVIOUS
<1> USE GuardAssumption DEF GuardInv, GuardTypeOK, NoResidualOutput, Preamble,
       Immobile, GuardState, inputs
<1>1. /\ 0 \in Age(StateTimeout + 1) /\ 0 \in Age(CommandTimeout + 1)
      /\ 0 \in Age(ZeroPreparation) /\ NoStamp \in Age(ZeroPreparation)
      /\ 0 \in 0..MaxSpeed /\ 0 \in 0..ZeroPreparation
  BY ZeroIsAnAge
<1>2. ASSUME NEW ok \in BOOLEAN, UpdateRobotState(ok) PROVE GuardInv'
  BY <1>1, <1>2 DEF UpdateRobotState
<1>3. ASSUME NEW v \in Int, UpdateCommand(v, TRUE)
      PROVE  GuardInv'
  BY <1>1, <1>3 DEF UpdateCommand, ForceFault
<1>4. CASE RequestArm
  BY <1>1, <1>4 DEF RequestArm, ArmAccepted
<1>5. CASE RequestDisarm
  BY <1>1, <1>5 DEF RequestDisarm
<1>6. CASE ExternalFault
  BY <1>1, <1>6 DEF ExternalFault, ForceFault
<1>7. CASE Tick
  BY <1>7, TickKeepsGuardInv
<1>8. CASE TimePasses
  <2>1. /\ robot_age' \in Age(StateTimeout + 1)
        /\ command_age' \in Age(CommandTimeout + 1)
        /\ preparation_age' \in Age(ZeroPreparation)
        /\ quiet_age' \in Age(ZeroPreparation)
    BY <1>8, OlderIsAnAge DEF TimePasses
  <2>2. preparation_age \in 0..ZeroPreparation
          => Older(preparation_age, ZeroPreparation) \in 0..ZeroPreparation
    BY DEF Older, NoStamp
  <2> QED
    BY <1>8, <2>1, <2>2 DEF TimePasses
<1>9. CASE UNCHANGED guard_vars
  BY <1>9 DEF guard_vars
<1>10. CASE UpdateCommand(0, FALSE)
  <2>1. state' \in {"Fault", "Disabled"} /\ (~AllowMotion => state' = "Disabled")
        /\ output' = 0
    BY <1>10 DEF UpdateCommand, ForceFault
  <2>2. command_finite' \in BOOLEAN /\ command_age' = 0
        /\ command' = 0
    BY <1>10 DEF UpdateCommand
  <2>3. UNCHANGED <<robot_age, robot_ok, preparation_age, decision, quiet_age>>
    BY <1>10 DEF UpdateCommand
  <2> QED
    BY <1>1, <2>1, <2>2, <2>3
<1> HIDE DEF GuardInv, GuardTypeOK, inputs
<1>11. CASE \E v \in Commands : UpdateCommand(v, TRUE)
  BY <1>3, <1>11
<1> QED
  BY <1>2, <1>4, <1>5, <1>6, <1>7, <1>8, <1>9, <1>10, <1>11 DEF GuardNext

\* What a step of the guard does to its output.
LEMMA SlewSteps ==
  ASSUME GuardInv, [GuardNext]_guard_vars
  PROVE  [/\ output' <= output + MaxStep
          /\ output' >= output - MaxStep \/ output' = 0]_guard_vars
<1> USE GuardAssumption
<1>1. output \in 0..MaxSpeed
  BY DEF GuardInv, GuardTypeOK
<1>2. SUFFICES ASSUME output' # 0, output' # output, GuardNext
               PROVE  /\ output' <= output + MaxStep
                      /\ output' >= output - MaxStep
  BY <1>1 DEF guard_vars
<1>3. ArmedTick
  BY <1>2 DEF GuardNext, UpdateRobotState, UpdateCommand, RequestArm,
     RequestDisarm, ExternalFault, ForceFault, Tick, IdleTick, UnhealthyTick,
     RestartPreparation, HoldZero, TimePasses
<1> QED
  BY <1>3, ArmedTickSteps

\* Nothing but a disarm opens the latch, and nothing but a preamble arms.
LEMMA FaultSteps ==
  ASSUME GuardInv, [GuardNext]_guard_vars
  PROVE  [state = "Fault" /\ state' # "Fault"
            => state' = "Disarmed" /\ Healthy /\ IsZero]_guard_vars
<1>1. SUFFICES ASSUME state = "Fault", state' # "Fault", GuardNext, AllowMotion
               PROVE  state' = "Disarmed" /\ Healthy /\ IsZero
  BY DEF guard_vars, GuardInv, Immobile
<1> QED
  BY <1>1 DEF GuardNext, UpdateRobotState, UpdateCommand, RequestArm,
     ArmAccepted, RequestDisarm, FaultStays, ExternalFault, ForceFault, Tick,
     IdleTick, UnhealthyTick, RestartPreparation, HoldZero, ArmedTick,
     Prepared, TimePasses

LEMMA ArmingSteps ==
  ASSUME GuardInv, [GuardNext]_guard_vars
  PROVE  [state # "Armed" /\ state' = "Armed"
            => state = "Preparing" /\ quiet_age >= ZeroPreparation]_guard_vars
<1>1. SUFFICES ASSUME state # "Armed", state' = "Armed", GuardNext
               PROVE  state = "Preparing" /\ quiet_age >= ZeroPreparation
  BY DEF guard_vars
<1>2. ArmedTick
  BY <1>1 DEF GuardNext, UpdateRobotState, UpdateCommand, RequestArm,
     RequestDisarm, ExternalFault, ForceFault, Tick, IdleTick, UnhealthyTick,
     RestartPreparation, HoldZero, TimePasses
<1> QED
  BY <1>1, <1>2 DEF ArmedTick, Prepared, GuardInv, Preamble

-----------------------------------------------------------------------------
(* Theorems *)

\* Every reachable state of the guard is well typed, its output included: no
\* reverse and nothing above the profile's limit, for any commands.
THEOREM GuardTypeCorrect == GuardSpec => []GuardTypeOK
<1>1. GuardInv => GuardTypeOK
  BY DEF GuardInv
<1> QED
  BY <1>1, GuardInvInit, GuardInvNext, PTL DEF GuardSpec

\* No velocity is left over when the guard is not armed.
THEOREM NoResidual == GuardSpec => []NoResidualOutput
<1>1. GuardInv => NoResidualOutput
  BY DEF GuardInv
<1> QED
  BY <1>1, GuardInvInit, GuardInvNext, PTL DEF GuardSpec

\* The acceleration limit holds over every step, those that end or start an
\* armed session included.
THEOREM AccelerationBounded == GuardSpec => AccelerationIsLimited
  BY SlewSteps, GuardInvInit, GuardInvNext, PTL DEF GuardSpec, AccelerationIsLimited

\* The fault latch is opened by nothing but an explicit disarm of a healthy
\* robot under a zero command.
THEOREM FaultLatched == GuardSpec => FaultIsLatched
  BY FaultSteps, GuardInvInit, GuardInvNext, PTL DEF GuardSpec, FaultIsLatched

\* There is no way into Armed but through a whole preamble of zero ticks.
THEOREM ArmedAfterZero == GuardSpec => ArmedAfterPreamble
  BY ArmingSteps, GuardInvInit, GuardInvNext, PTL DEF GuardSpec, ArmedAfterPreamble

-----------------------------------------------------------------------------
(* The invariant of the adapter *)

Packet ==
  [op: {"none", "Arm", "Disarm", "Move", "Stop", "Ping", "RestoreClassicWalk"},
   age: 0..(Lifetime + 1), evidence: 0..MaxEvidence]

IpcTypeOK ==
  /\ task \in {"idle", "arming", "commanding", "stopping", "disarming",
               "restoring"}
  /\ daemon_armed \in BOOLEAN
  /\ link \in {"down", "up"}
  /\ wire \in Packet /\ late \in Packet
  /\ reply \in {"none", "ok", "rejected", "lost"}
  /\ served \in {"nobody", "adapter", "gone"}
  /\ owner \in {"nobody", "adapter"} /\ driver \in {"nobody", "adapter"}
  /\ latched \in BOOLEAN

\* The commands of an exchange.
CommandsOf(t) ==
  IF t = "arming" THEN {"Arm"}
  ELSE IF t = "commanding" THEN {"Move", "Stop", "Ping"}
  ELSE IF t = "stopping" THEN {"Stop"}
  ELSE IF t = "disarming" THEN {"Disarm"}
  ELSE IF t = "restoring" THEN {"RestoreClassicWalk"}
  ELSE {}

\* One exchange at a time, over one connection at a time.
SocketInv ==
  /\ wire # NoPacket => /\ link = "up" /\ reply = "none"
                        /\ wire.op \in CommandsOf(task)
  /\ late # NoPacket => served = "gone" /\ late.op # "none"
  /\ served = "adapter" => link = "up"
  /\ task = "idle" => reply = "none"
  /\ reply = "lost" => link = "down"

\* DaemonArmIsKnown, also in the middle of an exchange.
ArmInv ==
  /\ owner # "nobody" => served # "nobody"
  /\ owner # "nobody" /\ served = "adapter"
       => daemon_armed \/ (task = "arming" /\ reply = "ok")

\* MoveIsFresh, also of a packet that has expired.
FreshPacket(p) == p.op = "Move" => p.evidence <= InputTimeout + p.age

IpcInv == IpcTypeOK /\ SocketInv /\ ArmInv /\ FreshPacket(wire) /\ FreshPacket(late)

LEMMA InputTimeoutIsNat ==
  /\ InputTimeout \in Nat /\ StateTimeout <= InputTimeout
  /\ CommandTimeout <= InputTimeout
  /\ MaxEvidence = InputTimeout + Lifetime + 1
  BY GuardAssumption, AdapterAssumption DEF InputTimeout, Larger, MaxEvidence

LEMMA NoPacketIsFresh == NoPacket \in Packet /\ FreshPacket(NoPacket)
<1>1. 0 \in 0..(Lifetime + 1) /\ 0 \in 0..MaxEvidence
  BY InputTimeoutIsNat, AdapterAssumption
<1> QED
  BY <1>1 DEF NoPacket, Packet, FreshPacket

LEMMA IpcInvInit == AdapterInit => IpcInv
  BY NoPacketIsFresh
     DEF AdapterInit, IpcInv, IpcTypeOK, SocketInv, ArmInv, Daemon!Init

\* Nothing an exchange is about has changed.
LEMMA IpcUntouched ==
  ASSUME IpcInv, UNCHANGED <<task, daemon_armed, ipc, daemon>>
  PROVE  IpcInv'
  BY DEF IpcInv, IpcTypeOK, SocketInv, ArmInv, FreshPacket, ipc, daemon

-----------------------------------------------------------------------------
(* The adapter's side of the socket *)

\* The arm the adapter does not know of yet is in an answer it is about to read.
ArmUnread == task = "arming" /\ reply = "ok"

LEMMA SendKeepsIpc ==
  ASSUME IpcInv, ~ArmUnread,
         NEW op, NEW waiting, Send(op, waiting),
         waiting \in {"arming", "commanding", "stopping", "disarming",
                      "restoring"},
         op \in CommandsOf(waiting),
         op = "Move" => Larger(robot_age, command_age) \in 0..InputTimeout,
         UNCHANGED <<daemon_armed, daemon>>
  PROVE  IpcInv'
<1> DEFINE sent == IF op = "Move" THEN Larger(robot_age, command_age) ELSE 0
<1>1. sent \in 0..InputTimeout /\ (op # "Move" => sent = 0)
  BY InputTimeoutIsNat
<1>2. wire' = [op |-> op, age |-> 0, evidence |-> sent]
  BY DEF Send
<1>3. op \in {"Arm", "Disarm", "Move", "Stop", "Ping", "RestoreClassicWalk"}
  BY DEF CommandsOf
<1> HIDE DEF sent
<1>4. wire' \in Packet
  <2>1. 0 \in 0..(Lifetime + 1) /\ sent \in 0..MaxEvidence
    BY <1>1, InputTimeoutIsNat, AdapterAssumption
  <2> QED
    BY <1>2, <1>3, <2>1 DEF Packet
<1>5. FreshPacket(wire')
  BY <1>1, <1>2, InputTimeoutIsNat DEF FreshPacket
<1>6. wire'.op = op
  BY <1>2
<1>7. /\ task' = waiting /\ link' = "up" /\ reply' = "none"
      /\ UNCHANGED <<late, served, daemon_armed, owner, driver, latched>>
  BY DEF Send, daemon
<1>8. IpcTypeOK'
  BY <1>4, <1>7 DEF IpcInv, IpcTypeOK
<1>9. SocketInv'
  BY <1>6, <1>7 DEF IpcInv, SocketInv
<1>10. ArmInv'
  BY <1>7 DEF IpcInv, ArmInv, ArmUnread
<1>11. FreshPacket(late)'
  BY <1>7 DEF IpcInv, FreshPacket
<1> QED
  BY <1>5, <1>8, <1>9, <1>10, <1>11 DEF IpcInv, FreshPacket

LEMMA ExchangeKeepsIpc ==
  ASSUME IpcInv, ~ArmUnread,
         NEW op, NEW waiting, Exchange(op, waiting),
         waiting \in {"arming", "commanding", "stopping", "disarming",
                      "restoring"},
         op \in CommandsOf(waiting),
         op = "Move" => Larger(robot_age, command_age) \in 0..InputTimeout,
         UNCHANGED <<daemon_armed, daemon>>
  PROVE  IpcInv'
<1>1. CASE Send(op, waiting)
  BY <1>1, SendKeepsIpc
<1>2. CASE link = "down" /\ task' = waiting /\ reply' = "lost"
           /\ UNCHANGED <<link, wire, late, served>>
  <2>1. wire = NoPacket /\ served # "adapter"
    BY <1>2 DEF IpcInv, SocketInv
  <2> QED
    BY <1>2, <2>1
       DEF IpcInv, IpcTypeOK, SocketInv, ArmInv, FreshPacket, daemon
<1> QED
  BY <1>1, <1>2 DEF Exchange

\* After a Close the daemon has nobody, or a connection it will find closed.
LEMMA CloseKeepsIpc ==
  ASSUME IpcInv, Close, UNCHANGED daemon, daemon_armed' \in BOOLEAN,
         \/ task' = "idle" /\ reply' = "none"
         \/ task # "idle" /\ task' = task /\ reply' = "lost"
  PROVE  IpcInv'
<1>1. link' = "down" /\ wire' = NoPacket /\ served' # "adapter"
  BY DEF Close, IpcInv, IpcTypeOK
<1>2. /\ late' \in Packet /\ FreshPacket(late')
      /\ late' # NoPacket => served' = "gone" /\ late'.op # "none"
  BY DEF Close, IpcInv, IpcTypeOK, SocketInv, CommandsOf, FreshPacket
<1>3. served' \in {"nobody", "gone"} /\ (served # "nobody" => served' = "gone")
  BY DEF Close, IpcInv, IpcTypeOK
<1> QED
  BY <1>1, <1>2, <1>3, NoPacketIsFresh
     DEF IpcInv, IpcTypeOK, SocketInv, ArmInv, FreshPacket, daemon

LEMMA DisarmKeepsIpc ==
  ASSUME IpcInv, ~ArmUnread, NEW verdict, NEW restore,
         BestEffortDaemonDisarm(verdict, restore)
  PROVE  IpcInv'
<1>1. UNCHANGED daemon
  BY DEF BestEffortDaemonDisarm
<1>2. CASE Send("Stop", "stopping") /\ UNCHANGED daemon_armed
  BY <1>1, <1>2, SendKeepsIpc DEF CommandsOf
<1>3. CASE Send("Disarm", "disarming") /\ UNCHANGED daemon_armed
  BY <1>1, <1>3, SendKeepsIpc DEF CommandsOf
<1>4. CASE /\ link = "down" /\ daemon_armed' = FALSE
           /\ task' = "idle" /\ reply' = "none"
           /\ UNCHANGED <<link, wire, late, served>>
  BY <1>1, <1>4
     DEF IpcInv, IpcTypeOK, SocketInv, ArmInv, FreshPacket, daemon
<1> QED
  BY <1>2, <1>3, <1>4 DEF BestEffortDaemonDisarm

LEMMA FailClosedKeepsIpc ==
  ASSUME IpcInv, ~ArmUnread, FailClosedCommissioningStop
  PROVE  IpcInv'
  BY DisarmKeepsIpc DEF FailClosedCommissioningStop

LEMMA FinishKeepsIpc ==
  ASSUME IpcInv, NEW success, Finish(success)
  PROVE  IpcInv'
  BY CloseKeepsIpc DEF Finish

-----------------------------------------------------------------------------
(* The daemon's side *)

LEMMA ExecutesKeepsOwner ==
  ASSUME IpcInv, NEW p \in Packet, p.op # "none",
         NEW ok \in BOOLEAN, Executes(p, ok)
  PROVE  /\ owner' \in {"nobody", "adapter"} /\ driver' \in {"nobody", "adapter"}
         /\ latched' \in BOOLEAN
         /\ owner' # "nobody" => owner # "nobody" \/ (p.op = "Arm" /\ ok)
<1>1. /\ owner \in {"nobody", "adapter"} /\ driver \in {"nobody", "adapter"}
      /\ latched \in BOOLEAN
  BY DEF IpcInv, IpcTypeOK
<1>2. CASE UNCHANGED daemon
  BY <1>1, <1>2 DEF daemon
<1>3. CASE Daemon!Fault
  BY <1>1, <1>3 DEF Daemon!Fault
<1>4. CASE p.op = "Arm" /\ ok /\ Daemon!Arm("adapter")
  BY <1>1, <1>4 DEF Daemon!Arm
<1>5. CASE Daemon!Release \/ Daemon!Halt \/ Daemon!Drive("adapter")
  BY <1>1, <1>5 DEF Daemon!Release, Daemon!Halt, Daemon!Drive
<1>6. p.op \in {"Arm", "Disarm", "Move", "Stop", "Ping", "RestoreClassicWalk"}
  BY DEF Packet
<1> QED
  BY <1>2, <1>3, <1>4, <1>5, <1>6 DEF Executes, StopFails

LEMMA HandlesKeepsIpc == ASSUME IpcInv, Handles PROVE IpcInv'
<1>1. PICK ok \in BOOLEAN :
        Executes(wire, ok) /\ reply' = IF ok THEN "ok" ELSE "rejected"
  BY DEF Handles
<1>2. /\ served = "adapter" /\ wire # NoPacket /\ wire' = NoPacket
      /\ UNCHANGED <<task, daemon_armed, link, late, served>>
  BY DEF Handles, OnlyDaemon
<1>3. wire \in Packet /\ link = "up" /\ reply = "none"
      /\ wire.op \in CommandsOf(task)
  BY <1>2 DEF IpcInv, IpcTypeOK, SocketInv
<1>4. /\ owner' \in {"nobody", "adapter"} /\ driver' \in {"nobody", "adapter"}
      /\ latched' \in BOOLEAN
      /\ owner' # "nobody" => owner # "nobody" \/ (wire.op = "Arm" /\ ok)
  BY <1>1, <1>3, ExecutesKeepsOwner DEF CommandsOf
<1>5. wire.op = "Arm" => task = "arming"
  BY <1>3 DEF CommandsOf
<1>6. task # "idle"
  BY <1>3 DEF CommandsOf
<1>7. ArmInv'
  BY <1>1, <1>2, <1>3, <1>4, <1>5 DEF IpcInv, ArmInv
<1>8. IpcTypeOK'
  BY <1>1, <1>2, <1>4, NoPacketIsFresh DEF IpcInv, IpcTypeOK
<1>9. SocketInv'
  BY <1>1, <1>2, <1>6 DEF IpcInv, SocketInv
<1> QED
  BY <1>2, <1>7, <1>8, <1>9, NoPacketIsFresh DEF IpcInv, FreshPacket

\* A late Arm arms for nobody: the daemon is about to find the connection closed.
LEMMA HandlesLateKeepsIpc == ASSUME IpcInv, HandlesLate PROVE IpcInv'
<1>1. PICK ok \in BOOLEAN : Executes(late, ok)
  BY DEF HandlesLate
<1>2. /\ served = "gone" /\ late' = NoPacket
      /\ UNCHANGED <<task, daemon_armed, link, wire, reply, served>>
  BY DEF HandlesLate, OnlyDaemon
<1>3. /\ owner' \in {"nobody", "adapter"} /\ driver' \in {"nobody", "adapter"}
      /\ latched' \in BOOLEAN
  BY <1>1, ExecutesKeepsOwner DEF HandlesLate, IpcInv, IpcTypeOK, SocketInv
<1> QED
  BY <1>2, <1>3, NoPacketIsFresh
     DEF IpcInv, IpcTypeOK, SocketInv, ArmInv, FreshPacket

LEMMA HangsUpKeepsIpc == ASSUME IpcInv, HangsUp PROVE IpcInv'
<1>1. /\ served' = "nobody" /\ late' = NoPacket
      /\ UNCHANGED <<task, daemon_armed, link, wire, reply>>
  BY DEF HangsUp, OnlyDaemon
<1>2. owner' = "nobody" /\ driver' \in {"nobody", "adapter"} /\ latched' \in BOOLEAN
  BY DEF HangsUp, StopFails, Daemon!Disarm, Daemon!Fault, IpcInv, IpcTypeOK
<1> QED
  BY <1>1, <1>2, NoPacketIsFresh
     DEF IpcInv, IpcTypeOK, SocketInv, ArmInv, FreshPacket

LEMMA DaemonKeepsIpc == ASSUME IpcInv, DaemonLoop PROVE IpcInv'
<1>1. CASE Accepts
  BY <1>1 DEF Accepts, OnlyDaemon, daemon, IpcInv, IpcTypeOK, SocketInv, ArmInv,
     FreshPacket
<1>2. CASE WatchdogStops
  <2>1. owner' = "nobody" /\ driver' \in {"nobody", "adapter"}
        /\ latched' \in BOOLEAN
    BY <1>2 DEF WatchdogStops, StopFails, Daemon!Fault, IpcInv, IpcTypeOK
  <2> QED
    BY <1>2, <2>1 DEF WatchdogStops, OnlyDaemon, ipc, IpcInv, IpcTypeOK,
       SocketInv, ArmInv, FreshPacket
<1>3. CASE RetriesStop
  BY <1>3 DEF RetriesStop, OnlyDaemon, ipc, Daemon!Halt, IpcInv, IpcTypeOK,
     SocketInv, ArmInv, FreshPacket
<1> QED
  BY <1>1, <1>2, <1>3, HandlesKeepsIpc, HandlesLateKeepsIpc, HangsUpKeepsIpc
     DEF DaemonLoop

-----------------------------------------------------------------------------
(* The callbacks and the timer *)

\* What a tick leaves armed has just found both inputs fresh.
LEMMA ArmedTickIsFresh ==
  ASSUME GuardInv, Tick, state' = "Armed"
  PROVE  Larger(robot_age, command_age) \in 0..InputTimeout
<1>1. Healthy
  BY DEF Tick, IdleTick, UnhealthyTick, RestartPreparation, HoldZero, ArmedTick,
     ForceFault
<1>2. /\ robot_age \in 0..StateTimeout
      /\ command_age \in 0..CommandTimeout
  BY <1>1, GuardAssumption DEF Healthy, FreshState, FreshCommand, GuardInv,
     GuardTypeOK, Age, NoStamp
<1> QED
  BY <1>2, InputTimeoutIsNat, GuardAssumption DEF Larger

LEMMA TimerKeepsIpc == ASSUME IpcInv, GuardInv, OnControlTimer PROVE IpcInv'
<1>1. ~ArmUnread /\ Tick
  BY DEF OnControlTimer, Idle, ArmUnread
<1>2. CASE state' = "Fault"
  BY <1>1, <1>2, DisarmKeepsIpc DEF OnControlTimer
<1>3. CASE state' \notin {"Fault", "Armed"}
  BY <1>3, IpcUntouched DEF OnControlTimer
<1>4. CASE state' = "Armed"
  <2>1. Larger(robot_age, command_age) \in 0..InputTimeout
    BY <1>1, <1>4, ArmedTickIsFresh
  <2>2. UNCHANGED <<daemon_armed, daemon>>
    BY <1>4 DEF OnControlTimer
  <2>3. \/ Exchange("Arm", "arming")
        \/ \E op \in {"Move", "Stop", "Ping"} : Exchange(op, "commanding")
    BY <1>4 DEF OnControlTimer, Command
  <2>4. CASE Exchange("Arm", "arming")
    BY <1>1, <2>2, <2>4, ExchangeKeepsIpc DEF CommandsOf
  <2>5. ASSUME NEW op \in {"Move", "Stop", "Ping"}, Exchange(op, "commanding")
        PROVE  IpcInv'
    BY <1>1, <2>1, <2>2, <2>5, ExchangeKeepsIpc DEF CommandsOf
  <2> QED
    BY <2>3, <2>4, <2>5
<1> QED
  BY <1>2, <1>3, <1>4

LEMMA ExecutorKeepsIpc == ASSUME IpcInv, GuardInv, Executor PROVE IpcInv'
<1>1. CASE Stopped
  <2>1. ~ArmUnread
    BY <1>1 DEF Stopped, ArmUnread
  <2> QED
    BY <1>1, <2>1, ExchangeKeepsIpc DEF Stopped, CommandsOf
<1>2. CASE Disarmed
  <2>1. ~ArmUnread
    BY <1>2 DEF Disarmed, ArmUnread
  <2>2. \/ \E success \in BOOLEAN : Finish(success)
        \/ Exchange("RestoreClassicWalk", "restoring")
           /\ UNCHANGED <<daemon_armed, daemon>>
    BY <1>2 DEF Disarmed
  <2> QED
    BY <2>1, <2>2, ExchangeKeepsIpc, FinishKeepsIpc DEF CommandsOf
<1>3. CASE Restored
  BY <1>3, FinishKeepsIpc DEF Restored
<1>4. CASE Armed
  <2>1. /\ task = "arming" /\ reply = "ok" /\ task' = "idle" /\ reply' = "none"
        /\ daemon_armed' = TRUE
        /\ UNCHANGED <<link, wire, late, served, owner, driver, latched>>
    BY <1>4 DEF Armed, daemon
  <2>2. wire = NoPacket
    BY <2>1 DEF IpcInv, SocketInv
  <2> QED
    BY <2>1, <2>2 DEF IpcInv, IpcTypeOK, SocketInv, ArmInv, FreshPacket
<1>5. CASE Commanded
  <2>1. /\ task = "commanding" /\ reply = "ok" /\ task' = "idle" /\ reply' = "none"
        /\ UNCHANGED <<daemon_armed, link, wire, late, served, owner, driver,
                       latched>>
    BY <1>5 DEF Commanded, daemon
  <2>2. wire = NoPacket
    BY <2>1 DEF IpcInv, SocketInv
  <2> QED
    BY <2>1, <2>2 DEF IpcInv, IpcTypeOK, SocketInv, ArmInv, FreshPacket
<1>6. CASE HandleIpcFault
  <2>1. ~ArmUnread
    BY <1>6 DEF HandleIpcFault, ArmUnread
  <2> QED
    BY <1>6, <2>1, FailClosedKeepsIpc DEF HandleIpcFault
<1>7. CASE FailClosedTick
  <2>1. ~ArmUnread
    BY <1>7 DEF FailClosedTick, Idle, ArmUnread
  <2> QED
    BY <1>7, <2>1, FailClosedKeepsIpc DEF FailClosedTick
<1>8. CASE LoseExchange
  <2>1. /\ Close /\ UNCHANGED daemon /\ task # "idle" /\ task' = task
        /\ reply' = "lost" /\ daemon_armed' = daemon_armed
    BY <1>8 DEF LoseExchange
  <2> QED
    BY <2>1, CloseKeepsIpc DEF IpcInv, IpcTypeOK
<1> QED
  BY <1>1, <1>2, <1>3, <1>4, <1>5, <1>6, <1>7, <1>8, TimerKeepsIpc DEF Executor

LEMMA CallbacksKeepIpc == ASSUME IpcInv, Callbacks PROVE IpcInv'
<1>1. Idle => ~ArmUnread
  BY DEF Idle, ArmUnread
<1>2. Untouched => IpcInv'
  BY IpcUntouched DEF Untouched
<1>3. CASE OnSportModeState
  BY <1>2, <1>3 DEF OnSportModeState
<1>4. CASE OnInvalidState
  BY <1>1, <1>2, <1>4, DisarmKeepsIpc DEF OnInvalidState
<1>5. ASSUME NEW integrity, Idle, LoseOdometry(integrity) PROVE IpcInv'
  BY <1>1, <1>2, <1>5, FailClosedKeepsIpc DEF LoseOdometry
<1>6. CASE OnRefusedInput
  BY <1>5, <1>6 DEF OnRefusedInput
<1>7. CASE OnExternalOdometry
  BY <1>1, <1>2, <1>5, <1>7, FailClosedKeepsIpc DEF OnExternalOdometry
<1>8. ASSUME NEW v, NEW finite, OnVelocityCommand(v, finite) PROVE IpcInv'
  BY <1>1, <1>2, <1>8, FailClosedKeepsIpc DEF OnVelocityCommand
<1>9. CASE OnArmRequest
  BY <1>9, IpcUntouched DEF OnArmRequest
<1>10. CASE OnDisarmRequest
  BY <1>1, <1>10, DisarmKeepsIpc DEF OnDisarmRequest
<1>11. CASE OnMarkerAcknowledgement
  BY <1>1, <1>11, DisarmKeepsIpc DEF OnMarkerAcknowledgement
<1> QED
  BY <1>3, <1>4, <1>6, <1>7, <1>8, <1>9, <1>10, <1>11 DEF Callbacks

-----------------------------------------------------------------------------
(* Time *)

Aged(p) ==
  IF p = NoPacket THEN p
  ELSE [p EXCEPT !.age = Older(@, Lifetime + 1),
                 !.evidence = Older(@, MaxEvidence)]

\* The two ages of a packet saturate, but that of the evidence never first.
LEMMA AgedPacket ==
  ASSUME NEW p \in Packet, FreshPacket(p)
  PROVE  /\ Aged(p) \in Packet /\ FreshPacket(Aged(p)) /\ Aged(p).op = p.op
         /\ p = NoPacket => Aged(p) = NoPacket
         /\ Aged(p) # NoPacket => p # NoPacket
<1>1. CASE p = NoPacket
  BY <1>1 DEF Aged
<1>2. CASE p # NoPacket
  <2> DEFINE age == Older(p.age, Lifetime + 1)
             old == Older(p.evidence, MaxEvidence)
  <2>1. p.age \in 0..(Lifetime + 1) /\ p.evidence \in 0..MaxEvidence
    BY DEF Packet
  <2>2. /\ age \in 0..(Lifetime + 1)
        /\ age = IF p.age >= Lifetime + 1 THEN p.age ELSE p.age + 1
    BY <2>1, AdapterAssumption DEF Older, NoStamp
  <2>3. /\ old \in 0..MaxEvidence
        /\ old = IF p.evidence >= MaxEvidence THEN p.evidence ELSE p.evidence + 1
    BY <2>1, InputTimeoutIsNat, AdapterAssumption DEF Older, NoStamp
  <2>4. p.evidence <= InputTimeout + p.age => old <= InputTimeout + age
    BY <2>1, <2>2, <2>3, InputTimeoutIsNat, AdapterAssumption
  <2> HIDE DEF age, old
  <2>5. Aged(p) = [p EXCEPT !.age = age, !.evidence = old]
    BY <1>2 DEF Aged, age, old
  <2>6. /\ Aged(p).op = p.op /\ Aged(p).age = age /\ Aged(p).evidence = old
        /\ Aged(p) \in Packet
    BY <2>2, <2>3, <2>5 DEF Packet
  <2> QED
    BY <1>2, <2>4, <2>6 DEF FreshPacket
<1> QED
  BY <1>1, <1>2

LEMMA TimeKeepsIpc == ASSUME IpcInv, AdapterTimePasses PROVE IpcInv'
<1>1. /\ wire' = Aged(wire) /\ late' = Aged(late)
      /\ UNCHANGED <<task, daemon_armed, link, reply, served, owner, driver,
                     latched>>
  BY DEF AdapterTimePasses, Aged, daemon
<1>2. /\ wire' \in Packet /\ FreshPacket(wire') /\ wire'.op = wire.op
      /\ wire' # NoPacket => wire # NoPacket
      /\ late' \in Packet /\ FreshPacket(late') /\ late'.op = late.op
      /\ late' # NoPacket => late # NoPacket
  BY <1>1, AgedPacket DEF IpcInv, IpcTypeOK
<1> QED
  BY <1>1, <1>2 DEF IpcInv, IpcTypeOK, SocketInv, ArmInv, FreshPacket

LEMMA IpcInvNext ==
  ASSUME IpcInv, GuardInv, [AdapterNext]_adapter_vars
  PROVE  IpcInv'
<1>1. CASE OdometryFallsSilent
  BY <1>1, IpcUntouched DEF OdometryFallsSilent, Untouched
<1>2. CASE AdapterRestarts
  BY <1>2, CloseKeepsIpc DEF AdapterRestarts
<1>3. CASE UNCHANGED adapter_vars
  BY <1>3, IpcUntouched DEF adapter_vars
<1> QED
  BY <1>1, <1>2, <1>3, ExecutorKeepsIpc, CallbacksKeepIpc, DaemonKeepsIpc,
     TimeKeepsIpc
     DEF AdapterNext

-----------------------------------------------------------------------------
(* The guard inside the adapter.  Three actions are no step of SafetyGuard:  *)
(* a refused state, which updates and faults it at once, the acknowledgement *)
(* of a marker, and the start of a new process.                              *)

LEMMA GuardKept == ASSUME GuardInv, UNCHANGED guard_vars PROVE GuardInv'
  BY GuardInvNext

LEMMA FaultKeepsGuard ==
  ASSUME GuardInv, FailClosedCommissioningStop
  PROVE  GuardInv'
  BY GuardInvNext DEF FailClosedCommissioningStop, GuardNext

LEMMA InvalidStateKeepsGuard ==
  ASSUME GuardInv, OnInvalidState
  PROVE  GuardInv'
<1>1. /\ robot_age' = 0 /\ robot_ok' = FALSE
      /\ UNCHANGED <<command, command_finite, command_age, preparation_age,
                     decision, quiet_age>>
  BY DEF OnInvalidState
<1>2. \/ state' = "Fault" /\ output' = 0
      \/ UNCHANGED <<state, output>>
  BY AdapterAssumption DEF OnInvalidState, ForceFault
<1>3. 0 \in Age(StateTimeout + 1) /\ 0 \in 0..MaxSpeed
  BY ZeroIsAnAge, GuardAssumption
<1> QED
  BY <1>1, <1>2, <1>3, AdapterAssumption DEF GuardInv, GuardTypeOK,
     NoResidualOutput, Preamble, Immobile, GuardState

\* A changed marker keeps the guard in Fault until it is acknowledged: without
\* it, an acknowledgement could leave a guard preparing with no preparation time.
MarkerInv == marker_changed => state = "Fault"

LEMMA AcknowledgementKeepsGuard ==
  ASSUME GuardInv, MarkerInv, OnMarkerAcknowledgement
  PROVE  GuardInv'
<1>1. CASE UNCHANGED guard_vars
  BY <1>1, GuardKept
<1>2. CASE /\ robot_ok' = TRUE /\ state' \in {"Disarmed", "Fault"}
           /\ output' = 0 /\ preparation_age' = NoStamp
           /\ UNCHANGED <<robot_age, command, command_finite, command_age,
                          decision, quiet_age>>
  <2>1. NoStamp \in Age(ZeroPreparation) /\ 0 \in 0..MaxSpeed
    BY ZeroIsAnAge, GuardAssumption
  <2> QED
    BY <1>2, <2>1, AdapterAssumption DEF GuardInv, GuardTypeOK,
       NoResidualOutput, Preamble, Immobile, GuardState
<1> QED
  BY <1>1, <1>2 DEF OnMarkerAcknowledgement, MarkerInv

LEMMA RestartKeepsGuard == ASSUME AdapterRestarts PROVE GuardInv'
<1>1. /\ NoStamp \in Age(StateTimeout + 1) /\ NoStamp \in Age(CommandTimeout + 1)
      /\ NoStamp \in Age(ZeroPreparation) /\ 0 \in 0..MaxSpeed /\ 0 \in Int
  BY ZeroIsAnAge, GuardAssumption
<1> QED
  BY <1>1, AdapterAssumption DEF AdapterRestarts, GuardInv, GuardTypeOK,
     NoResidualOutput, Preamble, Immobile, GuardState

LEMMA CallbacksKeepGuard ==
  ASSUME GuardInv, MarkerInv, Callbacks
  PROVE  GuardInv'
<1>1. CASE OnSportModeState
  <2>1. UpdateRobotState(~marker_changed)
    BY <1>1 DEF OnSportModeState
  <2>2. UpdateRobotState(TRUE) \/ UpdateRobotState(FALSE)
    BY <2>1 DEF UpdateRobotState
  <2> QED
    BY <2>2, GuardInvNext DEF GuardNext
<1>2. ASSUME NEW integrity, LoseOdometry(integrity) PROVE GuardInv'
  BY <1>2, FaultKeepsGuard, GuardKept DEF LoseOdometry
<1>3. CASE OnExternalOdometry
  BY <1>2, <1>3, FaultKeepsGuard, GuardKept DEF OnExternalOdometry
<1>4. ASSUME NEW v \in Commands, OnVelocityCommand(v, TRUE) PROVE GuardInv'
  BY <1>4, FaultKeepsGuard, GuardInvNext DEF OnVelocityCommand, GuardNext
<1>5. CASE OnVelocityCommand(0, FALSE)
  BY <1>5, FaultKeepsGuard, GuardInvNext DEF OnVelocityCommand, GuardNext
<1>6. CASE OnArmRequest
  BY <1>6, GuardInvNext DEF OnArmRequest, GuardNext
<1>7. CASE OnDisarmRequest
  BY <1>7, GuardInvNext DEF OnDisarmRequest, GuardNext
<1> QED
  BY <1>1, <1>2, <1>3, <1>4, <1>5, <1>6, <1>7, InvalidStateKeepsGuard,
     AcknowledgementKeepsGuard
     DEF Callbacks, OnRefusedInput

LEMMA ExecutorKeepsGuard == ASSUME GuardInv, Executor PROVE GuardInv'
<1>1. CASE HandleIpcFault \/ FailClosedTick
  BY <1>1, FaultKeepsGuard DEF HandleIpcFault, FailClosedTick
<1>2. CASE OnControlTimer
  BY <1>2, TickKeepsGuardInv DEF OnControlTimer
<1>3. CASE Stopped \/ Disarmed \/ Restored \/ Armed \/ Commanded \/ LoseExchange
  <2>1. UNCHANGED guard_vars
    BY <1>3 DEF Stopped, Disarmed, Restored, Finish, Armed, Commanded, LoseExchange
  <2> QED
    BY <2>1, GuardKept
<1> QED
  BY <1>1, <1>2, <1>3 DEF Executor

LEMMA GuardInvAdapter ==
  ASSUME GuardInv, MarkerInv, [AdapterNext]_adapter_vars
  PROVE  GuardInv'
<1>1. CASE DaemonLoop
  <2>1. UNCHANGED guard_vars
    BY <1>1 DEF DaemonLoop, Accepts, Handles, HandlesLate, HangsUp,
       WatchdogStops, RetriesStop, OnlyDaemon
  <2> QED
    BY <2>1, GuardKept
<1>2. CASE OdometryFallsSilent \/ UNCHANGED adapter_vars
  BY <1>2, GuardKept DEF OdometryFallsSilent, adapter_vars
<1>3. CASE AdapterTimePasses
  BY <1>3, GuardInvNext DEF AdapterTimePasses, GuardNext
<1> QED
  BY <1>1, <1>2, <1>3, CallbacksKeepGuard, ExecutorKeepsGuard, RestartKeepsGuard
     DEF AdapterNext

LEMMA MarkerInvNext ==
  ASSUME MarkerInv, [AdapterNext]_adapter_vars
  PROVE  MarkerInv'
<1> USE AdapterAssumption DEF MarkerInv, health, guard_vars
<1>1. FailClosedCommissioningStop => state' = "Fault"
  BY DEF FailClosedCommissioningStop, ExternalFault, ForceFault
<1>2. ASSUME NEW integrity, LoseOdometry(integrity) PROVE MarkerInv'
  BY <1>1, <1>2 DEF LoseOdometry
<1>3. CASE Callbacks
  <2>1. CASE OnSportModeState
    BY <2>1 DEF OnSportModeState, UpdateRobotState
  <2>2. CASE OnInvalidState
    BY <2>2 DEF OnInvalidState, ForceFault
  <2>3. CASE OnRefusedInput \/ OnExternalOdometry
    BY <1>1, <1>2, <2>3 DEF OnRefusedInput, OnExternalOdometry
  <2>4. ASSUME NEW v, NEW finite, OnVelocityCommand(v, finite) PROVE MarkerInv'
    BY <1>1, <2>4 DEF OnVelocityCommand, UpdateCommand, ForceFault
  <2>5. CASE OnArmRequest
    BY <2>5 DEF OnArmRequest, RequestArm, ArmAccepted
  <2>6. CASE OnDisarmRequest
    BY <2>6 DEF OnDisarmRequest
  <2>7. CASE OnMarkerAcknowledgement
    BY <2>7 DEF OnMarkerAcknowledgement
  <2> QED
    BY <1>3, <2>1, <2>2, <2>3, <2>4, <2>5, <2>6, <2>7 DEF Callbacks
<1>4. CASE Executor
  <2>1. CASE HandleIpcFault \/ FailClosedTick
    BY <1>1, <2>1 DEF HandleIpcFault, FailClosedTick
  <2>2. CASE OnControlTimer
    BY <2>2 DEF OnControlTimer, Tick, IdleTick, UnhealthyTick, ForceFault,
       RestartPreparation, HoldZero, ArmedTick, Prepared
  <2>3. CASE Stopped \/ Disarmed \/ Restored \/ Armed \/ Commanded \/ LoseExchange
    BY <2>3 DEF Stopped, Disarmed, Restored, Finish, Armed, Commanded,
       LoseExchange
  <2> QED
    BY <1>4, <2>1, <2>2, <2>3 DEF Executor
<1>5. CASE DaemonLoop
  BY <1>5 DEF DaemonLoop, Accepts, Handles, HandlesLate, HangsUp, WatchdogStops,
     RetriesStop, OnlyDaemon
<1>6. CASE OdometryFallsSilent \/ AdapterTimePasses \/ AdapterRestarts
  BY <1>6 DEF OdometryFallsSilent, AdapterTimePasses, TimePasses, AdapterRestarts
<1>7. CASE UNCHANGED adapter_vars
  BY <1>7 DEF adapter_vars
<1> QED
  BY <1>3, <1>4, <1>5, <1>6, <1>7 DEF AdapterNext

-----------------------------------------------------------------------------
(* The rest of the adapter's state *)

RestTypeOK ==
  /\ last_output_stopped \in BOOLEAN
  /\ commissioning_motion_active \in BOOLEAN
  /\ commissioning_age \in 0..MaxDuration
  /\ commissioning_arm_spent \in BOOLEAN
  /\ odometry \in Odometry /\ marker_changed \in BOOLEAN
  /\ stop_success \in BOOLEAN /\ restoring \in BOOLEAN
  /\ service \in {"none", "granted", "refused", "success"}

\* What the disarm itself leaves of them.
DisarmTypeOK ==
  /\ last_output_stopped' \in BOOLEAN
  /\ commissioning_motion_active' \in BOOLEAN
  /\ commissioning_age' \in 0..MaxDuration
  /\ stop_success' \in BOOLEAN /\ restoring' \in BOOLEAN
  /\ service' \in {"none", "granted", "refused", "success"}

LEMMA DisarmTypes ==
  ASSUME RestTypeOK, NEW verdict \in {"none", "granted", "refused"},
         NEW restore \in BOOLEAN, BestEffortDaemonDisarm(verdict, restore)
  PROVE  DisarmTypeOK
  BY DEF RestTypeOK, DisarmTypeOK, BestEffortDaemonDisarm

LEMMA FailClosedTypes ==
  ASSUME RestTypeOK, FailClosedCommissioningStop
  PROVE  DisarmTypeOK
  BY DisarmTypes DEF FailClosedCommissioningStop

LEMMA CallbacksTypes == ASSUME RestTypeOK, Callbacks PROVE RestTypeOK'
<1>1. Untouched => DisarmTypeOK /\ UNCHANGED commissioning_arm_spent
  BY DEF Untouched, call, commissioning, DisarmTypeOK, RestTypeOK
<1> USE DEF health, Odometry
<1>2. CASE OnSportModeState
  BY <1>1, <1>2 DEF OnSportModeState, RestTypeOK, DisarmTypeOK
<1>3. CASE OnInvalidState
  <2>1. DisarmTypeOK
    BY <1>1, <1>3, DisarmTypes DEF OnInvalidState
  <2> QED
    BY <1>3, <2>1 DEF OnInvalidState, RestTypeOK, DisarmTypeOK
<1>4. ASSUME NEW integrity, LoseOdometry(integrity) PROVE RestTypeOK'
  <2>1. DisarmTypeOK
    BY <1>1, <1>4, FailClosedTypes DEF LoseOdometry
  <2> QED
    BY <1>4, <2>1 DEF LoseOdometry, RestTypeOK, DisarmTypeOK
<1>5. CASE OnExternalOdometry
  <2>1. CASE odometry = "silent"
    BY <1>4, <1>5, <2>1 DEF OnExternalOdometry
  <2>2. CASE odometry # "silent"
    <3>1. DisarmTypeOK
      BY <1>1, <1>5, <2>2, FailClosedTypes DEF OnExternalOdometry
    <3> QED
      BY <1>5, <2>2, <3>1 DEF OnExternalOdometry, RestTypeOK, DisarmTypeOK
  <2> QED
    BY <2>1, <2>2
<1>6. ASSUME NEW v, NEW finite, OnVelocityCommand(v, finite) PROVE RestTypeOK'
  <2>1. DisarmTypeOK /\ UNCHANGED <<commissioning_arm_spent, health>>
    BY <1>1, <1>6, FailClosedTypes DEF OnVelocityCommand
  <2> QED
    BY <2>1 DEF RestTypeOK, DisarmTypeOK
<1>7. CASE OnArmRequest
  <2>1. commissioning_arm_spent' \in BOOLEAN /\ commissioning_motion_active' \in BOOLEAN
    BY <1>7 DEF OnArmRequest
  <2> QED
    BY <1>7, <2>1 DEF OnArmRequest, RestTypeOK
<1>8. CASE OnDisarmRequest
  <2>1. (PreserveClassicWalk /\ state # "Fault") \in BOOLEAN
    OBVIOUS
  <2>2. DisarmTypeOK
    BY <1>8, <2>1, DisarmTypes DEF OnDisarmRequest
  <2> QED
    BY <1>8, <2>2 DEF OnDisarmRequest, RestTypeOK, DisarmTypeOK
<1>9. CASE OnMarkerAcknowledgement
  <2>1. DisarmTypeOK /\ marker_changed' \in BOOLEAN
    BY <1>9, DisarmTypes DEF OnMarkerAcknowledgement, RestTypeOK
  <2> QED
    BY <1>9, <2>1 DEF OnMarkerAcknowledgement, RestTypeOK, DisarmTypeOK
<1> QED
  BY <1>2, <1>3, <1>4, <1>5, <1>6, <1>7, <1>8, <1>9 DEF Callbacks, OnRefusedInput

LEMMA ExecutorTypes == ASSUME RestTypeOK, Executor PROVE RestTypeOK'
<1> USE DEF health, Odometry
<1>1. CASE HandleIpcFault \/ FailClosedTick
  <2>1. DisarmTypeOK
    BY <1>1, FailClosedTypes DEF HandleIpcFault, FailClosedTick
  <2> QED
    BY <1>1, <2>1 DEF HandleIpcFault, FailClosedTick, RestTypeOK, DisarmTypeOK
<1>2. CASE OnControlTimer
  <2>1. DisarmTypeOK
    <3>1. CASE state' = "Fault"
      BY <1>2, <3>1, DisarmTypes DEF OnControlTimer
    <3>2. CASE state' # "Fault"
      <4>1. UNCHANGED call /\ last_output_stopped' \in BOOLEAN
        BY <1>2, <3>2 DEF OnControlTimer, Command, RestTypeOK
      <4>2. BeginMotion \/ UNCHANGED commissioning
        BY <1>2, <3>2 DEF OnControlTimer, Command
      <4>3. commissioning_motion_active' \in BOOLEAN /\ commissioning_age' \in 0..MaxDuration
        <5>1. 0 \in 0..MaxDuration
          BY AdapterAssumption
        <5> QED
          BY <4>2, <5>1 DEF BeginMotion, commissioning, RestTypeOK
      <4> QED
        BY <4>1, <4>3 DEF call, RestTypeOK, DisarmTypeOK
    <3> QED
      BY <3>1, <3>2
  <2> QED
    BY <1>2, <2>1 DEF OnControlTimer, RestTypeOK, DisarmTypeOK
<1>3. CASE Stopped \/ Disarmed \/ Restored
  BY <1>3 DEF Stopped, Disarmed, Restored, Finish, call, commissioning, RestTypeOK
<1>4. CASE Armed \/ Commanded \/ LoseExchange
  BY <1>4 DEF Armed, Commanded, LoseExchange, call, commissioning, RestTypeOK
<1> QED
  BY <1>1, <1>2, <1>3, <1>4 DEF Executor

LEMMA RestTypeNext ==
  ASSUME RestTypeOK, [AdapterNext]_adapter_vars
  PROVE  RestTypeOK'
<1> USE DEF health, call, commissioning, Odometry
<1>1. CASE DaemonLoop
  BY <1>1 DEF DaemonLoop, Accepts, Handles, HandlesLate, HangsUp, WatchdogStops,
     RetriesStop, OnlyDaemon, RestTypeOK
<1>2. CASE OdometryFallsSilent
  BY <1>2 DEF OdometryFallsSilent, Untouched, RestTypeOK
<1>3. CASE AdapterTimePasses
  <2>1. commissioning_age' \in 0..MaxDuration
    BY <1>3, AdapterAssumption DEF AdapterTimePasses, RestTypeOK, Older, NoStamp
  <2> QED
    BY <1>3, <2>1 DEF AdapterTimePasses, RestTypeOK
<1>4. CASE AdapterRestarts
  <2>1. odometry' \in Odometry
    BY <1>4 DEF AdapterRestarts, ExternalVerified
  <2>2. commissioning_age' \in 0..MaxDuration
    BY <1>4, AdapterAssumption DEF AdapterRestarts
  <2> QED
    BY <1>4, <2>1, <2>2 DEF AdapterRestarts, RestTypeOK
<1>5. CASE UNCHANGED adapter_vars
  BY <1>5 DEF adapter_vars, RestTypeOK
<1> QED
  BY <1>1, <1>2, <1>3, <1>4, <1>5, CallbacksTypes, ExecutorTypes DEF AdapterNext

-----------------------------------------------------------------------------
(* Theorems *)

AdapterInv == GuardInv /\ MarkerInv /\ IpcInv /\ RestTypeOK

LEMMA AdapterInvInit == AdapterInit => AdapterInv
<1> SUFFICES ASSUME AdapterInit PROVE AdapterInv
  OBVIOUS
<1>1. RestTypeOK
  <2>1. odometry \in Odometry
    BY DEF AdapterInit, ExternalVerified, Odometry
  <2>2. commissioning_age \in 0..MaxDuration
    BY AdapterAssumption DEF AdapterInit
  <2> QED
    BY <2>1, <2>2 DEF AdapterInit, RestTypeOK
<1> QED
  BY <1>1, GuardInvInit, IpcInvInit DEF AdapterInit, AdapterInv, MarkerInv

LEMMA AdapterInvNext == AdapterInv /\ [AdapterNext]_adapter_vars => AdapterInv'
  BY GuardInvAdapter, MarkerInvNext, IpcInvNext, RestTypeNext DEF AdapterInv

\* Every reachable state of the adapter, of its socket and of the daemon is well
\* typed.
THEOREM AdapterTypeCorrect == AdapterSpec => []AdapterTypeOK
<1>1. AdapterInv => AdapterTypeOK
  BY DEF AdapterInv, GuardInv, IpcInv, IpcTypeOK, RestTypeOK, Packet, AdapterTypeOK
<1> QED
  BY <1>1, AdapterInvInit, AdapterInvNext, PTL DEF AdapterSpec

\* The adapter always knows of an arm it has, or the daemon is about to take it
\* back: no failed disarm, lost reply, failed reconnection or restart of the
\* process leaves one behind.
THEOREM ArmIsKnown == AdapterSpec => []DaemonArmIsKnown
<1>1. AdapterInv => DaemonArmIsKnown
  BY DEF AdapterInv, IpcInv, IpcTypeOK, ArmInv, SocketInv, DaemonArmIsKnown, Idle
<1> QED
  BY <1>1, AdapterInvInit, AdapterInvNext, PTL DEF AdapterSpec

\* No exchange the executor is blocked in, and no closed connection, lets a Move
\* outlive the inputs it was decided on.
THEOREM MovesAreFresh == AdapterSpec => []MoveIsFresh
<1>1. AdapterInv => MoveIsFresh
  BY DEF AdapterInv, IpcInv, FreshPacket, MoveIsFresh
<1> QED
  BY <1>1, AdapterInvInit, AdapterInvNext, PTL DEF AdapterSpec

\* The guard inside the adapter keeps what it promises on its own, also where
\* the adapter changes it by other ways than its public methods.
THEOREM AdapterKeepsGuard == AdapterSpec => [](GuardTypeOK /\ NoResidualOutput)
<1>1. AdapterInv => GuardTypeOK /\ NoResidualOutput
  BY DEF AdapterInv, GuardInv
<1> QED
  BY <1>1, AdapterInvInit, AdapterInvNext, PTL DEF AdapterSpec

\* How the adapter gets at its guard: by the guard's own operations, and past
\* them in three places.
LEMMA AdapterStepsOfGuard ==
  ASSUME [AdapterNext]_adapter_vars
  PROVE  \/ [GuardNext]_guard_vars
         \/ OnInvalidState \/ OnMarkerAcknowledgement \/ AdapterRestarts
<1>1. CASE UNCHANGED adapter_vars
  BY <1>1 DEF adapter_vars
<1>2. CASE Stopped \/ Disarmed \/ Restored \/ Armed \/ Commanded \/ LoseExchange
  BY <1>2 DEF Stopped, Disarmed, Restored, Finish, Armed, Commanded, LoseExchange
<1>3. CASE HandleIpcFault \/ FailClosedTick
  BY <1>3 DEF HandleIpcFault, FailClosedTick, FailClosedCommissioningStop, GuardNext
<1>4. CASE OnControlTimer
  BY <1>4 DEF OnControlTimer, GuardNext
<1>5. CASE OnSportModeState
  <2>1. (~marker_changed) \in BOOLEAN
    OBVIOUS
  <2> QED
    BY <1>5, <2>1 DEF OnSportModeState, GuardNext
<1>6. CASE OnRefusedInput \/ OnExternalOdometry \/ OdometryFallsSilent
  BY <1>6 DEF OnRefusedInput, OnExternalOdometry, OdometryFallsSilent, LoseOdometry,
     FailClosedCommissioningStop, GuardNext
<1>7. ASSUME NEW v \in Commands, OnVelocityCommand(v, TRUE)
      PROVE  GuardNext
  BY <1>7 DEF OnVelocityCommand, FailClosedCommissioningStop, GuardNext
<1>8. CASE OnVelocityCommand(0, FALSE)
  BY <1>8 DEF OnVelocityCommand, FailClosedCommissioningStop, GuardNext
<1>9. CASE OnArmRequest \/ OnDisarmRequest
  BY <1>9 DEF OnArmRequest, OnDisarmRequest, GuardNext
<1>10. CASE DaemonLoop
  BY <1>10 DEF DaemonLoop, Accepts, Handles, HandlesLate, HangsUp, WatchdogStops,
     RetriesStop, OnlyDaemon
<1>11. CASE AdapterTimePasses
  BY <1>11 DEF AdapterTimePasses, GuardNext
<1> QED
  BY <1>1, <1>2, <1>3, <1>4, <1>5, <1>6, <1>7, <1>8, <1>9, <1>10, <1>11
     DEF AdapterNext, Executor, Callbacks

\* The acceleration limit holds over the adapter's stops, faults and restarts.
THEOREM AdapterAccelerationBounded == AdapterSpec => AccelerationIsLimited
<1>1. ASSUME AdapterInv, [AdapterNext]_adapter_vars
      PROVE  [/\ output' <= output + MaxStep
              /\ output' >= output - MaxStep \/ output' = 0]_guard_vars
  <2>1. GuardInv /\ output \in 0..MaxSpeed
    BY <1>1 DEF AdapterInv, GuardInv, GuardTypeOK
  <2>2. CASE [GuardNext]_guard_vars
    BY <2>1, <2>2, SlewSteps
  <2>3. CASE output' \in {0, output}
    BY <2>1, <2>3, GuardAssumption
  <2>4. OnInvalidState \/ OnMarkerAcknowledgement \/ AdapterRestarts
          => output' \in {0, output}
    BY DEF OnInvalidState, OnMarkerAcknowledgement, AdapterRestarts, ForceFault, guard_vars
  <2> QED
    BY <1>1, <2>2, <2>3, <2>4, AdapterStepsOfGuard
<1> QED
  BY <1>1, AdapterInvInit, AdapterInvNext, PTL DEF AdapterSpec, AccelerationIsLimited

\* No exchange the executor is blocked in, no refused input and no marker takes
\* the place of the preamble: the adapter's guard arms as the guard alone does.
THEOREM AdapterArmsAfterZero == AdapterSpec => ArmedAfterPreamble
<1>1. ASSUME AdapterInv, [AdapterNext]_adapter_vars
      PROVE  [state # "Armed" /\ state' = "Armed"
                => state = "Preparing" /\ quiet_age >= ZeroPreparation]_guard_vars
  <2>1. CASE [GuardNext]_guard_vars
    BY <1>1, <2>1, ArmingSteps DEF AdapterInv
  <2>2. OnInvalidState \/ OnMarkerAcknowledgement \/ AdapterRestarts
          => (state' = "Armed" => state = "Armed")
    BY DEF OnInvalidState, OnMarkerAcknowledgement, AdapterRestarts, ForceFault, guard_vars
  <2> QED
    BY <1>1, <2>1, <2>2, AdapterStepsOfGuard
<1> QED
  BY <1>1, AdapterInvInit, AdapterInvNext, PTL DEF AdapterSpec, ArmedAfterPreamble

\* The ways around the guard's own latch do not open it: the measurements an
\* acknowledgement sets are those of a state that is fresh, and a disarm under a
\* changed marker is an acknowledgement.
THEOREM AdapterFaultLatched == AdapterSpec => FaultEndsOnEvidence
<1>1. ASSUME AdapterInv, [AdapterNext]_adapter_vars
      PROVE  [state = "Fault" /\ state' # "Fault" =>
                /\ state' = "Disarmed"
                /\ \/ /\ FreshState /\ FreshCommand /\ command_finite /\ IsZero
                      /\ ~marker_changed'
                   \/ robot_age' = NoStamp /\ command_age' = NoStamp]_adapter_vars
  <2>1. SUFFICES ASSUME state = "Fault", state' # "Fault"
                 PROVE  /\ state' = "Disarmed"
                        /\ \/ /\ FreshState /\ FreshCommand /\ command_finite /\ IsZero
                              /\ ~marker_changed'
                           \/ robot_age' = NoStamp /\ command_age' = NoStamp
    OBVIOUS
  <2>2. CASE [GuardNext]_guard_vars
    <3>1. state' = "Disarmed" /\ Healthy /\ IsZero
      BY <1>1, <2>1, <2>2, FaultSteps DEF AdapterInv, guard_vars
    <3>2. ~marker_changed'
      BY <1>1, <2>1, AdapterInvNext DEF AdapterInv, MarkerInv
    <3> QED
      BY <3>1, <3>2 DEF Healthy
  <2>3. CASE OnInvalidState
    BY <1>1, <2>1, <2>3 DEF OnInvalidState, ForceFault, AdapterInv, GuardInv, Immobile
  <2>4. CASE OnMarkerAcknowledgement
    BY <2>1, <2>4 DEF OnMarkerAcknowledgement, guard_vars
  <2>5. CASE AdapterRestarts
    BY <2>5 DEF AdapterRestarts
  <2> QED
    BY <1>1, <2>2, <2>3, <2>4, <2>5, AdapterStepsOfGuard
<1> QED
  BY <1>1, AdapterInvInit, AdapterInvNext, PTL DEF AdapterSpec, FaultEndsOnEvidence

\* All the adapter sees of the daemon are steps of a MotionSupervisor, which the
\* daemon of SportDaemon implements: packets, a late command of a closed
\* connection, a watchdog and a hang-up included.
THEOREM DaemonIsSupervisor == AdapterSpec => Daemon!Spec
<1> USE DEF Daemon!supervisor_vars, daemon
<1>1. AdapterInit => Daemon!Init
  BY DEF AdapterInit
<1>2. ASSUME NEW p \in Packet, p.op # "none", NEW ok \in BOOLEAN, Executes(p, ok)
      PROVE  [Daemon!Next]_(Daemon!supervisor_vars)
  <2>1. p.op \in {"Arm", "Disarm", "Move", "Stop", "Ping", "RestoreClassicWalk"}
    BY <1>2 DEF Packet
  <2> QED
    BY <1>2, <2>1 DEF Executes, StopFails, Daemon!Next
<1>3. ASSUME AdapterInv, [AdapterNext]_adapter_vars
      PROVE  [Daemon!Next]_(Daemon!supervisor_vars)
  <2>1. CASE Handles
    <3>1. wire \in Packet /\ wire.op # "none"
      BY <1>3, <2>1 DEF Handles, AdapterInv, IpcInv, IpcTypeOK, SocketInv, CommandsOf
    <3> QED
      BY <1>2, <2>1, <3>1 DEF Handles
  <2>2. CASE HandlesLate
    <3>1. late \in Packet /\ late.op # "none"
      BY <1>3, <2>2 DEF HandlesLate, AdapterInv, IpcInv, IpcTypeOK, SocketInv
    <3> QED
      BY <1>2, <2>2, <3>1 DEF HandlesLate
  <2>3. CASE HangsUp \/ WatchdogStops \/ RetriesStop
    BY <2>3 DEF HangsUp, WatchdogStops, RetriesStop, StopFails, Daemon!Next
  <2>4. CASE Accepts \/ OdometryFallsSilent \/ AdapterTimePasses \/ AdapterRestarts
             \/ UNCHANGED adapter_vars
    BY <2>4 DEF Accepts, OdometryFallsSilent, Untouched, AdapterTimePasses,
       AdapterRestarts, adapter_vars
  <2>5. CASE Executor
    BY <2>5 DEF Executor, Stopped, Disarmed, Restored, Finish, Armed, Commanded,
       HandleIpcFault, FailClosedTick, FailClosedCommissioningStop,
       BestEffortDaemonDisarm, OnControlTimer, LoseExchange
  <2>6. CASE Callbacks
    BY <2>6 DEF Callbacks, OnSportModeState, OnInvalidState, OnRefusedInput,
       LoseOdometry, OnExternalOdometry, OnVelocityCommand, OnArmRequest,
       OnDisarmRequest, OnMarkerAcknowledgement, FailClosedCommissioningStop,
       BestEffortDaemonDisarm, Untouched
  <2> QED
    BY <1>3, <2>1, <2>2, <2>3, <2>4, <2>5, <2>6 DEF AdapterNext, DaemonLoop
<1> QED
  BY <1>1, <1>3, AdapterInvInit, AdapterInvNext, PTL DEF AdapterSpec, Daemon!Spec

\* What a MotionSupervisor promises, of the daemon the adapter is composed with:
\* whatever is moving has the owner of the arm behind it, or the latch.
LEMMA AdapterMotionIsOwned == AdapterSpec => []Daemon!MotionIsOwned
<1>1. Daemon!Init => Daemon!MotionIsOwned
  BY DEF Daemon!Init, Daemon!MotionIsOwned
<1>2. Daemon!MotionIsOwned /\ [Daemon!Next]_(Daemon!supervisor_vars)
        => Daemon!MotionIsOwned'
  <2> USE DEF Daemon!MotionIsOwned
  <2>1. ASSUME Daemon!MotionIsOwned, NEW c \in {"adapter"}, Daemon!Arm(c) \/ Daemon!Drive(c)
        PROVE  Daemon!MotionIsOwned'
    BY <2>1 DEF Daemon!Arm, Daemon!Drive
  <2>2. ASSUME Daemon!MotionIsOwned,
               Daemon!Halt \/ Daemon!Disarm \/ Daemon!Fault \/ Daemon!Release
        PROVE  Daemon!MotionIsOwned'
    BY <2>2 DEF Daemon!Halt, Daemon!Disarm, Daemon!Fault, Daemon!Release
  <2>3. ASSUME Daemon!MotionIsOwned, UNCHANGED Daemon!supervisor_vars
        PROVE  Daemon!MotionIsOwned'
    BY <2>3 DEF Daemon!supervisor_vars
  <2> QED
    BY <2>1, <2>2, <2>3 DEF Daemon!Next
<1> QED
  BY <1>1, <1>2, DaemonIsSupervisor, PTL DEF Daemon!Spec

\* No exchange that fails, no restart and no late command leaves a robot moving
\* that neither the latch nor the adapter knows of: the ownership that the daemon
\* keeps and the knowledge of the arm that the adapter keeps, put together.
THEOREM MotionKnown == AdapterSpec => []MotionIsKnown
<1>1. AdapterInv => IpcTypeOK
  BY DEF AdapterInv, IpcInv
<1>2. DaemonArmIsKnown /\ Daemon!MotionIsOwned /\ IpcTypeOK => MotionIsKnown
  BY DEF DaemonArmIsKnown, Daemon!MotionIsOwned, IpcTypeOK, MotionIsKnown
<1> QED
  BY <1>1, <1>2, ArmIsKnown, AdapterMotionIsOwned, AdapterInvInit, AdapterInvNext, PTL
     DEF AdapterSpec

=============================================================================
