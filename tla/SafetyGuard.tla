------------------------------ MODULE SafetyGuard ------------------------------
(***************************************************************************)
(* The guard of the ROS adapter: class SafetyGuard of                      *)
(* packages/go2_chassis/include/go2_chassis/safety_guard.hpp.              *)
(*                                                                         *)
(* The guard decides, on every control tick, whether the latest velocity   *)
(* command may become a Move.  It is armed by an operator, after a zero    *)
(* preamble, and supervised by the age of the robot's state and of the     *)
(* command.  One velocity axis stands for the three: speeds are whole      *)
(* quanta, the epsilon of IsZero is less than one of them, and the control *)
(* timer gives every tick the same dt, so that the acceleration limit is a *)
(* number of quanta per tick.                                              *)
(***************************************************************************)
EXTENDS Ages

CONSTANTS
  AllowMotion,       \* allow_motion
  StateTimeout,      \* state_timeout_sec, in ticks of time
  CommandTimeout,    \* command_timeout_sec, in ticks of time
  ZeroPreparation,   \* zero_preparation_sec, in ticks of time
  MaxSpeed,          \* max_vx, in quanta
  MaxStep,           \* acceleration limit times the control period, in quanta
  Commands           \* the velocities a controller publishes, in quanta

ASSUME GuardAssumption ==
  /\ AllowMotion \in BOOLEAN
  /\ StateTimeout \in Nat /\ CommandTimeout \in Nat /\ ZeroPreparation \in Nat
  /\ MaxSpeed \in Nat /\ MaxStep \in Nat \ {0}
  /\ Commands \subseteq Int

VARIABLES
  state,            \* GuardState
  robot_age,        \* age of last_state_sec_, NoStamp before the first state
  robot_ok,         \* state_valid_ and an allowed state_mode_
  command,          \* command_, where it is finite
  command_finite,   \* Finite(command_)
  command_age,      \* age of last_command_sec_
  preparation_age,  \* age of preparation_start_sec_
  output,           \* output_
  decision,         \* the action of the last Tick
  quiet_age         \* history: time since the arm request was accepted or,
                    \* later, since a tick or request met a non-zero command

inputs == <<robot_age, robot_ok, command, command_finite, command_age>>
guard_vars == <<state, inputs, preparation_age, output, decision, quiet_age>>

GuardState == {"Disabled", "Disarmed", "Preparing", "Armed", "Fault"}

-----------------------------------------------------------------------------
(* Health *)

FreshState == robot_age # NoStamp /\ robot_age <= StateTimeout

FreshCommand == command_age # NoStamp /\ command_age <= CommandTimeout

\* Mutant of Healthy: a command never goes stale.
HealthyWithOldCommand ==
  robot_ok /\ FreshState /\ command_finite /\ command_age # NoStamp

\* HealthFailure(now, true) is empty.
Healthy == robot_ok /\ FreshState /\ FreshCommand /\ command_finite

IsZero == command = 0

Clamp(v) == IF v < 0 THEN 0 ELSE IF v > MaxSpeed THEN MaxSpeed ELSE v

Slew(current, target) ==
  IF target > current + MaxStep THEN current + MaxStep
  ELSE IF target < current - MaxStep THEN current - MaxStep
  ELSE target

-----------------------------------------------------------------------------
(* Updates.  A motion-disabled guard stays Disabled whatever happens. *)

ForceFault ==
  /\ state' = IF AllowMotion THEN "Fault" ELSE "Disabled"
  /\ output' = 0

UpdateRobotState(ok) ==
  /\ robot_age' = 0
  /\ robot_ok' = ok
  /\ UNCHANGED <<state, command, command_finite, command_age, preparation_age,
                 output, decision, quiet_age>>

UpdateCommand(v, finite) ==
  /\ command_age' = 0
  /\ command' = v
  /\ command_finite' = finite
  /\ IF finite THEN UNCHANGED <<state, output>> ELSE ForceFault
  /\ UNCHANGED <<robot_age, robot_ok, preparation_age, decision, quiet_age>>

\* ForceFault as the adapter calls it, for a fault of its own.
ExternalFault ==
  ForceFault /\ UNCHANGED <<inputs, preparation_age, decision, quiet_age>>

-----------------------------------------------------------------------------
(* The operator *)

ArmAccepted ==
  AllowMotion /\ state = "Disarmed" /\ Healthy /\ IsZero

RequestArm ==
  /\ IF ArmAccepted
     THEN /\ state' = "Preparing"
          /\ preparation_age' = 0
          /\ output' = 0
          /\ quiet_age' = 0
     ELSE UNCHANGED <<state, preparation_age, output, quiet_age>>
  /\ UNCHANGED <<inputs, decision>>

\* A fault is only cleared by a healthy robot under a zero command.
FaultStays == state = "Fault" /\ ~(Healthy /\ IsZero)

RequestDisarm ==
  /\ output' = 0
  /\ preparation_age' = NoStamp
  /\ state' = IF ~AllowMotion THEN "Disabled"
              ELSE IF FaultStays THEN "Fault" ELSE "Disarmed"
  /\ UNCHANGED <<inputs, decision, quiet_age>>

-----------------------------------------------------------------------------
(* Tick, one action per outcome *)

StopDecision == decision' = "Stop"

IdleTick ==
  /\ state \in {"Disabled", "Disarmed", "Fault"}
  /\ StopDecision
  /\ UNCHANGED <<state, preparation_age, output, quiet_age>>

UnhealthyTick ==
  /\ state \in {"Preparing", "Armed"} /\ ~Healthy
  /\ ForceFault
  /\ StopDecision
  /\ UNCHANGED <<preparation_age, quiet_age>>

RestartPreparation ==
  /\ state = "Preparing" /\ Healthy /\ ~IsZero
  /\ preparation_age' = 0
  /\ StopDecision
  /\ quiet_age' = 0
  /\ UNCHANGED <<state, output>>

HoldZero ==
  /\ state = "Preparing" /\ Healthy /\ IsZero
  /\ preparation_age < ZeroPreparation
  /\ StopDecision
  /\ UNCHANGED <<state, preparation_age, output, quiet_age>>

\* The tick that ends the preamble arms, and is already an armed tick.
Prepared ==
  state = "Preparing" /\ IsZero /\ preparation_age >= ZeroPreparation

ArmedTick ==
  /\ state = "Armed" \/ Prepared
  /\ Healthy
  /\ state' = "Armed"
  /\ output' = Slew(output, Clamp(command))
  /\ decision' = IF Clamp(command) = 0 /\ output' = 0 THEN "Stop" ELSE "Move"
  /\ UNCHANGED <<preparation_age, quiet_age>>

Tick ==
  /\ \/ IdleTick \/ UnhealthyTick \/ RestartPreparation \/ HoldZero \/ ArmedTick
  /\ UNCHANGED inputs

-----------------------------------------------------------------------------

TimePasses ==
  /\ robot_age' = Older(robot_age, StateTimeout + 1)
  /\ command_age' = Older(command_age, CommandTimeout + 1)
  /\ preparation_age' = Older(preparation_age, ZeroPreparation)
  /\ quiet_age' = Older(quiet_age, ZeroPreparation)
  /\ UNCHANGED <<state, robot_ok, command, command_finite, output, decision>>

GuardInit ==
  /\ state = IF AllowMotion THEN "Disarmed" ELSE "Disabled"
  /\ robot_age = NoStamp /\ robot_ok = FALSE
  /\ command = 0 /\ command_finite = TRUE /\ command_age = NoStamp
  /\ preparation_age = NoStamp
  /\ output = 0
  /\ decision = "none"
  /\ quiet_age = NoStamp

GuardNext ==
  \/ \E ok \in BOOLEAN : UpdateRobotState(ok)
  \/ \E v \in Commands : UpdateCommand(v, TRUE)
  \/ UpdateCommand(0, FALSE)
  \/ RequestArm
  \/ RequestDisarm
  \/ ExternalFault
  \/ Tick
  \/ TimePasses

GuardSpec == GuardInit /\ [][GuardNext]_guard_vars

\* The control timer fires and time passes; nothing is assumed of the streams.
FairGuardSpec ==
  GuardSpec /\ WF_guard_vars(Tick) /\ WF_guard_vars(TimePasses)

-----------------------------------------------------------------------------
(* Properties *)

\* Types; the output is neither reversed nor above the profile's limit.
GuardTypeOK ==
  /\ state \in GuardState
  /\ robot_age \in Age(StateTimeout + 1) /\ robot_ok \in BOOLEAN
  /\ command \in Int /\ command_finite \in BOOLEAN
  /\ command_age \in Age(CommandTimeout + 1)
  /\ preparation_age \in Age(ZeroPreparation)
  /\ output \in 0..MaxSpeed
  /\ decision \in {"none", "Stop", "Move"}
  /\ quiet_age \in Age(ZeroPreparation)

\* Whatever ended an armed session, nothing of its velocity is left for the
\* next one to start from.
NoResidualOutput == state # "Armed" => output = 0

\* The output never rises faster than the limit, also not over a disarm and a
\* new arm; it may fall to zero at once.
AccelerationIsLimited ==
  [][/\ output' <= output + MaxStep
     /\ output' >= output - MaxStep \/ output' = 0]_guard_vars

\* A fault ends only in Disarmed, with fresh inputs and a zero command: never
\* by the inputs getting well again, never by an arm request.
FaultIsLatched ==
  [][state = "Fault" /\ state' # "Fault"
       => state' = "Disarmed" /\ Healthy /\ IsZero]_guard_vars

\* The guard gets armed only out of a preparation, whose ticks have all met a
\* zero command for the whole preamble.
ArmedAfterPreamble ==
  [][state # "Armed" /\ state' = "Armed"
       => state = "Preparing" /\ quiet_age >= ZeroPreparation]_guard_vars

\* When the state stream or the commands dry up, the Moves end.
SilenceStopsOutput ==
  \/ /\ []<><<\E ok \in BOOLEAN : UpdateRobotState(ok)>>_guard_vars
     /\ []<><<\E v \in Commands : UpdateCommand(v, TRUE)>>_guard_vars
  \/ []<>(decision # "Move")

=============================================================================
