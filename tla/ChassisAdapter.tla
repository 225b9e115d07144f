---------------------------- MODULE ChassisAdapter ----------------------------
(***************************************************************************)
(* The motion side of the ROS chassis adapter, go2_chassis_adapter_node.cpp *)
(* of packages/go2_chassis: its one executor thread around a SafetyGuard,  *)
(* its IPC client, and the daemon on the other end of the socket.          *)
(*                                                                         *)
(* The executor runs one callback at a time, and a callback that talks to  *)
(* the daemon blocks in Exchange: task says in which exchange.  Meanwhile   *)
(* time passes, inputs age, and the daemon acts; it may also act on a       *)
(* command of a connection the adapter has given up.  The daemon is the     *)
(* abstract MotionSupervisor, which SportDaemon implements, plus what its   *)
(* loop does with one connection after the other.                           *)
(***************************************************************************)
EXTENDS SafetyGuard

CONSTANTS
  MotionProfile,        \* motion_profile: "first", "second" or "staged"
  PreserveClassicWalk,  \* preserve_classic_walk
  Lifetime,             \* of a command packet, in ticks of time
  MaxDuration           \* commissioning_max_duration_sec in ticks; 0: no limit

\* A passive adapter has neither an IPC client nor a control timer.
ASSUME AdapterAssumption ==
  /\ AllowMotion
  /\ MotionProfile \in {"first", "second", "staged"}
  /\ PreserveClassicWalk \in BOOLEAN
  /\ Lifetime \in Nat /\ MaxDuration \in Nat

VARIABLES
  task,                         \* what the executor is blocked in
  daemon_armed,                 \* daemon_armed_
  last_output_stopped,          \* last_output_stopped_
  commissioning_motion_active,  \* commissioning_motion_active_
  commissioning_age,            \* age of commissioning_motion_start_sec_
  commissioning_arm_spent,      \* commissioning_arm_spent_
  odometry,                     \* the external odometry, see Odometry
  marker_changed,               \* change_latched of the marker policy
  stop_success,                 \* stop_success of BestEffortDaemonDisarm
  restoring,                    \* restore_classic_walk
  service,                      \* the disarm service call being answered
  link,                         \* the socket: "down" or "up"
  wire,                         \* the command in the socket
  late,                         \* the unread command of a closed connection
  reply,                        \* what the exchange has got so far
  served,                       \* whose connection the daemon serves
  owner, driver, latched        \* the daemon, as a MotionSupervisor

daemon == <<owner, driver, latched>>
ipc == <<link, wire, late, reply, served>>
commissioning == <<commissioning_motion_active, commissioning_age>>
call == <<stop_success, restoring, service>>
health == <<odometry, marker_changed>>
adapter_vars ==
  <<guard_vars, task, daemon_armed, last_output_stopped, commissioning,
    commissioning_arm_spent, health, call, ipc, daemon>>

Daemon == INSTANCE MotionSupervisor
            WITH Operator <- {"adapter"}, Nothing <- "nobody"

\* Fresh, silent for longer than its timeout, lost until it comes back, or
\* given up for the rest of the process.
Odometry == {"fresh", "silent", "lost", "latched"}

Larger(a, b) == IF a > b THEN a ELSE b

InputTimeout == Larger(StateTimeout, CommandTimeout)

\* The bound on the age of a packet's evidence.
MaxEvidence == InputTimeout + Lifetime + 1

-----------------------------------------------------------------------------
(* SeqpacketClient *)

\* What is in the socket when nothing is.
NoPacket == [op |-> "none", age |-> 0, evidence |-> 0]

\* A packet is op with its age and, history, the age of the older of the two
\* inputs of the guard when it was sent.

\* Exchange up to its poll, over a connection that is there or can be made.
Send(op, waiting) ==
  /\ task' = waiting
  /\ link' = "up"
  /\ wire' = [op |-> op, age |-> 0,
              evidence |-> IF op = "Move" THEN Larger(robot_age, command_age)
                           ELSE 0]
  /\ reply' = "none"
  /\ UNCHANGED <<late, served>>

\* Where no connection can be made the answer is lost at once.
Exchange(op, waiting) ==
  \/ Send(op, waiting)
  \/ /\ link = "down"
     /\ task' = waiting
     /\ reply' = "lost"
     /\ UNCHANGED <<link, wire, late, served>>

\* The daemon finds a connection closed only when it looks; a command it has
\* not read by then may still be read.
Close ==
  /\ link' = "down"
  /\ wire' = NoPacket
  /\ IF served = "adapter"
     THEN served' = "gone" /\ late' = wire
     ELSE UNCHANGED <<served, late>>

\* Timeout, short read, invalid reply, or the daemon dropped the connection.
LoseExchange ==
  /\ task # "idle" /\ reply = "none"
  /\ Close
  /\ reply' = "lost"
  /\ UNCHANGED <<guard_vars, task, daemon_armed, last_output_stopped,
                 commissioning, commissioning_arm_spent, health, call, daemon>>

-----------------------------------------------------------------------------
(* BestEffortDaemonDisarm: a Stop if armed, a Disarm, and after a clean      *)
(* explicit disarm ClassicWalk, each an exchange of its own.  verdict is     *)
(* what the service call has come to so far, "none" outside one.             *)

BestEffortDaemonDisarm(verdict, restore) ==
  /\ commissioning_motion_active' = FALSE
  /\ stop_success' = TRUE
  /\ \/ /\ IF daemon_armed THEN Send("Stop", "stopping")
           ELSE Send("Disarm", "disarming")
        /\ restoring' = restore
        /\ service' = verdict
        /\ UNCHANGED daemon_armed
     \* The socket cannot be reconnected: the arm is forgotten all the same.
     \/ /\ link = "down"
        /\ daemon_armed' = FALSE
        /\ task' = "idle" /\ reply' = "none"
        /\ restoring' = FALSE /\ service' = "none"
        /\ UNCHANGED <<link, wire, late, served>>
  /\ UNCHANGED <<commissioning_age, last_output_stopped, daemon>>

\* The Disarm follows the Stop whatever became of it.
Stopped ==
  /\ task = "stopping" /\ reply # "none"
  /\ stop_success' = (reply = "ok")
  /\ Exchange("Disarm", "disarming")
  /\ UNCHANGED <<guard_vars, daemon_armed, last_output_stopped, commissioning,
                 commissioning_arm_spent, health, restoring, service, daemon>>

\* The adapter forgets the arm, the output and the connection whatever the
\* daemon said; only the caller of the service hears the difference.
Finish(success) ==
  /\ daemon_armed' = FALSE
  /\ last_output_stopped' = TRUE
  /\ service' = IF service = "granted" /\ success THEN "success" ELSE "none"
  /\ task' = "idle"
  /\ Close
  /\ reply' = "none"
  /\ stop_success' = TRUE /\ restoring' = FALSE
  /\ UNCHANGED <<guard_vars, commissioning, commissioning_arm_spent, health,
                 daemon>>

Disarmed ==
  /\ task = "disarming" /\ reply # "none"
  /\ LET success == stop_success /\ reply = "ok"
     IN  IF success /\ restoring
         THEN /\ Exchange("RestoreClassicWalk", "restoring")
              /\ UNCHANGED <<guard_vars, daemon_armed, last_output_stopped,
                             commissioning, commissioning_arm_spent, health,
                             call, daemon>>
         ELSE Finish(success)

\* A restoration that fails is only reported.
Restored == task = "restoring" /\ reply # "none" /\ Finish(TRUE)

-----------------------------------------------------------------------------
(* The health of the inputs *)

CommissioningSessionOpen ==
  commissioning_motion_active \/ daemon_armed \/ state \in {"Preparing", "Armed"}

FailClosedCommissioningStop ==
  /\ ExternalFault
  /\ BestEffortDaemonDisarm("none", FALSE)

\* A callback that leaves the motion side alone.
Untouched ==
  UNCHANGED <<task, daemon_armed, last_output_stopped, commissioning,
              commissioning_arm_spent, call, ipc, daemon>>

Idle == task = "idle"

ExternalVerified == MotionProfile # "first"

\* An accepted SportModeState.
OnSportModeState ==
  /\ Idle
  /\ UpdateRobotState(~marker_changed)
  /\ Untouched
  /\ UNCHANGED health

\* An accepted stamp with measurements or a marker that are not: the guard is
\* told, and faulted if a session is open or the marker changed.
OnInvalidState ==
  /\ Idle
  /\ robot_age' = 0
  /\ robot_ok' = FALSE
  /\ marker_changed' \in {TRUE, marker_changed}
  /\ odometry' = IF ExternalVerified THEN "latched" ELSE odometry
  /\ IF CommissioningSessionOpen \/ marker_changed' THEN ForceFault
     ELSE UNCHANGED <<state, output>>
  /\ IF CommissioningSessionOpen
     THEN BestEffortDaemonDisarm("none", FALSE)
     ELSE Untouched
  /\ UNCHANGED <<command, command_finite, command_age, preparation_age,
                 decision, quiet_age, commissioning_arm_spent>>

\* RejectExternalOdometry and HandleExternalOdometryLivenessLoss: a loss in a
\* session is for ever, and so is every lack of integrity.
LoseOdometry(integrity) ==
  /\ odometry' = IF integrity \/ CommissioningSessionOpen THEN "latched"
                 ELSE "lost"
  /\ IF CommissioningSessionOpen
     THEN FailClosedCommissioningStop
     ELSE UNCHANGED guard_vars /\ Untouched
  /\ UNCHANGED <<marker_changed, commissioning_arm_spent>>

\* A SportModeState or an odometry with a stamp, frame, pose or value that is
\* refused.  The guard hears of a refused stamp only through the session.
OnRefusedInput ==
  /\ Idle /\ ExternalVerified /\ odometry # "latched"
  /\ LoseOdometry(TRUE)

OnExternalOdometry ==
  /\ Idle /\ ExternalVerified /\ odometry # "latched" /\ robot_ok
  /\ IF odometry = "silent" THEN LoseOdometry(FALSE)
     ELSE /\ odometry' = "fresh"
          /\ UNCHANGED <<marker_changed, commissioning_arm_spent>>
          /\ \/ UNCHANGED guard_vars /\ Untouched
             \/ commissioning_motion_active /\ FailClosedCommissioningStop

OdometryFallsSilent ==
  /\ ExternalVerified /\ odometry = "fresh"
  /\ odometry' = "silent"
  /\ Untouched
  /\ UNCHANGED <<guard_vars, task, marker_changed>>

\* The two later profiles refuse a command outside their envelope themselves.
OnVelocityCommand(v, finite) ==
  /\ Idle
  /\ IF MotionProfile # "first" /\ (~finite \/ v < 0 \/ v > MaxSpeed)
     THEN /\ FailClosedCommissioningStop
          /\ UNCHANGED <<commissioning_arm_spent, health>>
     ELSE UpdateCommand(v, finite) /\ Untouched /\ UNCHANGED health

-----------------------------------------------------------------------------
(* The arm service *)

\* RequestArm also answers with success while the arming is under way or done.
ArmGranted == ArmAccepted \/ state \in {"Preparing", "Armed"}

\* A granted request starts the measurements of the session afresh.
OnArmRequest ==
  /\ Idle
  /\ commissioning_arm_spent => MotionProfile = "staged"
  /\ robot_ok /\ odometry = "fresh"
  /\ RequestArm
  /\ commissioning_arm_spent' = (commissioning_arm_spent \/ ArmGranted)
  /\ commissioning_motion_active' = (commissioning_motion_active /\ ~ArmGranted)
  /\ service' = "none"
  /\ UNCHANGED <<task, daemon_armed, last_output_stopped, commissioning_age,
                 health, stop_success, restoring, ipc, daemon>>

\* The guard accepts every disarm, also one that leaves its fault latched; a
\* ClassicWalk is restored only if there was no fault.
OnDisarmRequest ==
  /\ Idle /\ ~marker_changed
  /\ RequestDisarm
  /\ BestEffortDaemonDisarm("granted", PreserveClassicWalk /\ state # "Fault")
  /\ UNCHANGED <<commissioning_arm_spent, health>>

\* With a changed marker the disarm is its acknowledgement, if the marker is
\* one that can be acknowledged; the guard gets the measurements of the last
\* state first, and the latch opens only if it does get disarmed.
OnMarkerAcknowledgement ==
  /\ Idle /\ marker_changed
  /\ \/ LET disarmed == /\ FreshState /\ FreshCommand /\ command_finite /\ IsZero
        IN  /\ robot_ok' = TRUE
            /\ state' = IF disarmed THEN "Disarmed" ELSE state
            /\ output' = 0
            /\ preparation_age' = NoStamp
            /\ marker_changed' = ~disarmed
            /\ BestEffortDaemonDisarm(IF disarmed THEN "granted" ELSE "refused",
                                      FALSE)
            /\ UNCHANGED <<robot_age, command, command_finite, command_age,
                           decision, quiet_age>>
     \/ /\ BestEffortDaemonDisarm("refused", FALSE)
        /\ UNCHANGED <<guard_vars, marker_changed>>
  /\ UNCHANGED <<commissioning_arm_spent, odometry>>

-----------------------------------------------------------------------------
(* The control timer *)

DurationExceeded ==
  /\ commissioning_motion_active
  /\ MaxDuration # 0 /\ commissioning_age >= MaxDuration

\* CheckExternalOdometryInterlock, then the session's own limits.
FailClosedTick ==
  /\ Idle
  /\ \/ CommissioningSessionOpen /\ odometry # "fresh"
     \/ DurationExceeded
  /\ odometry' = IF odometry = "silent" THEN "latched" ELSE odometry
  /\ FailClosedCommissioningStop
  /\ UNCHANGED <<marker_changed, commissioning_arm_spent>>

\* BeginCommissioningMotion
BeginMotion ==
  /\ commissioning_motion_active' = TRUE
  /\ commissioning_age' = IF commissioning_motion_active THEN commissioning_age
                          ELSE 0

\* A Move, one Stop when the output has come to rest, then Pings.
Command ==
  IF decision' = "Move"
  THEN /\ BeginMotion
       /\ last_output_stopped' = FALSE
       /\ Exchange("Move", "commanding")
  ELSE /\ last_output_stopped' = TRUE
       /\ Exchange(IF last_output_stopped THEN "Ping" ELSE "Stop", "commanding")
       /\ UNCHANGED commissioning

\* A tick inside the limits; what it leads to depends on the state it left the
\* guard in.  In Fault every tick disarms again; an unarmed daemon is armed,
\* and nothing else is sent on that tick.
OnControlTimer ==
  /\ Idle
  /\ ~(CommissioningSessionOpen /\ odometry # "fresh") /\ ~DurationExceeded
  /\ Tick
  /\ odometry' = IF odometry = "silent" THEN "lost" ELSE odometry
  /\ IF state' = "Fault" THEN BestEffortDaemonDisarm("none", FALSE)
     ELSE IF state' # "Armed"
     THEN UNCHANGED <<task, daemon_armed, last_output_stopped, commissioning,
                      call, ipc, daemon>>
     ELSE /\ IF daemon_armed THEN Command
             ELSE /\ Exchange("Arm", "arming")
                  /\ UNCHANGED <<last_output_stopped, commissioning>>
          /\ UNCHANGED <<daemon_armed, call, daemon>>
  /\ UNCHANGED <<marker_changed, commissioning_arm_spent>>

\* Mutant of Armed: the arming tick goes on with its own decision.
ArmedAndMoving ==
  /\ task = "arming" /\ reply = "ok"
  /\ daemon_armed' = TRUE
  /\ last_output_stopped' = FALSE
  /\ Exchange("Move", "commanding")
  /\ UNCHANGED <<guard_vars, commissioning, commissioning_arm_spent, health,
                 call, daemon>>

Armed ==
  /\ task = "arming" /\ reply = "ok"
  /\ daemon_armed' = TRUE
  /\ last_output_stopped' = TRUE
  /\ task' = "idle"
  /\ reply' = "none"
  /\ UNCHANGED <<guard_vars, commissioning, commissioning_arm_spent, health,
                 call, link, wire, late, served, daemon>>

Commanded ==
  /\ task = "commanding" /\ reply = "ok"
  /\ task' = "idle"
  /\ reply' = "none"
  /\ UNCHANGED <<guard_vars, daemon_armed, last_output_stopped, commissioning,
                 commissioning_arm_spent, health, call, link, wire, late, served,
                 daemon>>

HandleIpcFault ==
  /\ task \in {"arming", "commanding"} /\ reply \in {"rejected", "lost"}
  /\ FailClosedCommissioningStop
  /\ UNCHANGED <<commissioning_arm_spent, health>>

-----------------------------------------------------------------------------
(* The daemon, as far as the adapter can tell.  SportDaemon has the details. *)

OnlyDaemon ==
  UNCHANGED <<guard_vars, task, daemon_armed, last_output_stopped, commissioning,
              commissioning_arm_spent, health, call>>

Accepts ==
  /\ served = "nobody" /\ link = "up"
  /\ served' = "adapter"
  /\ OnlyDaemon
  /\ UNCHANGED <<link, wire, late, reply, daemon>>

\* A fault that is not the failure of a motion command.
StopFails == Daemon!Fault /\ driver' \in {"nobody", driver}

\* Whether the command p is answered with kOk, and what it does.
Executes(p, ok) ==
  \/ p.age > Lifetime /\ ~ok /\ UNCHANGED daemon
  \/ /\ p.age <= Lifetime
     /\ CASE p.op = "Arm" ->
               IF ok THEN Daemon!Arm("adapter")
               ELSE StopFails \/ UNCHANGED daemon
          [] p.op = "Disarm" ->
               IF ok THEN Daemon!Release ELSE StopFails
          [] p.op = "Stop" ->
               IF owner = "nobody" THEN ~ok /\ UNCHANGED daemon
               ELSE IF ok THEN Daemon!Halt ELSE StopFails
          [] p.op = "Move" ->
               IF owner = "nobody" THEN ~ok /\ UNCHANGED daemon
               ELSE IF ok THEN Daemon!Drive("adapter") ELSE Daemon!Fault
          [] p.op = "Ping" ->
               (ok <=> owner # "nobody") /\ UNCHANGED daemon
          [] p.op = "RestoreClassicWalk" ->
               (ok => owner = "nobody") /\ UNCHANGED daemon

Handles ==
  /\ served = "adapter" /\ wire # NoPacket
  /\ \E ok \in BOOLEAN :
       /\ Executes(wire, ok)
       /\ reply' = IF ok THEN "ok" ELSE "rejected"
  /\ wire' = NoPacket
  /\ OnlyDaemon
  /\ UNCHANGED <<link, late, served>>

HandlesLate ==
  /\ served = "gone" /\ late # NoPacket
  /\ \E ok \in BOOLEAN : Executes(late, ok)
  /\ late' = NoPacket
  /\ OnlyDaemon
  /\ UNCHANGED <<link, wire, reply, served>>

\* Mutant of HangsUp: the next session inherits the arm.
HangsUpSilently ==
  /\ served = "gone"
  /\ served' = "nobody" /\ late' = NoPacket
  /\ OnlyDaemon
  /\ UNCHANGED <<link, wire, reply, daemon>>

HangsUp ==
  /\ served = "gone"
  /\ served' = "nobody" /\ late' = NoPacket
  /\ Daemon!Disarm \/ StopFails
  /\ OnlyDaemon
  /\ UNCHANGED <<link, wire, reply>>

WatchdogStops ==
  /\ owner # "nobody"
  /\ StopFails
  /\ OnlyDaemon
  /\ UNCHANGED ipc

RetriesStop ==
  /\ latched /\ driver # "nobody"
  /\ Daemon!Halt
  /\ OnlyDaemon
  /\ UNCHANGED ipc

-----------------------------------------------------------------------------

AdapterTimePasses ==
  /\ TimePasses
  /\ commissioning_age' = Older(commissioning_age, MaxDuration)
  /\ LET aged(p) ==
           IF p = NoPacket THEN p
           ELSE [p EXCEPT !.age = Older(@, Lifetime + 1),
                          !.evidence = Older(@, MaxEvidence)]
     IN  wire' = aged(wire) /\ late' = aged(late)
  /\ UNCHANGED <<task, daemon_armed, last_output_stopped,
                 commissioning_motion_active, commissioning_arm_spent, health,
                 call, link, reply, served, daemon>>

AdapterInit ==
  /\ GuardInit
  /\ task = "idle" /\ reply = "none"
  /\ daemon_armed = FALSE /\ last_output_stopped = TRUE
  /\ commissioning_motion_active = FALSE /\ commissioning_age = 0
  /\ commissioning_arm_spent = FALSE
  /\ odometry = (IF ExternalVerified THEN "lost" ELSE "fresh")
  /\ marker_changed = FALSE
  /\ stop_success = TRUE /\ restoring = FALSE /\ service = "none"
  /\ link = "down" /\ served = "nobody"
  /\ wire = NoPacket /\ late = NoPacket
  /\ Daemon!Init

\* The adapter's process ends, in the middle of a call if it has to, and
\* another one is started; the operating system closes the connection.
AdapterRestarts ==
  /\ state' = "Disarmed"
  /\ robot_age' = NoStamp /\ robot_ok' = FALSE
  /\ command' = 0 /\ command_finite' = TRUE /\ command_age' = NoStamp
  /\ preparation_age' = NoStamp /\ quiet_age' = NoStamp
  /\ output' = 0 /\ decision' = "none"
  /\ task' = "idle" /\ reply' = "none"
  /\ daemon_armed' = FALSE /\ last_output_stopped' = TRUE
  /\ commissioning_motion_active' = FALSE /\ commissioning_age' = 0
  /\ commissioning_arm_spent' = FALSE
  /\ odometry' = (IF ExternalVerified THEN "lost" ELSE "fresh")
  /\ marker_changed' = FALSE
  /\ stop_success' = TRUE /\ restoring' = FALSE /\ service' = "none"
  /\ Close
  /\ UNCHANGED daemon

Executor ==
  \/ Stopped \/ Disarmed \/ Restored \/ Armed \/ Commanded \/ HandleIpcFault
  \/ FailClosedTick \/ OnControlTimer \/ LoseExchange

Callbacks ==
  \/ OnSportModeState \/ OnInvalidState \/ OnRefusedInput \/ OnExternalOdometry
  \/ \E v \in Commands : OnVelocityCommand(v, TRUE)
  \/ OnVelocityCommand(0, FALSE)
  \/ OnArmRequest \/ OnDisarmRequest \/ OnMarkerAcknowledgement

DaemonLoop ==
  \/ Accepts \/ Handles \/ HandlesLate \/ HangsUp \/ WatchdogStops \/ RetriesStop

AdapterNext ==
  \/ Executor \/ Callbacks \/ DaemonLoop
  \/ OdometryFallsSilent \/ AdapterTimePasses \/ AdapterRestarts

AdapterSpec == AdapterInit /\ [][AdapterNext]_adapter_vars

\* The executor and the daemon's loop run, an exchange does not block for
\* ever, and a StopMove that is retried for ever is confirmed one day.
FairAdapterSpec ==
  /\ AdapterSpec
  /\ WF_adapter_vars(Executor)
  /\ WF_adapter_vars(HangsUp)
  /\ SF_adapter_vars(RetriesStop)

-----------------------------------------------------------------------------
(* Properties *)

\* Types of the adapter, of its socket and of the daemon.
AdapterTypeOK ==
  /\ GuardTypeOK
  /\ task \in {"idle", "arming", "commanding", "stopping", "disarming",
               "restoring"}
  /\ daemon_armed \in BOOLEAN /\ last_output_stopped \in BOOLEAN
  /\ commissioning_motion_active \in BOOLEAN
  /\ commissioning_age \in 0..MaxDuration
  /\ commissioning_arm_spent \in BOOLEAN
  /\ odometry \in Odometry /\ marker_changed \in BOOLEAN
  /\ stop_success \in BOOLEAN /\ restoring \in BOOLEAN
  /\ service \in {"none", "granted", "refused", "success"}
  /\ link \in {"down", "up"}
  /\ {wire, late} \subseteq
       [op: {"none", "Arm", "Disarm", "Move", "Stop", "Ping",
             "RestoreClassicWalk"},
        age: 0..(Lifetime + 1), evidence: 0..MaxEvidence]
  /\ reply \in {"none", "ok", "rejected", "lost"}
  /\ served \in {"nobody", "adapter", "gone"}
  /\ owner \in {"nobody", "adapter"} /\ driver \in {"nobody", "adapter"}
  /\ latched \in BOOLEAN

\* An armed daemon is one the adapter knows it has armed, or one that is about
\* to find the connection closed: no failed disarm, lost reply, failed
\* reconnection or restart leaves an arm behind that nobody takes back.
DaemonArmIsKnown ==
  Idle /\ owner # "nobody" => daemon_armed \/ served = "gone"

\* A robot that may be moving stands behind the daemon's latch, or it moves under
\* an arm that the adapter knows or that is about to find its connection closed.
\* The chain has three parties, none of which sees the whole of it.
MotionIsKnown ==
  Idle /\ driver # "nobody" => latched \/ daemon_armed \/ served = "gone"

\* A Move the daemon would still accept was decided on inputs that were fresh
\* when it was sent: no exchange the executor was blocked in lies in between.
MoveIsFresh ==
  \A p \in {wire, late} :
    p.op = "Move" /\ p.age <= Lifetime => p.evidence <= InputTimeout + p.age

\* The guard's latch, with all the ways the adapter has into and around it: a
\* fault ends with a new process, or in Disarmed under fresh inputs, a zero
\* command and a marker that is not, or no longer, a changed one.
FaultEndsOnEvidence ==
  [][state = "Fault" /\ state' # "Fault" =>
       /\ state' = "Disarmed"
       /\ \/ /\ FreshState /\ FreshCommand /\ command_finite /\ IsZero
             /\ ~marker_changed'
          \/ robot_age' = NoStamp /\ command_age' = NoStamp]_adapter_vars

\* Whatever faulted the guard, the robot is stopped, also if no exchange with
\* the daemon ever succeeds again.
FaultStopsRobot == state = "Fault" ~> driver = "nobody"

=============================================================================
