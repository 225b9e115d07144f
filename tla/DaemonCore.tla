------------------------------ MODULE DaemonCore ------------------------------
(***************************************************************************)
(* The SDK-side safety core of the chassis: class DaemonCore of            *)
(* packages/go2_chassis/include/go2_chassis/daemon_core.hpp, together with *)
(* the packet validation it starts every command with (protocol.hpp).      *)
(*                                                                         *)
(* The daemon owns the only Unitree SportClient.  It turns validated       *)
(* commands into SDK calls, and every SDK call may fail.  Time is kept as  *)
(* ages: packet_age is the time since last_packet_ns_, motion_age the time *)
(* since motion_start_ns_, and NoStamp is the value 0 of either field.     *)
(***************************************************************************)
EXTENDS Ages, Sequences

CONSTANTS
  AllowMotion,          \* --allow-motion was given
  RepeatableArm,        \* the staged Nav2 profile
  PreserveClassicWalk,  \* --preserve-classic-walk was given
  Watchdog,             \* watchdog_ns, in ticks
  MaxMotion,            \* max_motion_ns, in ticks; 0 is "no limit"
  MaxLifetime,          \* kMaximumPacketLifetimeNs, in ticks
  Packets               \* the command packets a controller may send

\* What ParseOptions of sdk_daemon/src/main.cpp lets through: ClassicWalk is
\* for the staged profile, and the profiles with a motion limit arm only once.
Profile ==
  /\ PreserveClassicWalk => AllowMotion /\ RepeatableArm
  /\ AllowMotion => (RepeatableArm <=> MaxMotion = 0)

ASSUME ConfigAssumption ==
  /\ AllowMotion \in BOOLEAN
  /\ RepeatableArm \in BOOLEAN
  /\ PreserveClassicWalk \in BOOLEAN
  /\ Watchdog \in Nat
  /\ MaxMotion \in Nat
  /\ MaxLifetime \in Nat
  /\ Profile

VARIABLES
  armed, faulted, moving,
  sport_action_active,
  stop_unconfirmed,
  commissioning_arm_spent,
  last_sequence,
  packet_age,           \* age of last_packet_ns_
  motion_age,           \* age of motion_start_ns_
  state_fresh,          \* FreshSportState: the SDK sees a live SportModeState
  may_move,             \* history: a motion call was made and no StopMove
                        \* has been confirmed since
  last                  \* history: what the last step did, see Step below

flags == <<armed, faulted, moving, sport_action_active, stop_unconfirmed>>
ages == <<packet_age, motion_age>>
vars == <<flags, ages, commissioning_arm_spent, last_sequence, state_fresh,
          may_move, last>>

-----------------------------------------------------------------------------
(* Data *)

CommandOp == {"Arm", "Disarm", "Move", "Stop", "Ping", "RestoreClassicWalk",
              "SportAction"}

ReplyCode == {"Ok", "Malformed", "Expired", "Replay", "MotionDisabled",
              "NotArmed", "LimitExceeded", "SdkError", "FaultLatched"}

SdkCall == {"ClassicWalk", "Move", "StopMove", "SportAction"}

\* A velocity is "inside" the profile's envelope and not zero, "outside" it
\* (reverse included), "zero" up to epsilon, or "nan".
Velocity == {"zero", "inside", "outside", "nan"}

\* sealed: header, checksum, operation and reserved fields are those of a
\* well-formed command.  age is now - sent, NoStamp when the stamp lies further
\* in the future than kMaximumClockLeadNs; lifetime is deadline - sent.
CommandPacket == [op: CommandOp, sequence: Nat, velocity: Velocity,
                  sealed: BOOLEAN, age: Nat \cup {NoStamp}, lifetime: Int]

ASSUME PacketsAssumption == Packets \subseteq CommandPacket

ValidateCommand(p) ==
  IF ~p.sealed \/ p.velocity = "nan" \/ p.age = NoStamp THEN "Malformed"
  ELSE IF p.age > p.lifetime THEN "Expired"
  ELSE IF p.lifetime > MaxLifetime \/ (p.op # "Move" /\ p.velocity # "zero")
  THEN "Malformed" ELSE "Ok"

\* What a step did: the command it answered ("none" outside Handle), the reply
\* code, and the SDK calls it made, in order.
Step(op, code, calls) == [op |-> op, code |-> code, calls |-> calls]

Quiet == Step("none", "Ok", << >>)

-----------------------------------------------------------------------------
(* The stop paths.  ok is whether StopMove was confirmed (result 0). *)

\* Mutant of Stop: a failed StopMove leaves the arm in place.
StopKeepsArm(disarm, ok) ==
  /\ moving' = FALSE
  /\ sport_action_active' = FALSE
  /\ armed' = (armed /\ ~disarm)
  /\ faulted' = (faulted \/ ~ok)
  /\ stop_unconfirmed' = ~ok
  /\ may_move' = (may_move /\ ~ok)

\* Stop(disarm)
Stop(disarm, ok) ==
  /\ moving' = FALSE
  /\ sport_action_active' = FALSE
  /\ armed' = (armed /\ ~disarm /\ ok)
  /\ faulted' = (faulted \/ ~ok)
  /\ stop_unconfirmed' = ~ok
  /\ may_move' = (may_move /\ ~ok)

\* FaultStop(): StopMove only when armed, the latch always.  dispatched is
\* whether the failing command has already put a motion call on the wire.
FaultStop(dispatched, ok) ==
  LET stops == AllowMotion /\ armed IN
  /\ stop_unconfirmed' = IF stops THEN ~ok ELSE stop_unconfirmed
  /\ may_move' = ((may_move \/ dispatched) /\ ~(stops /\ ok))
  /\ moving' = FALSE
  /\ sport_action_active' = FALSE
  /\ armed' = FALSE
  /\ faulted' = TRUE

ClearLocally ==
  /\ armed' = FALSE
  /\ moving' = FALSE
  /\ sport_action_active' = FALSE
  /\ UNCHANGED may_move

\* ExplicitDisarm() once it has something to stop.
ClearForDisarm(ok) ==
  /\ armed' = FALSE
  /\ moving' = FALSE
  /\ sport_action_active' = FALSE
  /\ faulted' = ~ok
  /\ stop_unconfirmed' = ~ok
  /\ may_move' = (may_move /\ ~ok)

\* Mutant of NothingToStop: a latched fault does not ask for another stop.
NothingArmed == ~armed /\ ~moving

NothingToStop == ~armed /\ ~moving /\ ~faulted /\ ~stop_unconfirmed

SdkErrorUnless(ok) == IF ok THEN "Ok" ELSE "SdkError"

-----------------------------------------------------------------------------
(* Handle, one action per CommandOp.  Each is taken with a packet p that was *)
(* validated and is no replay.                                               *)

Accept(p) ==
  /\ ValidateCommand(p) = "Ok"
  /\ p.sequence > last_sequence
  /\ last_sequence' = p.sequence
  /\ packet_age' = 0
  /\ UNCHANGED state_fresh

\* Neither a rejected packet nor a replay touches the core, its watchdog
\* stamp included.
Reject(p) ==
  /\ \/ ValidateCommand(p) # "Ok"
     \/ p.sequence <= last_sequence
  /\ last' = Step(p.op, IF ValidateCommand(p) # "Ok" THEN ValidateCommand(p)
                        ELSE "Replay", << >>)
  /\ UNCHANGED <<flags, ages, commissioning_arm_spent, last_sequence,
                 state_fresh, may_move>>

Refuse(p, code) ==
  /\ last' = Step(p.op, code, << >>)
  /\ UNCHANGED <<flags, motion_age, commissioning_arm_spent, may_move>>

\* PrepareArm succeeds whenever the SDK client was initialised, and the daemon
\* does not start without it: only ClassicWalk can make arming fail.
Arm ==
  \E ok \in {TRUE, ~PreserveClassicWalk} :
    /\ commissioning_arm_spent' = TRUE
    /\ armed' = ok
    /\ moving' = FALSE
    /\ faulted' = (faulted \/ ~ok)
    /\ motion_age' = IF ok THEN NoStamp ELSE motion_age
    /\ last' = Step("Arm", SdkErrorUnless(ok),
                    IF PreserveClassicWalk THEN <<"ClassicWalk">> ELSE << >>)
    /\ UNCHANGED <<sport_action_active, stop_unconfirmed, may_move>>

ArmRefusal ==
  IF ~AllowMotion THEN "MotionDisabled"
  ELSE IF faulted \/ (commissioning_arm_spent /\ ~RepeatableArm)
  THEN "FaultLatched"
  ELSE "Ok"

HandleArm(p) ==
  /\ Accept(p) /\ p.op = "Arm"
  /\ IF ArmRefusal # "Ok" THEN Refuse(p, ArmRefusal) ELSE Arm

\* ExplicitDisarm(): the only path that clears the fault latch.
HandleDisarm(p) ==
  /\ Accept(p) /\ p.op = "Disarm"
  /\ motion_age' = NoStamp
  /\ UNCHANGED commissioning_arm_spent
  /\ IF ~AllowMotion
     THEN /\ ClearLocally
          /\ faulted' = FALSE
          /\ UNCHANGED stop_unconfirmed
          /\ last' = Step("Disarm", "Ok", << >>)
     ELSE IF NothingToStop
     THEN /\ UNCHANGED <<flags, may_move>>
          /\ last' = Step("Disarm", "Ok", << >>)
     ELSE \E ok \in BOOLEAN :
            /\ ClearForDisarm(ok)
            /\ last' = Step("Disarm", SdkErrorUnless(ok), <<"StopMove">>)

HandleStop(p) ==
  /\ Accept(p) /\ p.op = "Stop"
  /\ UNCHANGED <<motion_age, commissioning_arm_spent>>
  /\ IF ~AllowMotion THEN Refuse(p, "MotionDisabled")
     ELSE IF ~armed THEN Refuse(p, "NotArmed")
     ELSE \E ok \in BOOLEAN :
            /\ Stop(FALSE, ok)
            /\ last' = Step("Stop", SdkErrorUnless(ok), <<"StopMove">>)

HandlePing(p) ==
  /\ Accept(p) /\ p.op = "Ping"
  /\ Refuse(p, IF ~AllowMotion THEN "MotionDisabled"
               ELSE IF ~armed THEN "NotArmed" ELSE "Ok")

\* A mode call of its own, after a clean disarm.  Its failure is reported but
\* latches nothing.
HandleRestoreClassicWalk(p) ==
  /\ Accept(p) /\ p.op = "RestoreClassicWalk"
  /\ IF ~AllowMotion \/ ~PreserveClassicWalk THEN Refuse(p, "MotionDisabled")
     ELSE IF ~NothingToStop THEN Refuse(p, "FaultLatched")
     ELSE \E ok \in BOOLEAN :
            /\ last' = Step(p.op, SdkErrorUnless(ok), <<"ClassicWalk">>)
            /\ UNCHANGED <<flags, motion_age, commissioning_arm_spent,
                           may_move>>

\* A motion call: it starts the motion budget with the first one since the
\* arm, and a call that fails may still have reached the robot.
Started == IF motion_age = NoStamp THEN 0 ELSE motion_age

OverBudget(age) == MaxMotion # 0 /\ age # NoStamp /\ age >= MaxMotion

Dispatch(p, call) ==
  /\ motion_age' = Started
  /\ IF OverBudget(Started)
     THEN \E ok \in BOOLEAN :
            /\ FaultStop(FALSE, ok)
            /\ last' = Step(p.op, "LimitExceeded", <<"StopMove">>)
     ELSE \/ /\ moving' = TRUE
             /\ sport_action_active' =
                  (sport_action_active \/ call = "SportAction")
             /\ may_move' = TRUE
             /\ last' = Step(p.op, "Ok", <<call>>)
             /\ UNCHANGED <<armed, faulted, stop_unconfirmed>>
          \/ \E ok \in BOOLEAN :
               /\ FaultStop(TRUE, ok)
               /\ last' = Step(p.op, "SdkError", <<call, "StopMove">>)

HandleSportAction(p) ==
  /\ Accept(p) /\ p.op = "SportAction"
  /\ UNCHANGED commissioning_arm_spent
  /\ IF ~AllowMotion THEN Refuse(p, "MotionDisabled")
     ELSE IF ~armed \/ faulted THEN Refuse(p, "NotArmed")
     ELSE IF ~state_fresh
     THEN \E ok \in BOOLEAN :
            /\ FaultStop(FALSE, ok)
            /\ last' = Step(p.op, "FaultLatched", <<"StopMove">>)
            /\ UNCHANGED motion_age
     ELSE Dispatch(p, "SportAction")

HandleMove(p) ==
  /\ Accept(p) /\ p.op = "Move"
  /\ UNCHANGED commissioning_arm_spent
  /\ IF ~AllowMotion THEN Refuse(p, "MotionDisabled")
     ELSE IF ~armed \/ faulted THEN Refuse(p, "NotArmed")
     ELSE IF p.velocity = "outside"
     THEN \E ok \in BOOLEAN :
            /\ FaultStop(FALSE, ok)
            /\ last' = Step(p.op, "LimitExceeded", <<"StopMove">>)
            /\ UNCHANGED motion_age
     ELSE IF p.velocity = "zero"
     THEN \E ok \in BOOLEAN :
            /\ Stop(FALSE, ok)
            /\ last' = Step(p.op, SdkErrorUnless(ok), <<"StopMove">>)
            /\ UNCHANGED motion_age
     ELSE Dispatch(p, "Move")

Handle(p) ==
  \/ Reject(p)
  \/ HandleArm(p)
  \/ HandleDisarm(p)
  \/ HandleMove(p)
  \/ HandleStop(p)
  \/ HandlePing(p)
  \/ HandleRestoreClassicWalk(p)
  \/ HandleSportAction(p)

-----------------------------------------------------------------------------
(* What the event loop calls besides Handle *)

\* Mutant of WatchdogExpired: a controller may be silent for ever.
WatchdogIgnoresSilence ==
  \/ sport_action_active /\ ~state_fresh
  \/ OverBudget(motion_age)

\* While armed, three things are wrong enough to stop the robot.
WatchdogExpired ==
  \/ sport_action_active /\ ~state_fresh
  \/ OverBudget(motion_age)
  \/ packet_age # NoStamp /\ packet_age > Watchdog

\* Mutant of CheckWatchdog: a disarmed daemon has nothing to watch.
CheckWatchdogNoRetry ==
  /\ UNCHANGED <<ages, last_sequence, commissioning_arm_spent, state_fresh>>
  /\ IF armed /\ WatchdogExpired
     THEN \E ok \in BOOLEAN :
            /\ FaultStop(FALSE, ok)
            /\ last' = Step("watchdog", SdkErrorUnless(ok), <<"StopMove">>)
     ELSE UNCHANGED <<flags, may_move, last>>

\* An unconfirmed stop is retried first, and the retry always disarms.
CheckWatchdog ==
  /\ UNCHANGED <<ages, last_sequence, commissioning_arm_spent, state_fresh>>
  /\ IF stop_unconfirmed
     THEN IF AllowMotion
          THEN \E ok \in BOOLEAN :
                 /\ Stop(TRUE, ok)
                 /\ last' = Step("watchdog", SdkErrorUnless(ok), <<"StopMove">>)
          ELSE /\ ClearLocally
               /\ stop_unconfirmed' = FALSE
               /\ UNCHANGED <<faulted, last>>
     ELSE IF armed /\ WatchdogExpired
     THEN \E ok \in BOOLEAN :
            /\ FaultStop(FALSE, ok)
            /\ last' = Step("watchdog", SdkErrorUnless(ok), <<"StopMove">>)
     ELSE UNCHANGED <<flags, may_move, last>>

ForgetSession ==
  /\ last_sequence' = 0
  /\ packet_age' = NoStamp
  /\ motion_age' = NoStamp

\* One StopMove, and one more at once if it was not confirmed.
OnDisconnect ==
  /\ ForgetSession
  /\ UNCHANGED <<commissioning_arm_spent, state_fresh>>
  /\ IF ~AllowMotion
     THEN /\ ClearLocally
          /\ stop_unconfirmed' = FALSE
          /\ UNCHANGED faulted
          /\ last' = Step("disconnect", "Ok", << >>)
     ELSE IF NothingToStop
     THEN /\ UNCHANGED <<flags, may_move>>
          /\ last' = Step("disconnect", "Ok", << >>)
     ELSE \E first, second \in BOOLEAN :
            /\ armed' = FALSE
            /\ moving' = FALSE
            /\ sport_action_active' = FALSE
            /\ faulted' = (faulted \/ ~first)
            /\ stop_unconfirmed' = (~first /\ ~second)
            /\ may_move' = (may_move /\ ~first /\ ~second)
            /\ last' = Step("disconnect", SdkErrorUnless(first \/ second),
                            IF first THEN <<"StopMove">>
                            ELSE <<"StopMove", "StopMove">>)

-----------------------------------------------------------------------------
(* The environment *)

Tick ==
  /\ packet_age' = Older(packet_age, Watchdog + 1)
  /\ motion_age' = Older(motion_age, MaxMotion)
  /\ last' = Quiet
  /\ UNCHANGED <<flags, commissioning_arm_spent, last_sequence, state_fresh,
                 may_move>>

\* The 200 ms freshness of the SportModeState streams is gained or lost.
SportStateChanges ==
  /\ state_fresh' = ~state_fresh
  /\ last' = Quiet
  /\ UNCHANGED <<flags, ages, commissioning_arm_spent, last_sequence, may_move>>

Init ==
  /\ armed = FALSE
  /\ faulted = FALSE
  /\ moving = FALSE
  /\ sport_action_active = FALSE
  /\ stop_unconfirmed = FALSE
  /\ commissioning_arm_spent = FALSE
  /\ last_sequence = 0
  /\ packet_age = NoStamp
  /\ motion_age = NoStamp
  /\ state_fresh = FALSE
  /\ may_move = FALSE
  /\ last = Quiet

Next ==
  \/ \E p \in Packets : Handle(p)
  \/ CheckWatchdog
  \/ OnDisconnect
  \/ Tick
  \/ SportStateChanges

Spec == Init /\ [][Next]_vars

-----------------------------------------------------------------------------
(* Fairness.  The event loop runs CheckWatchdog on every iteration and its   *)
(* poll returns after 20 ms at the latest, and time passes.  StopMove is     *)
(* assumed to be confirmed now and then if it is retried for ever.           *)

Fairness ==
  /\ WF_vars(Tick)
  /\ WF_vars(CheckWatchdog)
  /\ SF_vars(CheckWatchdog /\ ~stop_unconfirmed')

FairSpec == Spec /\ Fairness

-----------------------------------------------------------------------------
(* Properties *)

\* Types of the DaemonCore members and of the history variables.
TypeOK ==
  /\ armed \in BOOLEAN /\ faulted \in BOOLEAN /\ moving \in BOOLEAN
  /\ sport_action_active \in BOOLEAN /\ stop_unconfirmed \in BOOLEAN
  /\ commissioning_arm_spent \in BOOLEAN
  /\ last_sequence \in Nat
  /\ packet_age \in Age(Watchdog + 1)
  /\ motion_age \in Age(MaxMotion)
  /\ state_fresh \in BOOLEAN
  /\ may_move \in BOOLEAN
  /\ last \in [op: CommandOp \cup {"none", "watchdog", "disconnect"},
               code: ReplyCode, calls: Seq(SdkCall)]

\* A robot that may be moving is under the watchdog (armed) or behind the
\* fault latch, whose only exit is a confirmed StopMove: no sequence of
\* commands, timeouts and failed calls makes the daemon forget a motion.
MotionIsSupervised == may_move => armed \/ faulted

\* A stop nobody confirmed keeps the daemon disarmed and latched, so that the
\* retry of CheckWatchdog cannot meet a controller that moves the robot again.
UnconfirmedStopIsLatched == stop_unconfirmed => faulted /\ ~armed

\* armed_ and faulted_ exclude each other, and moving_ is only true under an
\* arm: a controller that reads a reply's flags can never see both.
ArmedIsNotFaulted == (armed => ~faulted) /\ (moving => armed)

\* An action flag left behind by a failed re-arm is always behind the latch,
\* so it cannot make a later session's watchdog fire.
ActionFlagIsOwned == sport_action_active => armed \/ faulted

\* When the reply to a Stop, a zero Move or a Disarm is kOk the robot has a
\* confirmed stop behind it, also when Disarm made no SDK call at all.
AcknowledgedStopIsStopped ==
  last.code = "Ok" /\ (last.op = "Disarm" \/ last.calls = <<"StopMove">>)
    => ~may_move

\* The latch is released only in a state where no motion is outstanding.
LatchReleaseIsClean ==
  [][faulted /\ ~faulted' => ~may_move' /\ ~stop_unconfirmed' /\ ~armed']_vars

\* A commissioning daemon (not repeatable) that lost its arm never gets a
\* second one, whichever of disarm, fault or disconnect took it.
OneArmPerProcess ==
  [][~RepeatableArm /\ commissioning_arm_spent /\ ~armed => ~armed']_vars

\* With a limited budget every motion ends, whatever the controller sends.
MotionEnds == may_move ~> ~may_move

-----------------------------------------------------------------------------
(* What documents say of the code and the code does not do *)

Called(call) == \E i \in 1..Len(last.calls) : last.calls[i] = call

\* docs/SAFETY.md, gate 5: an SDK error requests StopMove and latches a fault.
\* A re-arm whose ClassicWalk fails latches, but leaves a moving robot moving.
SdkErrorStopsMotion ==
  last.op \in CommandOp /\ last.code = "SdkError" /\ may_move
    => Called("StopMove")

=============================================================================
