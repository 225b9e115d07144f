----------------------------- MODULE StagedProofs -----------------------------
(***************************************************************************)
(* Theorems about StagedGuard, for any number of goals of other clients.   *)
(*                                                                         *)
(* The argument: a session leaves idle once and for ever; what it may do   *)
(* after that is bound to the goal it left idle with, and what ends it is  *)
(* the end of every request to arm.                                        *)
(***************************************************************************)
EXTENDS StagedGuard, TLAPS

-----------------------------------------------------------------------------
(* The invariant *)

StagedTypeOK ==
  /\ phase \in {"idle", "pending", "armed", "complete", "fault"}
  /\ claim \in {NoGoal, Ours}
  /\ published_command \in {0, 1}
  /\ arm_call \in {"none", "sent", "yes", "no", "answered"}
  /\ disarm_call \in {"none", "sent", "yes", "no"}
  /\ robot \in {"DISARMED", "PREPARING", "ARMED", "FAULT"}
  /\ server \in [Goal -> {"absent", "active", "canceling", "succeeded", "failed"}]
  /\ dispatcher \in {"idle", "accepted", "published", "received"}

\* The one goal of the session is the claimed one, from before the arming on.
GoalInv ==
  /\ phase = "idle" /\ goal_id # NoGoal => goal_id = Ours /\ claim = Ours
  /\ phase = "idle" /\ goal_id # NoGoal => unverified = NoGoal
  /\ phase \in {"pending", "armed"} => goal_id = Ours /\ claim = Ours
  /\ measurement = "running" => phase # "idle" /\ goal_id = Ours

\* The arm is asked for when idle is left, and never again.
ArmInv ==
  /\ phase = "idle" => arm_call = "none" /\ arm_accepted = FALSE
  /\ arm_accepted = TRUE => arm_call = "answered"
  /\ phase = "armed" => arm_accepted = TRUE
  /\ published_command # 0 => phase = "armed"
  /\ faulted = TRUE => SessionOver

\* The disarm comes after it.
DisarmInv ==
  /\ stage \notin {"spin", "exit"} => SessionOver
  /\ disarm_call # "none" => SessionOver
  /\ disarm_call = "yes" => arm_call # "sent" /\ robot \notin {"PREPARING", "ARMED"}
  /\ stage \in {"measure", "settle"} => disarm_call = "yes"
  /\ "disarm" \in evidence => disarm_call = "yes"

\* What the dispatcher wrote is what Nav2 ended its goal with.
PassInv ==
  /\ action_passed = TRUE => /\ server[Ours] \in {"succeeded", "absent"}
                             /\ dispatcher \in {"published", "received"}
  /\ outcome # "none" => stage = "exit"

StagedInv ==
  /\ StagedTypeOK /\ GoalInv /\ ArmInv /\ DisarmInv /\ PassInv /\ PassIsEarned

LEMMA StagedInvInit == StagedInit => StagedInv
  BY StagedAssumption
     DEF StagedInit, StagedInv, StagedTypeOK, GoalInv, ArmInv, DisarmInv, PassInv,
         PassIsEarned, FirstStage, SessionOver, Goal

-----------------------------------------------------------------------------
(* The callbacks.  All they do to a session that is over is to stop it again. *)

LEMMA OnceOnly ==
  ASSUME disarm_call \in {"none", "sent", "yes", "no"}, TryDisarm
  PROVE  /\ disarm_call' \in {"none", "sent", "yes", "no"}
         /\ disarm_call' = "yes" => disarm_call = "yes"
         /\ disarm_call = "yes" => disarm_call' = "yes"
  BY DEF TryDisarm, Once

\* What a callback leaves alone.
CallbackFrame ==
  /\ Spinning
  /\ UNCHANGED <<stage, outcome, server, action_passed, robot>>
  /\ dispatcher' \in {dispatcher, "received"}
  /\ dispatcher' # dispatcher => dispatcher = "published"
  /\ evidence' \subseteq evidence

\* The session ends, whatever it was.
EndEffect ==
  /\ phase' \in {"complete", "fault"} /\ published_command' = 0
  /\ TryDisarm
  /\ UNCHANGED <<arm_accepted, measurement>>
  /\ arm_call' \in {arm_call, "answered"}

\* A decision that changes nothing of the session but may stop the robot.
StopEffect ==
  /\ UNCHANGED <<phase, arm_accepted, measurement, faulted, arm_call>>
  /\ published_command' \in {0, published_command}
  /\ \/ UNCHANGED disarm_call
     \/ SessionOver /\ TryDisarm

LEMMA EndEffectKeeps ==
  ASSUME StagedInv, CallbackFrame, EndEffect,
         goal_id' = goal_id \/ phase = "idle", claim' \in {claim, Ours}
  PROVE  StagedInv'
<1>1. /\ disarm_call' \in {"none", "sent", "yes", "no"}
      /\ disarm_call' = "yes" => disarm_call = "yes"
      /\ disarm_call = "yes" => disarm_call' = "yes"
  BY OnceOnly DEF EndEffect, StagedInv, StagedTypeOK
<1>2. arm_call' \in {"none", "sent", "yes", "no", "answered"}
      /\ (arm_call' = "sent" => arm_call = "sent")
      /\ (arm_call = "answered" => arm_call' = "answered")
  BY DEF EndEffect, StagedInv, StagedTypeOK
<1>3. StagedTypeOK'
  BY <1>1, <1>2 DEF StagedInv, StagedTypeOK, EndEffect, CallbackFrame
<1>4. GoalInv' /\ ArmInv'
  BY <1>1, <1>2 DEF StagedInv, GoalInv, ArmInv, EndEffect, SessionOver
<1>5. DisarmInv' /\ PassInv' /\ PassIsEarned'
  BY <1>1, <1>2 DEF StagedInv, DisarmInv, PassInv, PassIsEarned, EndEffect,
     CallbackFrame, SessionOver, Spinning
<1> QED
  BY <1>3, <1>4, <1>5 DEF StagedInv

LEMMA StopEffectKeeps ==
  ASSUME StagedInv, CallbackFrame, StopEffect, claim' \in {claim, Ours},
         \/ UNCHANGED <<goal_id, unverified>>
         \/ goal_id = NoGoal /\ goal_id' = NoGoal
         \/ phase = "idle" /\ goal_id' = Ours /\ claim' = Ours /\ unverified' = NoGoal
  PROVE  StagedInv'
<1>1. /\ disarm_call' \in {"none", "sent", "yes", "no"}
      /\ disarm_call' = "yes" => disarm_call = "yes"
      /\ disarm_call = "yes" => disarm_call' = "yes"
  BY OnceOnly DEF StopEffect, StagedInv, StagedTypeOK
<1>2. StagedTypeOK'
  BY <1>1 DEF StagedInv, StagedTypeOK, StopEffect, CallbackFrame
<1>3. GoalInv'
  BY DEF StagedInv, GoalInv, StopEffect
<1>4. ArmInv'
  BY DEF StagedInv, ArmInv, StopEffect, SessionOver
<1>5. DisarmInv' /\ PassInv' /\ PassIsEarned'
  BY <1>1 DEF StagedInv, DisarmInv, PassInv, PassIsEarned, StopEffect,
     CallbackFrame, SessionOver, Spinning
<1> QED
  BY <1>2, <1>3, <1>4, <1>5 DEF StagedInv

LEMMA ArmEffectKeeps ==
  ASSUME StagedInv, CallbackFrame, phase = "idle",
         phase' = "pending" /\ goal_id' = Ours /\ claim' = Ours,
         arm_accepted' = FALSE /\ arm_call' = "sent" /\ published_command' = 0,
         UNCHANGED <<measurement, faulted, disarm_call>>
  PROVE  StagedInv'
<1>1. disarm_call = "none"
  BY DEF StagedInv, DisarmInv, SessionOver
<1>2. faulted # TRUE /\ measurement # "running"
  BY DEF StagedInv, ArmInv, GoalInv, SessionOver
<1>3. stage \in {"spin", "exit"}
  BY DEF StagedInv, DisarmInv, SessionOver
<1>4. StagedTypeOK'
  BY DEF StagedInv, StagedTypeOK, CallbackFrame
<1>5. GoalInv' /\ ArmInv'
  BY <1>2 DEF GoalInv, ArmInv, SessionOver
<1>6. DisarmInv' /\ PassInv' /\ PassIsEarned'
  BY <1>1, <1>3 DEF StagedInv, DisarmInv, PassInv, PassIsEarned, CallbackFrame,
     SessionOver, Spinning
<1> QED
  BY <1>4, <1>5, <1>6 DEF StagedInv

\* The decisions of which the callbacks are made.
LEMMA TripEnds ==
  ASSUME NEW goal, NEW target, TripWith(goal, target)
  PROVE  EndEffect
  BY DEF TripWith, Fault, EndEffect

LEMMA QuietStops ==
  ASSUME Quiet, PublishZero
  PROVE  StopEffect
  BY DEF Quiet, PublishZero, NoRequest, StopEffect

LEMMA CompleteEnds ==
  ASSUME NEW reason, NEW cancel, NEW target, Complete(reason, cancel, target)
  PROVE  EndEffect /\ goal_id' = goal_id
  BY DEF Complete, EndEffect

\* The goal a session starts with is that of its claim.
LEMMA StartKeeps ==
  ASSUME StagedInv, CallbackFrame, NEW target, phase = "idle",
         StartBoundGoal(Ours, target),
         goal_id' = Ours /\ claim' = Ours /\ unverified' = NoGoal
  PROVE  StagedInv'
<1>1. CASE Quiet /\ PublishZero
  BY <1>1, QuietStops, StopEffectKeeps
<1>2. CASE TripWith(Ours, target)
  BY <1>2, TripEnds, EndEffectKeeps
<1>3. CASE phase' = "pending"
  BY <1>1, <1>2, <1>3, ArmEffectKeeps DEF StartBoundGoal, SendArm
<1> QED
  BY <1>1, <1>2, <1>3 DEF StartBoundGoal

LEMMA BeginKeeps ==
  ASSUME StagedInv, CallbackFrame, NEW goal, NEW target,
         claim' = Ours, BeginGoal(goal, Ours, target)
  PROVE  StagedInv'
<1>1. CASE phase = "fault"
  <2>1. StopEffect /\ UNCHANGED <<goal_id, unverified>>
    BY <1>1 DEF BeginGoal, Quiet, StopEffect, SessionOver
  <2> QED
    BY <2>1, StopEffectKeeps
<1>2. CASE phase \notin {"fault", "idle"}
  BY <1>2, TripEnds, EndEffectKeeps DEF BeginGoal
<1>3. CASE phase = "idle" /\ goal # Ours
  BY <1>3, TripEnds, EndEffectKeeps DEF BeginGoal
<1>4. CASE phase = "idle" /\ goal = Ours
  BY <1>4, StartKeeps DEF BeginGoal
<1> QED
  BY <1>1, <1>2, <1>3, <1>4

LEMMA TripKeeps ==
  ASSUME StagedInv, CallbackFrame, NEW target, Trips(target), claim' \in {claim, Ours}
  PROVE  StagedInv'
  BY TripEnds, EndEffectKeeps DEF Trips

LEMMA FrameOfCallback ==
  ASSUME Spinning, UNCHANGED <<stage, outcome, server, action_passed, robot>>,
         UNCHANGED <<dispatcher, evidence>>
  PROVE  CallbackFrame
  BY DEF CallbackFrame

LEMMA GoalStatusKeeps == ASSUME StagedInv, OnGoalStatus PROVE StagedInv'
<1>1. CallbackFrame /\ claim' = claim
  BY DEF OnGoalStatus, loop_vars, CallbackFrame
<1> DEFINE active == {g \in Goal : server[g] = "active"}
<1>2. PICK target \in Goal \cup {NoGoal} :
        \/ Trips(target)
        \/ goal_id # NoGoal /\ BoundGoal(server, target)
        \/ goal_id = NoGoal /\ UnboundGoal(server, active, target)
  BY DEF OnGoalStatus
<1>3. CASE Trips(target)
  BY <1>1, <1>3, TripKeeps
<1>4. CASE BoundGoal(server, target)
  BY <1>1, <1>3, <1>4, CompleteEnds, EndEffectKeeps, QuietStops, StopEffectKeeps
     DEF BoundGoal
<1>5. CASE goal_id = NoGoal /\ UnboundGoal(server, active, target)
  <2>1. CASE Complete("canceled", TRUE, target)
    BY <1>1, <2>1, CompleteEnds, EndEffectKeeps
  <2>2. CASE Quiet /\ PublishZero /\ UNCHANGED <<goal_id, unverified>>
    BY <1>1, <2>2, QuietStops, StopEffectKeeps
  <2>3. ASSUME NEW g \in active, claim = NoGoal, Quiet, PublishZero, UNCHANGED goal_id
        PROVE  StagedInv'
    BY <1>1, <1>5, <2>3, QuietStops, StopEffectKeeps
  <2>4. ASSUME NEW g \in active, claim # NoGoal, BeginGoal(g, claim, target)
        PROVE  StagedInv'
    BY <1>1, <2>4, BeginKeeps DEF StagedInv, StagedTypeOK
  <2> QED
    BY <1>3, <1>5, <2>1, <2>2, <2>3, <2>4 DEF UnboundGoal
<1> QED
  BY <1>2, <1>3, <1>4, <1>5

LEMMA GoalClaimKeeps ==
  ASSUME StagedInv, NEW publisher, OnGoalClaim(publisher)
  PROVE  StagedInv'
<1>1. CallbackFrame /\ claim' \in {claim, Ours}
  BY DEF OnGoalClaim, loop_vars, CallbackFrame
<1>2. CASE Trips(raw)
  BY <1>1, <1>2, TripKeeps
<1>3. CASE ClaimIsExact(publisher) /\ BeginGoal(Ours, Ours, raw)
  BY <1>1, <1>3, BeginKeeps DEF OnGoalClaim
<1>4. CASE Quiet /\ PublishZero /\ UNCHANGED <<goal_id, unverified>>
  BY <1>1, <1>4, QuietStops, StopEffectKeeps
<1> QED
  BY <1>2, <1>3, <1>4 DEF OnGoalClaim

LEMMA ChassisStatusKeeps ==
  ASSUME StagedInv, NEW at_start, OnChassisStatus(at_start)
  PROVE  StagedInv'
<1>1. CallbackFrame /\ claim' = claim
  BY DEF OnChassisStatus, world_vars, CallbackFrame, Trip, Silent
<1>2. CASE Trip
  BY <1>1, <1>2, TripEnds, EndEffectKeeps DEF Trip
<1>3. CASE Silent
  <2>1. StopEffect /\ UNCHANGED <<goal_id, unverified>>
    BY <1>3 DEF Silent, Quiet, NoRequest, StopEffect
  <2> QED
    BY <1>1, <2>1, StopEffectKeeps
<1>4. CASE /\ Measured /\ phase' = "armed" /\ measurement' = "running"
           /\ PublishZero
           /\ UNCHANGED <<terminal_reason, goal_id, claim, unverified, arm_accepted,
                          faulted, raw>>
  <2>1. /\ phase = "pending" /\ arm_accepted = TRUE /\ phase' = "armed"
        /\ measurement' = "running" /\ published_command' = 0
        /\ UNCHANGED <<goal_id, claim, arm_accepted, faulted, arm_call, disarm_call>>
    BY <1>4 DEF Measured, PublishZero, NoRequest
  <2>2. StagedTypeOK'
    BY <1>1, <2>1 DEF StagedInv, StagedTypeOK, CallbackFrame
  <2>3. GoalInv' /\ ArmInv'
    BY <2>1 DEF StagedInv, GoalInv, ArmInv, SessionOver
  <2>4. DisarmInv' /\ PassInv' /\ PassIsEarned'
    BY <1>1, <2>1 DEF StagedInv, DisarmInv, PassInv, PassIsEarned, CallbackFrame,
       SessionOver, Spinning
  <2> QED
    BY <2>2, <2>3, <2>4 DEF StagedInv
<1> QED
  BY <1>2, <1>3, <1>4 DEF OnChassisStatus, StartsMeasurement

LEMMA ArmResponseKeeps ==
  ASSUME StagedInv, NEW ready, OnArmResponse(ready)
  PROVE  StagedInv'
<1>1. CallbackFrame /\ claim' = claim /\ goal_id' = goal_id
  BY DEF OnArmResponse, SessionOnly, loop_vars, world_vars, CallbackFrame
<1>2. CASE /\ phase = "pending" /\ arm_accepted' = TRUE /\ published_command' = 0
           /\ UNCHANGED <<phase, measurement, faulted, disarm_call>>
  <2>1. arm_call' = "answered" /\ disarm_call # "yes"
    BY <1>2 DEF OnArmResponse, StagedInv, DisarmInv, SessionOver
  <2>2. StagedTypeOK'
    BY <1>1, <1>2, <2>1 DEF StagedInv, StagedTypeOK, CallbackFrame
  <2>3. GoalInv' /\ ArmInv'
    BY <1>1, <1>2, <2>1 DEF StagedInv, GoalInv, ArmInv, SessionOver
  <2>4. DisarmInv' /\ PassInv' /\ PassIsEarned'
    BY <1>1, <1>2, <2>1 DEF StagedInv, DisarmInv, PassInv, PassIsEarned,
       CallbackFrame, SessionOver, Spinning
  <2> QED
    BY <2>2, <2>3, <2>4 DEF StagedInv
<1>3. CASE Fault(goal_id, raw)
  <2>1. EndEffect
    BY <1>3 DEF Fault, EndEffect, OnArmResponse
  <2> QED
    BY <1>1, <2>1, EndEffectKeeps
<1> QED
  BY <1>2, <1>3 DEF OnArmResponse

LEMMA CommandKeeps == ASSUME StagedInv, NEW good, OnCommand(good) PROVE StagedInv'
<1>1. CallbackFrame /\ claim' = claim /\ goal_id' = goal_id /\ unverified' = unverified
  BY DEF OnCommand, SessionOnly, loop_vars, world_vars, CallbackFrame, Trip
<1>2. CASE /\ phase = "armed" /\ published_command' = 1
           /\ Quiet /\ NoRequest
  <2>1. UNCHANGED <<phase, arm_accepted, measurement, faulted, arm_call, disarm_call>>
    BY <1>2 DEF Quiet, NoRequest
  <2>2. StagedTypeOK'
    BY <1>1, <1>2, <2>1 DEF StagedInv, StagedTypeOK, CallbackFrame
  <2>3. GoalInv' /\ ArmInv'
    BY <1>1, <1>2, <2>1 DEF StagedInv, GoalInv, ArmInv, SessionOver
  <2>4. DisarmInv' /\ PassInv' /\ PassIsEarned'
    BY <1>1, <1>2, <2>1 DEF StagedInv, DisarmInv, PassInv, PassIsEarned,
       CallbackFrame, SessionOver, Spinning
  <2> QED
    BY <2>2, <2>3, <2>4 DEF StagedInv
<1>3. CASE Trip
  BY <1>1, <1>3, TripEnds, EndEffectKeeps DEF Trip
<1>4. CASE phase # "armed"
  <2>1. StopEffect
    BY <1>4 DEF OnCommand, Quiet, StopEffect
  <2> QED
    BY <1>1, <2>1, StopEffectKeeps
<1> QED
  BY <1>2, <1>3, <1>4 DEF OnCommand

LEMMA TimerKeeps == ASSUME StagedInv, NEW late, OnTimer(late) PROVE StagedInv'
<1>1. CallbackFrame /\ claim' = claim
  BY DEF OnTimer, SessionOnly, loop_vars, world_vars, CallbackFrame
<1>2. CASE Quiet /\ published_command' = 0 /\ TryDisarm /\ SessionOver
           /\ UNCHANGED <<arm_call, goal_id, unverified>>
  <2>1. StopEffect
    BY <1>2 DEF Quiet, StopEffect
  <2> QED
    BY <1>1, <1>2, <2>1, StopEffectKeeps
<1>3. CASE phase = "idle" /\ TripWith(unverified, raw)
  BY <1>1, <1>3, TripEnds, EndEffectKeeps
<1>4. CASE Quiet /\ PublishZero /\ UNCHANGED <<goal_id, unverified>>
  BY <1>1, <1>4, QuietStops, StopEffectKeeps
<1>5. CASE /\ phase = "idle" /\ unverified = NoGoal /\ goal_id # NoGoal
           /\ StartBoundGoal(goal_id, raw)
           /\ UNCHANGED <<goal_id, unverified>>
  <2>1. goal_id = Ours /\ claim = Ours
    BY <1>5 DEF StagedInv, GoalInv
  <2> QED
    BY <1>1, <1>5, <2>1, StartKeeps
<1>6. CASE Trips(raw)
  BY <1>1, <1>6, TripKeeps
<1> QED
  BY <1>2, <1>3, <1>4, <1>5, <1>6 DEF OnTimer

LEMMA CallbackKeeps == ASSUME StagedInv, Callback PROVE StagedInv'
<1>1. ASSUME Spinning, Trip, SessionOnly PROVE StagedInv'
  <2>1. CallbackFrame /\ claim' = claim /\ goal_id' = goal_id
    BY <1>1 DEF SessionOnly, loop_vars, world_vars, CallbackFrame, Trip
  <2> QED
    BY <1>1, <2>1, TripEnds, EndEffectKeeps DEF Trip
<1>2. CASE OnRefusedSample \/ OnRefusedBinding \/ OnPositionLeft
  BY <1>1, <1>2 DEF OnRefusedSample, OnRefusedBinding, OnPositionLeft
<1> QED
  BY <1>2, GoalClaimKeeps, CommandKeeps, TimerKeeps, ChassisStatusKeeps,
     ArmResponseKeeps, GoalStatusKeeps
     DEF Callback

-----------------------------------------------------------------------------
(* The stop *)

LEMMA StopKeeps == ASSUME StagedInv, Stop PROVE StagedInv'
<1>1. stage = "spin" /\ stage' = "zero" /\ UNCHANGED <<evidence, outcome, world_vars>>
  BY DEF Stop, Goto
<1>2. CASE SessionOver /\ UNCHANGED <<session_vars, call_vars, faulted>>
  BY <1>1, <1>2 DEF session_vars, call_vars, world_vars, StagedInv, StagedTypeOK,
     GoalInv, ArmInv, DisarmInv, PassInv, PassIsEarned, SessionOver
<1>3. CASE ~SessionOver /\ Trip
  <2>1. /\ phase' = "fault" /\ published_command' = 0
        /\ UNCHANGED <<goal_id, claim, arm_call, arm_accepted, measurement, server,
                       dispatcher, action_passed, robot>>
    BY <1>1, <1>3 DEF Trip, TripWith, Fault, world_vars
  <2>2. /\ disarm_call' \in {"none", "sent", "yes", "no"}
        /\ disarm_call' = "yes" => disarm_call = "yes"
        /\ disarm_call = "yes" => disarm_call' = "yes"
    BY <1>3, OnceOnly DEF Trip, TripWith, Fault, StagedInv, StagedTypeOK
  <2>3. StagedTypeOK'
    BY <2>1, <2>2 DEF StagedInv, StagedTypeOK
  <2>4. GoalInv' /\ ArmInv'
    BY <2>1 DEF StagedInv, GoalInv, ArmInv, SessionOver
  <2>5. DisarmInv' /\ PassInv' /\ PassIsEarned'
    BY <1>1, <2>1, <2>2 DEF StagedInv, DisarmInv, PassInv, PassIsEarned, SessionOver
  <2> QED
    BY <2>3, <2>4, <2>5 DEF StagedInv
<1> QED
  BY <1>2, <1>3 DEF Stop

\* The steps of the stop: the session stands still, and each one collects at most
\* the evidence it is about.
EndingFrame ==
  /\ SessionOver /\ stage # "exit" /\ stage' # "spin"
  /\ UNCHANGED <<phase, terminal_reason, goal_id, claim, unverified, arm_accepted,
                 published_command, arm_call, world_vars, faulted>>
  /\ measurement' # measurement => measurement' = "frozen"

LEMMA EndingKeeps == ASSUME StagedInv, Ending PROVE StagedInv'
<1>1. EndingFrame
  <2>1. stage \notin {"spin", "exit"} /\ stage' # "spin"
    BY DEF Ending, EndZeros, EndCancel, AskDisarm, AwaitDisarm, MeasureDisarm,
       Settle, WriteResult, Goto
  <2>2. /\ UNCHANGED <<phase, terminal_reason, goal_id, claim, unverified,
                       arm_accepted, published_command, arm_call, world_vars,
                       faulted>>
        /\ measurement' # measurement => measurement' = "frozen"
    BY DEF Ending, EndZeros, EndCancel, AskDisarm, AwaitDisarm, MeasureDisarm,
       Settle, WriteResult, LoopOnly, session_vars, FreezeMeasurement
  <2> QED
    BY <2>1, <2>2 DEF EndingFrame, StagedInv, DisarmInv
<1>2. /\ disarm_call' \in {"none", "sent", "yes", "no"}
      /\ disarm_call' = "yes" <=> disarm_call = "yes"
  <2>1. TryDisarm \/ UNCHANGED disarm_call
    BY DEF Ending, EndZeros, EndCancel, AskDisarm, AwaitDisarm, MeasureDisarm,
       Settle, WriteResult, LoopOnly
  <2> QED
    BY <2>1, OnceOnly DEF StagedInv, StagedTypeOK
<1>3. /\ stage' \in {"measure", "settle"} => disarm_call' = "yes"
      /\ "disarm" \in evidence' => disarm_call' = "yes"
  BY <1>2 DEF StagedInv, DisarmInv, Ending, EndZeros, EndCancel, AskDisarm,
     AwaitDisarm, MeasureDisarm, Settle, WriteResult, Goto
<1>4. /\ outcome = "none"
      /\ outcome' # "none" => stage' = "exit"
      /\ outcome' = "PASS" => AllPassed /\ UNCHANGED measurement
  <2>1. outcome = "none"
    BY <1>1 DEF EndingFrame, StagedInv, PassInv
  <2> QED
    BY <2>1 DEF Ending, EndZeros, EndCancel, AskDisarm, AwaitDisarm, MeasureDisarm,
       Settle, WriteResult, Goto, LoopOnly, session_vars
<1>5. StagedTypeOK'
  BY <1>1, <1>2 DEF EndingFrame, StagedInv, StagedTypeOK, world_vars
<1>6. GoalInv' /\ ArmInv'
  BY <1>1 DEF EndingFrame, StagedInv, GoalInv, ArmInv, SessionOver
<1>7. DisarmInv' /\ PassInv'
  BY <1>1, <1>2, <1>3, <1>4 DEF EndingFrame, StagedInv, DisarmInv, PassInv,
     SessionOver, world_vars
<1>8. PassIsEarned'
  <2> SUFFICES ASSUME outcome' = "PASS"
               PROVE  /\ goal_id' = Ours /\ server'[Ours] \in {"succeeded", "absent"}
                      /\ robot' \notin {"PREPARING", "ARMED"}
    BY DEF PassIsEarned
  <2>1. action_passed /\ measurement = "running" /\ "disarm" \in evidence
    BY <1>4 DEF AllPassed, MeasurementIsComplete
  <2>2. goal_id = Ours /\ server[Ours] \in {"succeeded", "absent"}
        /\ robot \notin {"PREPARING", "ARMED"}
    BY <2>1 DEF StagedInv, GoalInv, DisarmInv, PassInv
  <2> QED
    BY <1>1, <2>2 DEF EndingFrame, world_vars
<1> QED
  BY <1>5, <1>6, <1>7, <1>8 DEF StagedInv

-----------------------------------------------------------------------------
(* The world *)

\* The session does not notice what the world does before it is told.
LEMMA WorldKeeps ==
  ASSUME StagedInv, stage # "exit", WorldOnly,
         StagedTypeOK', ArmInv', DisarmInv', PassInv'
  PROVE  StagedInv'
<1>1. outcome' # "PASS"
  BY DEF StagedInv, PassInv, WorldOnly, loop_vars
<1>2. GoalInv'
  BY DEF StagedInv, GoalInv, WorldOnly, session_vars
<1> QED
  BY <1>1, <1>2 DEF StagedInv, PassIsEarned

LEMMA EnvironmentKeeps ==
  ASSUME StagedInv, stage # "exit", Environment
  PROVE  StagedInv'
<1> USE DEF WorldOnly, session_vars, loop_vars
<1>1. Ours \in Goal
  BY DEF Goal
<1>2. ASSUME WorldOnly, UNCHANGED <<arm_call, disarm_call, robot>>
      PROVE  ArmInv' /\ DisarmInv'
  BY <1>2 DEF StagedInv, ArmInv, DisarmInv, SessionOver
<1>3. ASSUME WorldOnly, UNCHANGED <<server, dispatcher, action_passed>>
      PROVE  PassInv'
  BY <1>3 DEF StagedInv, PassInv
<1>4. ASSUME NEW g \in Goal, SendGoal(g) PROVE StagedInv'
  <2>1. StagedTypeOK'
    BY <1>4 DEF SendGoal, GoalBecomes, StagedInv, StagedTypeOK
  <2>2. PassInv'
    BY <1>1, <1>4 DEF SendGoal, GoalBecomes, StagedInv, StagedTypeOK, PassInv
  <2> QED
    BY <1>2, <1>4, <2>1, <2>2, WorldKeeps DEF SendGoal
<1>5. CASE PublishClaim
  <2>1. StagedTypeOK' /\ PassInv'
    BY <1>5 DEF PublishClaim, StagedInv, StagedTypeOK, PassInv
  <2> QED
    BY <1>2, <1>5, <2>1, WorldKeeps DEF PublishClaim
<1>6. CASE WriteActionResult
  <2>1. StagedTypeOK' /\ PassInv'
    BY <1>6 DEF WriteActionResult, StagedInv, StagedTypeOK, PassInv
  <2> QED
    BY <1>2, <1>6, <2>1, WorldKeeps DEF WriteActionResult
<1>7. ASSUME NEW g \in Goal, GoalEnds(g) PROVE StagedInv'
  <2>1. StagedTypeOK'
    BY <1>7 DEF GoalEnds, GoalBecomes, StagedInv, StagedTypeOK
  <2>2. PassInv'
    BY <1>1, <1>7 DEF GoalEnds, GoalBecomes, StagedInv, StagedTypeOK, PassInv
  <2> QED
    BY <1>2, <1>7, <2>1, <2>2, WorldKeeps DEF GoalEnds
<1>8. CASE ServeCancel
  <2>1. StagedTypeOK'
    BY <1>8 DEF ServeCancel, GoalBecomes, StagedInv, StagedTypeOK
  <2>2. PassInv'
    BY <1>1, <1>8 DEF ServeCancel, GoalBecomes, StagedInv, StagedTypeOK, PassInv
  <2> QED
    BY <1>2, <1>8, <2>1, <2>2, WorldKeeps DEF ServeCancel
<1>9. CASE ServeArm
  <2>1. StagedTypeOK'
    BY <1>9 DEF ServeArm, StagedInv, StagedTypeOK
  <2>2. ArmInv' /\ DisarmInv'
    BY <1>9 DEF ServeArm, StagedInv, ArmInv, DisarmInv, SessionOver
  <2> QED
    BY <1>3, <1>9, <2>1, <2>2, WorldKeeps DEF ServeArm
<1>10. CASE ServeDisarm
  <2>1. StagedTypeOK'
    BY <1>10 DEF ServeDisarm, StagedInv, StagedTypeOK
  <2>2. ArmInv' /\ DisarmInv'
    BY <1>10 DEF ServeDisarm, StagedInv, ArmInv, DisarmInv, SessionOver
  <2> QED
    BY <1>3, <1>10, <2>1, <2>2, WorldKeeps DEF ServeDisarm
<1>11. CASE AdapterMoves
  <2>1. StagedTypeOK'
    BY <1>11 DEF AdapterMoves, StagedInv, StagedTypeOK
  <2>2. ArmInv' /\ DisarmInv'
    BY <1>11 DEF AdapterMoves, StagedInv, ArmInv, DisarmInv, SessionOver
  <2> QED
    BY <1>3, <1>11, <2>1, <2>2, WorldKeeps DEF AdapterMoves
<1> QED
  BY <1>4, <1>5, <1>6, <1>7, <1>8, <1>9, <1>10, <1>11 DEF Environment

LEMMA StagedInvNext == StagedInv /\ [StagedNext]_staged_vars => StagedInv'
<1> SUFFICES ASSUME StagedInv, [StagedNext]_staged_vars PROVE StagedInv'
  OBVIOUS
<1>1. CASE UNCHANGED staged_vars
  BY <1>1 DEF staged_vars, session_vars, call_vars, loop_vars, world_vars, StagedInv,
     StagedTypeOK, GoalInv, ArmInv, DisarmInv, PassInv, PassIsEarned, SessionOver
<1> QED
  BY <1>1, CallbackKeeps, StopKeeps, EndingKeeps, EnvironmentKeeps DEF StagedNext

-----------------------------------------------------------------------------
(* Theorems *)

\* Every reachable state of a session is well typed.
THEOREM StagedTypeCorrect == StagedSpec => []StagedTypeOK
<1>1. StagedInv => StagedTypeOK
  BY DEF StagedInv
<1> QED
  BY <1>1, StagedInvInit, StagedInvNext, PTL DEF StagedSpec

\* A PASS is written for the permitted goal, which has succeeded, and with the
\* chassis disarmed, for any number of other goals.
THEOREM PassEarned == StagedSpec => []PassIsEarned
<1>1. StagedInv => PassIsEarned
  BY DEF StagedInv
<1> QED
  BY <1>1, StagedInvInit, StagedInvNext, PTL DEF StagedSpec

\* No arm call can follow the disarm call that ends a session.
THEOREM DisarmFinal == StagedSpec => []DisarmIsFinal
<1>1. StagedInv => DisarmIsFinal
  BY DEF StagedInv, DisarmInv, DisarmIsFinal
<1> QED
  BY <1>1, StagedInvInit, StagedInvNext, PTL DEF StagedSpec

\* Whatever is forwarded to the chassis serves the claimed goal.
THEOREM CommandsAreServing == StagedSpec => []CommandsServeClaimedGoal
<1>1. StagedInv => CommandsServeClaimedGoal
  BY DEF StagedInv, StagedTypeOK, GoalInv, ArmInv, SessionOver,
     CommandsServeClaimedGoal
<1> QED
  BY <1>1, StagedInvInit, StagedInvNext, PTL DEF StagedSpec

=============================================================================
