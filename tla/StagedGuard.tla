------------------------------ MODULE StagedGuard ------------------------------
(***************************************************************************)
(* One staged navigation session: the policy StagedNav2Guard and the node  *)
(* around it, scripts/staged_nav2_motion_guard.py, with the dispatcher of  *)
(* its goal, scripts/staged_nav2_goal_dispatch.py.  Nav2 and the chassis   *)
(* adapter are what the session sees of them: a list of goal statuses, a   *)
(* service that arms and disarms, and a status message.                    *)
(*                                                                         *)
(* The node runs in one thread: callbacks between the steps of its main    *)
(* loop.  A time limit is an alternative that may always be taken; what    *)
(* _stale_reason finds in the witnesses, and where _start_position_matches *)
(* finds the robot, is an input of the step that asks: samples come, grow  *)
(* old and are refused at any time between two steps.                      *)
(***************************************************************************)
EXTENDS Integers, FiniteSets

CONSTANTS
  Ours,           \* the UUID of the goal the dispatcher sends
  Foreign         \* the goals of other clients of Nav2

Goal == {Ours} \cup Foreign

NoGoal == "no goal"

\* No goal has the UUID that stands for none.
ASSUME StagedAssumption == NoGoal \notin Goal

VARIABLES
  phase, terminal_reason, goal_id,
  claim,              \* _accepted_goal_claim and _goal_claim_seen
  unverified,         \* _unverified_goal_id
  chassis_view,       \* _chassis_guard_state and _daemon_armed
  arm_accepted,       \* _arm_service_accepted
  measurement,        \* StageOdomMeasurement: idle, running or frozen before it began
  published_command,  \* the velocity last published: zero or not
  stage,              \* where the main loop is
  arm_call, disarm_call, cancel_call,
  cancel_target,      \* the goal cancel_call names
  raw,                \* active_goal_raw
  evidence,           \* stop_evidence: the checks that passed
  outcome,            \* the measured result
  server,             \* Nav2: the status of its goals
  dispatcher,         \* idle, accepted, published or received: its goal, its claim
  action_passed,      \* the dispatcher has written the result of a goal that succeeded
  robot,              \* the adapter: the state of its guard
  faulted             \* history: a fault was latched

session_vars ==
  <<phase, terminal_reason, goal_id, claim, unverified, chassis_view, arm_accepted, measurement>>
call_vars == <<published_command, arm_call, disarm_call, cancel_call, cancel_target, raw>>
loop_vars == <<stage, evidence, outcome>>
world_vars == <<server, dispatcher, action_passed, robot>>
staged_vars == <<session_vars, call_vars, loop_vars, world_vars, faulted>>

SessionOver == phase \in {"complete", "fault"}

Arming == phase \in {"pending", "armed"}

\* A callback runs: not between an end of the session and the stop it leads to.
Spinning == stage \notin {"exit"} /\ (stage = "spin" => ~SessionOver)

-----------------------------------------------------------------------------
(* _publish: the command, then the requests of the decision.  A request of   *)
(* a service that is not there is not made.                                  *)

Once(call) == IF call = "none" THEN {"none", "sent"} ELSE {call}

TryDisarm == disarm_call' \in Once(disarm_call)

RequestCancel(target) ==
  /\ cancel_call' \in IF target = NoGoal THEN {cancel_call} ELSE Once(cancel_call)
  /\ cancel_target' = IF cancel_call # cancel_call' THEN target ELSE cancel_target

NoRequest == UNCHANGED <<arm_call, disarm_call, cancel_call, cancel_target>>

PublishZero == published_command' = 0 /\ NoRequest

\* _trip, and the publication of its decision.
Fault(goal, target) ==
  /\ phase' = "fault"
  /\ terminal_reason' = IF phase = "fault" THEN terminal_reason ELSE "fault"
  /\ faulted' = TRUE
  /\ published_command' = 0
  /\ TryDisarm
  /\ IF goal # NoGoal \/ unverified # NoGoal
     THEN RequestCancel(target)
     ELSE UNCHANGED <<cancel_call, cancel_target>>
  /\ UNCHANGED <<arm_accepted, measurement>>

TripWith(goal, target) == Fault(goal, target) /\ UNCHANGED arm_call

Trip == TripWith(goal_id, raw) /\ UNCHANGED <<goal_id, claim, unverified, raw>>

Quiet == UNCHANGED <<phase, terminal_reason, arm_accepted, measurement, faulted>>

\* A callback that leaves the decision unpublished.
Silent == Quiet /\ NoRequest /\ UNCHANGED <<published_command, goal_id, claim, unverified, raw>>

SessionOnly == UNCHANGED <<loop_vars, world_vars>>

-----------------------------------------------------------------------------
(* Witnesses *)

\* A sample of the state or the odometry is refused while the chassis is being
\* armed or is armed.  Any other only refreshes or forgets its witness.
OnRefusedSample ==
  /\ Spinning /\ Arming
  /\ Trip
  /\ SessionOnly /\ UNCHANGED chassis_view

\* So is another graph of publishers, map or lifecycle of the map.
OnRefusedBinding == OnRefusedSample

\* observe_localization: until the chassis is armed the robot stays where the
\* permit starts.  Everything else about scan and localization is left to Nav2.
OnPositionLeft ==
  /\ Spinning /\ phase = "pending"
  /\ Trip
  /\ SessionOnly /\ UNCHANGED chassis_view

\* The measurement of the stage starts once, with the sample at hand, and is frozen
\* before the stop; one that has not started by then is not complete.
StartsMeasurement(at_start) == at_start /\ measurement = "idle"

FreezeMeasurement == measurement' = IF measurement = "idle" THEN "frozen" ELSE measurement

MeasurementIsComplete == measurement = "running"

\* observe_chassis_status, and _on_chassis_status around it: the measured state
\* completes the arming, when the service has acknowledged it and the preamble
\* of zeros is over.
\* Mutant of Measured: the acknowledgement of the arm call is not waited for.
MeasuredOnly == phase = "pending" /\ robot = "ARMED"

Measured == phase = "pending" /\ arm_accepted /\ robot = "ARMED"

OnChassisStatus(at_start) ==
  /\ Spinning /\ (robot # chassis_view \/ phase = "pending")
  /\ chassis_view' = robot
  /\ evidence' = IF stage = "settle" /\ robot # "DISARMED"
                 THEN evidence \ {"undisturbed"} ELSE evidence
  /\ \/ /\ \/ robot = "FAULT"
           \/ phase = "armed" /\ robot # "ARMED"
           \/ Measured /\ ~StartsMeasurement(at_start)
        /\ Trip
     \/ /\ Measured /\ StartsMeasurement(at_start)
        /\ phase' = "armed" /\ measurement' = "running"
        /\ PublishZero
        /\ UNCHANGED <<terminal_reason, goal_id, claim, unverified, arm_accepted,
                       faulted, raw>>
     \/ /\ robot # "FAULT" /\ (phase = "armed" => robot = "ARMED")
        /\ Silent
  /\ UNCHANGED <<stage, outcome, world_vars>>

-----------------------------------------------------------------------------
(* The goal *)

\* _request_arm, of a service that is there; its answer is OnArmResponse.
SendArm == arm_call' = "sent"

\* _start_bound_goal_if_ready, and _request_arm when it decides to arm.
StartBoundGoal(goal, target) ==
  \/ Quiet /\ PublishZero
  \/ TripWith(goal, target)
  \/ /\ chassis_view = "DISARMED"
     /\ phase' = "pending" /\ arm_accepted' = FALSE
     /\ published_command' = 0 /\ SendArm
     /\ UNCHANGED <<terminal_reason, measurement, faulted, disarm_call, cancel_call,
                    cancel_target>>

\* Mutant of BeginGoal: the next goal of a session that is over is begun too.
BeginNextGoal(goal, claimed, target) ==
  /\ goal_id' = goal
  /\ IF claimed # goal
     THEN TripWith(goal, target) /\ UNCHANGED unverified
     ELSE StartBoundGoal(goal, target) /\ unverified' = NoGoal

\* begin_goal: one session, one goal, and that of the claim.
BeginGoal(goal, claimed, target) ==
  \/ /\ phase = "fault"
     /\ Quiet /\ published_command' = 0 /\ TryDisarm /\ RequestCancel(target)
     /\ UNCHANGED <<goal_id, unverified, arm_call>>
  \/ /\ phase \notin {"fault", "idle"}
     /\ TripWith(goal_id, target)
     /\ UNCHANGED <<goal_id, unverified>>
  \/ /\ phase = "idle"
     /\ goal_id' = goal
     /\ IF claimed # goal
        THEN TripWith(goal, target) /\ UNCHANGED unverified
        ELSE StartBoundGoal(goal, target) /\ unverified' = NoGoal

\* _complete: the session is over, whatever it was before.
Complete(reason, cancel, target) ==
  /\ phase' = "complete"
  /\ terminal_reason' = reason
  /\ published_command' = 0
  /\ TryDisarm
  /\ IF cancel THEN RequestCancel(target)
     ELSE UNCHANGED <<cancel_call, cancel_target>>
  /\ UNCHANGED <<goal_id, unverified, arm_call, arm_accepted, measurement, faulted>>

Trips(target) == TripWith(goal_id, target) /\ UNCHANGED <<goal_id, unverified>>

\* observe_goal_statuses of a session that has its goal.
BoundGoal(statuses, target) ==
  \/ statuses[goal_id] \in {"absent", "failed"} /\ Trips(target)
  \/ statuses[goal_id] = "canceling" /\ Complete("canceled", TRUE, target)
  \/ statuses[goal_id] = "succeeded" /\ Complete("succeeded", FALSE, target)
  \/ /\ statuses[goal_id] = "active"
     /\ Quiet /\ PublishZero /\ UNCHANGED <<goal_id, unverified>>

\* observe_goal_statuses of a session that has none: an active goal waits for its
\* claim, UNVERIFIED_GOAL_TIMEOUT_S at most.
UnboundGoal(statuses, active, target) ==
  \/ /\ \E g \in Goal : statuses[g] = "canceling"
     /\ Complete("canceled", TRUE, target)
  \/ /\ \A g \in Goal : statuses[g] # "canceling"
     /\ \/ /\ active = {}
           /\ Quiet /\ PublishZero /\ UNCHANGED <<goal_id, unverified>>
        \/ \E g \in active :
             \/ /\ claim = NoGoal /\ unverified \in {NoGoal, g}
                /\ Quiet /\ PublishZero /\ unverified' = g /\ UNCHANGED goal_id
             \/ /\ claim = NoGoal /\ unverified \notin {NoGoal, g}
                /\ Trips(target)
             \/ claim # NoGoal /\ BeginGoal(g, claim, target)

\* The goal a status list lets the node cancel.
RawGoal(statuses, bound) ==
  LET listed == {g \in Goal : statuses[g] # "absent"}
  IN  IF bound \in listed THEN bound
      ELSE IF Cardinality(listed) = 1 /\ \A g \in listed : statuses[g] = "active"
           THEN CHOOSE g \in listed : TRUE
           ELSE raw

\* _on_goal_status.
OnGoalStatus ==
  /\ Spinning
  /\ LET statuses == server
         active == {g \in Goal : statuses[g] = "active"}
     IN  \E target \in Goal \cup {NoGoal} :
           /\ \/ Cardinality(active) > 1 /\ Trips(target)
              \/ /\ Cardinality(active) <= 1 /\ goal_id # NoGoal
                 /\ BoundGoal(statuses, target)
              \/ /\ Cardinality(active) <= 1 /\ goal_id = NoGoal
                 /\ UnboundGoal(statuses, active, target)
           /\ target = RawGoal(statuses, goal_id')
           /\ raw' = target
  /\ UNCHANGED <<claim, chassis_view, loop_vars, server,
                 dispatcher, action_passed, robot>>

\* validate_goal_claim: every field of the dispatcher's claim is that of the permit,
\* and it names a goal; the claim of another publisher is not.
Publishers == {"dispatcher", "other"}
ClaimIsExact(publisher) == publisher = "dispatcher"

\* _on_goal_claim and observe_goal_claim: the dispatcher's claim, which is that of
\* the permit, or the claim of another publisher.
OnGoalClaim(publisher) ==
  /\ Spinning
  /\ ClaimIsExact(publisher) => dispatcher = "published"
  /\ dispatcher' = IF ClaimIsExact(publisher) THEN "received" ELSE dispatcher
  /\ claim' = IF ClaimIsExact(publisher) THEN Ours ELSE claim
  /\ \/ /\ ~ClaimIsExact(publisher) \/ unverified \notin {NoGoal, Ours}
        /\ Trips(raw)
     \/ /\ ClaimIsExact(publisher) /\ unverified = Ours
        /\ BeginGoal(Ours, Ours, raw)
     \/ /\ ClaimIsExact(publisher) /\ unverified = NoGoal
        /\ Quiet /\ PublishZero /\ UNCHANGED <<goal_id, unverified>>
  /\ UNCHANGED <<raw, chassis_view, loop_vars, server,
                 action_passed, robot>>

-----------------------------------------------------------------------------
(* Arming and moving *)

\* The done callback of _request_arm, and confirm_arm: an answer nobody waits for
\* ends the session.
OnArmResponse(ready) ==
  /\ Spinning /\ arm_call \in {"yes", "no"}
  /\ arm_call' = "answered"
  /\ IF phase = "pending" /\ arm_call = "yes" /\ ready
     THEN /\ arm_accepted' = TRUE /\ published_command' = 0
          /\ UNCHANGED <<phase, terminal_reason, measurement, faulted, disarm_call,
                         cancel_call, cancel_target>>
     ELSE Fault(goal_id, raw)
  /\ UNCHANGED <<goal_id, claim, unverified, chassis_view, raw>>
  /\ SessionOnly

\* _on_command and command: forwarded while the chassis is armed and the
\* controller stays inside the envelope.
OnCommand(good) ==
  /\ Spinning
  /\ \/ /\ phase = "armed" /\ good
        /\ published_command' = 1
        /\ Quiet /\ NoRequest /\ UNCHANGED <<goal_id, claim, unverified, raw>>
     \/ /\ phase = "armed" /\ ~good
        /\ Trip
     \/ /\ phase # "armed"
        /\ published_command' = 0
        /\ IF SessionOver THEN TryDisarm ELSE UNCHANGED disarm_call
        /\ IF phase = "fault" THEN RequestCancel(raw)
           ELSE UNCHANGED <<cancel_call, cancel_target>>
        /\ Quiet /\ UNCHANGED <<arm_call, goal_id, claim, unverified, raw>>
  /\ SessionOnly /\ UNCHANGED <<chassis_view>>

\* _stale_reason: a witness is too old or the velocity has another publisher.  From
\* the arming on scan and localization are not asked any more; neither is the claim,
\* and a controller that pauses only stops the output.
Overdue(late) == Arming /\ late

\* _on_timer and tick, 20 times a second.  late: a time limit has passed, that of
\* the claim, of the arming or of a witness.
OnTimer(late) ==
  /\ Spinning
  /\ \/ /\ SessionOver
        /\ published_command' = 0 /\ TryDisarm
        /\ IF phase = "fault" /\ (goal_id # NoGoal \/ unverified # NoGoal)
           THEN RequestCancel(raw) ELSE UNCHANGED <<cancel_call, cancel_target>>
        /\ Quiet /\ UNCHANGED <<arm_call, goal_id, unverified>>
     \/ /\ phase = "idle" /\ unverified # NoGoal
        /\ IF late THEN goal_id' = unverified /\ TripWith(unverified, raw)
           ELSE Quiet /\ PublishZero /\ UNCHANGED goal_id
        /\ UNCHANGED unverified
     \/ /\ phase = "idle" /\ unverified = NoGoal /\ goal_id # NoGoal
        /\ StartBoundGoal(goal_id, raw)
        /\ UNCHANGED <<goal_id, unverified>>
     \/ /\ \/ phase = "idle" /\ unverified = NoGoal /\ goal_id = NoGoal
           \/ Arming /\ ~late
        /\ Quiet /\ PublishZero /\ UNCHANGED <<goal_id, unverified>>
     \/ /\ Overdue(late)
        /\ Trips(raw)
  /\ SessionOnly /\ UNCHANGED <<claim, raw, chassis_view>>

-----------------------------------------------------------------------------
(* The main loop: the stop of a session that has ended *)

LoopOnly == UNCHANGED <<session_vars, published_command, arm_call, raw, world_vars, faulted>>

Goto(next) == stage' = next

\* The session ends, or SIGINT or SIGTERM asks for it.
Stop ==
  /\ stage = "spin"
  /\ Goto("zero")
  /\ \/ SessionOver /\ UNCHANGED <<session_vars, call_vars, faulted>>
     \/ ~SessionOver /\ Trip /\ UNCHANGED <<chassis_view>>
  /\ UNCHANGED <<evidence, outcome, world_vars>>

\* Ten zeros; whether the goal must be cancelled is decided after them.
EndZeros ==
  /\ stage = "zero"
  /\ IF phase = "fault" /\ (goal_id # NoGoal \/ unverified # NoGoal)
     THEN Goto("cancel") /\ RequestCancel(raw) /\ UNCHANGED evidence
     ELSE /\ Goto("disarm") /\ evidence' = evidence \cup {"cancel"}
          /\ UNCHANGED <<cancel_call, cancel_target>>
  /\ FreezeMeasurement
  /\ UNCHANGED <<phase, terminal_reason, goal_id, claim, unverified,
                 chassis_view, arm_accepted, published_command, arm_call, disarm_call, raw, outcome,
                 world_vars, faulted>>

\* _cancel_was_confirmed: Nav2 cancels the very goal the node knows.
CancelConfirmed == cancel_call = "yes" /\ cancel_target = raw

\* The cancellation is confirmed, or its time is over.
EndCancel ==
  /\ stage = "cancel"
  /\ Goto("disarm")
  /\ evidence' = IF CancelConfirmed THEN evidence \cup {"cancel"} ELSE evidence
  /\ LoopOnly /\ UNCHANGED <<disarm_call, cancel_call, cancel_target, outcome>>

\* The disarm is requested unless it has been, or the service is away.
AskDisarm ==
  /\ stage = "disarm"
  /\ TryDisarm
  /\ Goto(IF disarm_call' = "none" THEN "result" ELSE "acknowledge")
  /\ LoopOnly /\ UNCHANGED <<cancel_call, cancel_target, evidence, outcome>>

\* Mutant of AwaitDisarm: without a deadline.
AwaitDisarmForEver ==
  /\ stage = "acknowledge" /\ disarm_call # "sent"
  /\ Goto(IF disarm_call = "yes" THEN "measure" ELSE "result")
  /\ LoopOnly
  /\ UNCHANGED <<disarm_call, cancel_call, cancel_target, evidence, outcome>>

AwaitDisarm ==
  /\ stage = "acknowledge"
  /\ \/ disarm_call = "yes" /\ Goto("measure")
     \/ disarm_call # "yes" /\ Goto("result")
  /\ LoopOnly
  /\ UNCHANGED <<disarm_call, cancel_call, cancel_target, evidence, outcome>>

\* The chassis is measured disarmed, within half a second.
MeasureDisarm ==
  /\ stage = "measure"
  /\ \/ /\ chassis_view = "DISARMED"
        /\ Goto("settle") /\ evidence' = evidence \cup {"disarm", "undisturbed"}
     \/ /\ chassis_view # "DISARMED"
        /\ Goto("result") /\ UNCHANGED evidence
  /\ LoopOnly /\ UNCHANGED <<disarm_call, cancel_call, cancel_target, outcome>>

\* PostStopStationarity: a second without motion and without another status.
Settle(still) ==
  /\ stage = "settle"
  /\ Goto("result")
  /\ evidence' = IF still THEN evidence \cup {"still"} ELSE evidence
  /\ LoopOnly /\ UNCHANGED <<disarm_call, cancel_call, cancel_target, outcome>>

\* Mutant of AllPassed: the goal and the measurement are all that counts.
GoalPassed == action_passed /\ MeasurementIsComplete

AllPassed ==
  /\ action_passed /\ MeasurementIsComplete
  /\ evidence = {"cancel", "disarm", "undisturbed", "still"}

\* write_terminal_result.
WriteResult ==
  /\ stage = "result"
  /\ Goto("exit")
  /\ outcome' = IF phase = "complete" /\ terminal_reason = "succeeded" /\ AllPassed
                THEN "PASS" ELSE "FAIL"
  /\ LoopOnly /\ UNCHANGED <<disarm_call, cancel_call, cancel_target, evidence>>

-----------------------------------------------------------------------------
(* The dispatcher, Nav2 and the chassis adapter, see ChassisAdapter *)

WorldOnly == UNCHANGED <<session_vars, published_command, raw, loop_vars, faulted>>

GoalBecomes(g, new) == server' = [server EXCEPT ![g] = new]

\* A client sends its goal, Nav2 accepts it: the dispatcher once.
SendGoal(g) ==
  /\ server[g] = "absent"
  /\ g = Ours => dispatcher = "idle"
  /\ dispatcher' = IF g = Ours THEN "accepted" ELSE dispatcher
  /\ GoalBecomes(g, "active")
  /\ WorldOnly
  /\ UNCHANGED <<arm_call, disarm_call, cancel_call, cancel_target, action_passed,
                 robot>>

\* The dispatcher publishes the claim of its accepted goal, or ends without.
PublishClaim ==
  /\ dispatcher = "accepted"
  /\ dispatcher' = "published"
  /\ WorldOnly
  /\ UNCHANGED <<arm_call, disarm_call, cancel_call, cancel_target, server,
                 action_passed, robot>>

\* The dispatcher, which waits for its goal, writes that it has succeeded.  The
\* other results, and none at all, fail the session alike.
WriteActionResult ==
  /\ dispatcher \in {"published", "received"} /\ server[Ours] = "succeeded"
  /\ action_passed' = TRUE
  /\ WorldOnly
  /\ UNCHANGED <<arm_call, disarm_call, cancel_call, cancel_target, server,
                 dispatcher, robot>>

\* Nav2 ends a goal, and forgets it some time later: at once if it is not Ours,
\* whose end is not looked for.  Another client may cancel Ours.
GoalEnds(g) ==
  /\ \/ /\ server[g] \in {"active", "canceling"} /\ g = Ours
        /\ \E new \in {"succeeded", "failed"} : GoalBecomes(g, new)
     \/ /\ server[g] \notin IF g = Ours THEN {"absent", "active"} ELSE {"absent"}
        /\ GoalBecomes(g, "absent")
     \/ /\ server[g] = "active" /\ g = Ours
        /\ GoalBecomes(g, "canceling")
  /\ WorldOnly
  /\ UNCHANGED <<arm_call, disarm_call, cancel_call, cancel_target, dispatcher,
                 action_passed, robot>>

\* Nav2 serves the cancellation.
ServeCancel ==
  /\ cancel_call = "sent"
  /\ \/ /\ server[cancel_target] = "active"
        /\ cancel_call' = "yes" /\ GoalBecomes(cancel_target, "canceling")
     \/ cancel_call' = "no" /\ UNCHANGED server
  /\ WorldOnly
  /\ UNCHANGED <<arm_call, disarm_call, cancel_target, dispatcher, action_passed,
                 robot>>

\* The adapter serves arm and disarm in the order of the calls.
ServeArm ==
  /\ arm_call = "sent"
  /\ \/ robot = "DISARMED" /\ robot' = "PREPARING" /\ arm_call' = "yes"
     \/ UNCHANGED robot /\ arm_call' = "no"
  /\ WorldOnly
  /\ UNCHANGED <<disarm_call, cancel_call, cancel_target, server, dispatcher,
                 action_passed>>

ServeDisarm ==
  /\ disarm_call = "sent" /\ arm_call # "sent"
  /\ \/ robot' = "DISARMED" /\ disarm_call' = "yes"
     \/ robot' = "FAULT" /\ disarm_call' = "no"
  /\ WorldOnly
  /\ UNCHANGED <<arm_call, cancel_call, cancel_target, server, dispatcher,
                 action_passed>>

\* The adapter arms the daemon, or faults.
AdapterMoves ==
  /\ \/ robot = "PREPARING" /\ robot' = "ARMED"
     \/ robot \in {"PREPARING", "ARMED"} /\ robot' = "FAULT"
  /\ WorldOnly
  /\ UNCHANGED <<arm_call, disarm_call, cancel_call, cancel_target, server,
                 dispatcher, action_passed>>

-----------------------------------------------------------------------------

\* validate_environment: the claims the launcher derives from the permit are all
\* there; otherwise the program ends before it has a node, and without a result.
FirstStage(claims_valid) == IF claims_valid THEN "spin" ELSE "exit"

StagedInit ==
  /\ phase = "idle" /\ terminal_reason = "none" /\ goal_id = NoGoal
  /\ claim = NoGoal /\ unverified = NoGoal
  /\ chassis_view = "UNKNOWN"
  /\ arm_accepted = FALSE /\ measurement = "idle"
  /\ published_command = 0
  /\ \E claims_valid \in BOOLEAN : stage = FirstStage(claims_valid)
  /\ robot = "DISARMED" /\ faulted = FALSE
  /\ arm_call = "none" /\ disarm_call = "none" /\ cancel_call = "none"
  /\ cancel_target = NoGoal /\ raw = NoGoal
  /\ evidence = {} /\ outcome = "none"
  /\ server = [g \in Goal |-> "absent"]
  /\ dispatcher = "idle" /\ action_passed = FALSE

Callback ==
  \/ \E publisher \in Publishers : OnGoalClaim(publisher)
  \/ \E b \in BOOLEAN : \/ OnCommand(b) \/ OnTimer(b)
                       \/ OnChassisStatus(b) \/ OnArmResponse(b)
  \/ OnRefusedSample \/ OnRefusedBinding \/ OnPositionLeft
  \/ OnGoalStatus

Ending ==
  \/ EndZeros \/ EndCancel \/ AskDisarm \/ AwaitDisarm \/ MeasureDisarm
  \/ \E still \in BOOLEAN : Settle(still)
  \/ WriteResult

Environment ==
  \/ \E g \in Goal : SendGoal(g) \/ GoalEnds(g)
  \/ PublishClaim \/ WriteActionResult
  \/ ServeCancel \/ ServeArm \/ ServeDisarm \/ AdapterMoves

\* The world is followed as long as the session lasts.
StagedNext == Callback \/ Stop \/ Ending \/ (stage # "exit" /\ Environment)

\* The main loop goes on: every wait of its stop has a deadline.
StagedFairness == WF_staged_vars(Ending) /\ WF_staged_vars(SessionOver /\ Stop)

StagedSpec == StagedInit /\ [][StagedNext]_staged_vars /\ StagedFairness

-----------------------------------------------------------------------------
(* Properties *)

\* A session that passes has driven the permitted goal, which Nav2 still calls
\* succeeded or has forgotten, and leaves the chassis disarmed: no stale status,
\* late answer or other goal makes a PASS of anything else.
PassIsEarned ==
  outcome = "PASS" =>
    /\ goal_id = Ours /\ server[Ours] \in {"succeeded", "absent"}
    /\ robot \notin {"PREPARING", "ARMED"}

\* The one disarm call is the last word: after its acknowledgement no arm call, of
\* before or after it, leaves the chassis armed.
DisarmIsFinal == disarm_call = "yes" => robot \notin {"PREPARING", "ARMED"}

\* The velocity of the controller reaches the chassis for the claimed goal only:
\* after its claim, with an arming acknowledged and measured, and with no fault.
CommandsServeClaimedGoal ==
  published_command # 0 => /\ claim = Ours /\ goal_id = Ours
                /\ arm_accepted /\ arm_call = "answered" /\ ~faulted

\* A session that has ended is stopped and has its result: no wait of the stop is
\* for ever, whatever is not answered.
SessionEnds == SessionOver ~> outcome # "none"

\* "fault latched" (_publish, _trip): a session that has faulted does not pass.
FaultedSessionFails == outcome = "PASS" => ~faulted

=============================================================================
