--------------------------- MODULE FirstMotionProbe ---------------------------
(* The supervised first motion of a commissioning session: a process that      *)
(* gathers evidence, asks the chassis adapter to arm, drives forward for a     *)
(* moment, disarms, watches the robot stand still and writes a verdict.  What  *)
(* it knows of the adapter it knows from diagnostics that arrive late and from *)
(* the answers of a service that may time out.                                 *)
(*                                                                             *)
(* Deadlines may have passed whenever they are looked at, and what was         *)
(* received grows old at any time; the distances, speeds and angles are the    *)
(* verdicts that are drawn from them.                                          *)
EXTENDS Naturals, Sequences

CONSTANTS
  StabilitySamples,   \* GRAPH_STABILITY_SAMPLES
  PostStopSamples     \* POST_STOP_MIN_ODOM_SAMPLES

ASSUME ProbeAssumption ==
  StabilitySamples \in Nat \ {0} /\ PostStopSamples \in Nat \ {0}

VARIABLES
  probe,            \* what the process is about
  stable,           \* stable samples of the graph, until it is left
  stop_requested,   \* a signal was received
  latched,          \* latched_issue is set
  state_ok,         \* state_issue is empty and the receipt is fresh
  odom_ok,          \* the same of the odometry
  diag_ok,          \* the same of the diagnostics
  view,             \* the members taken from the last diagnostics
  active_observed,  \* commissioning_motion_active_observed
  command,          \* the velocity published last
  arm_accepted,
  post_samples,     \* odometry samples since the stop, up to PostStopSamples
  verdict,          \* status of the evidence
  requests,         \* requests to the arm service
  answers,          \* futures of the two requests
  adapter,          \* the adapter's members that the diagnostics report
  diagnostic,       \* a report on its way, or NoReport
  driving,          \* the robot moves
  drove             \* history: the adapter sent a motion of this session

probe_vars == <<probe, stable, stop_requested, latched, state_ok, odom_ok, diag_ok, view,
                active_observed, command, arm_accepted, post_samples, verdict, requests,
                answers, adapter, diagnostic, driving, drove>>
inputs == <<latched, state_ok, odom_ok, diag_ok, view, active_observed, post_samples>>
progress == <<stable, stop_requested, arm_accepted, verdict>>
service == <<requests, answers>>
robot == <<adapter, diagnostic, driving, drove>>

NoReport == << >>

-----------------------------------------------------------------------------
(* What the functions of the measurements say, which is all that matters here. *)

\* bind_added_sport_writer(): since the baseline exactly one writer of requests to
\* the robot was added, and it is the one that was bound.
WriterVerdicts == BOOLEAN

\* graph_issue(): the probe, the adapter and that writer are alone.
GraphVerdicts == {alone /\ bound : alone \in BOOLEAN, bound \in WriterVerdicts}

\* _on_state, _on_odom: a valid sample, an invalid one, or one whose stamp
\* stopped progressing or whose marker changed.
Samples == {"good", "bad", "other"}

\* _on_diagnostics: a status in which everything is as it should be, or not.
DiagnosticVerdicts == BOOLEAN

\* motion_decision(): within the limits, or the distance or time is reached.
MotionDecisions == {"continue", "limit"}

\* measured_motion(), require_measured_displacement(): forward and straight.
DisplacementVerdicts == BOOLEAN

\* post_stop_decision(): no speed, no rotation, no drift.
StationaryVerdicts == BOOLEAN

-----------------------------------------------------------------------------
(* health_issue() and runtime_issue(): what must hold of the inputs; the graph *)
(* is looked at now and then, and may be wrong whenever it is.                 *)

Healthy == ~latched /\ state_ok /\ odom_ok /\ diag_ok

IdleHealth == Healthy /\ view.guard = "DISARMED" /\ ~view.spent /\ ~view.active

AwaitHealth == Healthy /\ view.guard \in {"DISARMED", "PREPARING", "ARMED"}

ArmedHealth == Healthy /\ view.guard = "ARMED"

StoppedHealth == Healthy /\ view.guard = "DISARMED" /\ view.spent /\ ~view.active

-----------------------------------------------------------------------------
(* spin_once() serves one callback, if any.                                    *)

\* A stamp that stops progressing and another marker are latched.
OnState(sample) ==
  /\ latched' = (latched \/ sample = "other")
  /\ state_ok' = (sample = "good" /\ ~latched)
  /\ UNCHANGED <<odom_ok, diag_ok, view, active_observed, post_samples>>

OnOdom(sample) ==
  /\ latched' = (latched \/ sample = "other")
  /\ odom_ok' = (sample = "good" /\ ~latched)
  /\ post_samples' = IF odom_ok' /\ probe = "watching" /\ post_samples < PostStopSamples
                     THEN post_samples + 1 ELSE post_samples
  /\ UNCHANGED <<state_ok, diag_ok, view, active_observed>>

\* The members are taken from a status with an issue, too.
OnDiagnostics(fine) ==
  /\ diagnostic # NoReport
  /\ view' = Head(diagnostic)
  /\ active_observed' = (active_observed \/ (fine /\ view'.active))
  /\ diag_ok' = fine
  /\ UNCHANGED <<latched, state_ok, odom_ok, post_samples>>

OnMalformedDiagnostics ==
  /\ diag_ok' = FALSE
  /\ UNCHANGED <<latched, state_ok, odom_ok, view, active_observed, post_samples>>

SpinOnce ==
  \/ /\ \E sample \in Samples : OnState(sample) \/ OnOdom(sample)
     /\ UNCHANGED <<adapter, diagnostic, driving, drove>>
  \/ /\ \E fine \in DiagnosticVerdicts : OnDiagnostics(fine)
     /\ diagnostic' = NoReport
     /\ UNCHANGED <<adapter, driving, drove>>
  \/ OnMalformedDiagnostics /\ UNCHANGED robot
  \/ UNCHANGED <<inputs, robot>>

\* publish_velocity(velocity), and then a callback.
PublishAndSpin(velocity) == command' = velocity /\ SpinOnce

\* An exception ends the session in its finally clause.
Fail ==
  /\ probe' = "disarm"
  /\ UNCHANGED <<inputs, progress, service, robot, command>>

-----------------------------------------------------------------------------
(* Before the arm request *)

AcquireSpin ==
  /\ probe = "acquire" /\ stable < StabilitySamples
  /\ IF stop_requested THEN Fail
     ELSE PublishAndSpin("zero") /\ UNCHANGED <<probe, progress, service>>

\* One sample of the graph and of the telemetry.
AcquireSample(graph) ==
  /\ probe = "acquire" /\ stable < StabilitySamples
  /\ stable' = IF graph /\ IdleHealth THEN stable + 1 ELSE 0
  /\ UNCHANGED <<probe, stop_requested, arm_accepted, verdict, inputs, service, robot,
                 command>>

AcquireEnds ==
  /\ probe = "acquire"
  /\ \/ stable < StabilitySamples /\ Fail
     \/ /\ stable = StabilitySamples
        /\ probe' = "preamble"
        /\ UNCHANGED <<inputs, progress, service, robot, command>>

Preamble ==
  /\ probe = "preamble"
  /\ \/ \E graph \in GraphVerdicts :
          IF ~stop_requested /\ graph /\ IdleHealth
          THEN PublishAndSpin("zero") /\ UNCHANGED <<probe, progress, service>>
          ELSE Fail
     \/ \* its deadline has passed
        /\ probe' = "arm"
        /\ UNCHANGED <<inputs, progress, service, robot, command>>

-----------------------------------------------------------------------------
(* call_arm(): the request, zeroes until the future is done, or a time-out.    *)

SendRequest(request) ==
  /\ requests' = Append(requests, request)
  /\ answers' = [answers EXCEPT ![request] = "pending"]
  /\ UNCHANGED <<inputs, progress, robot, command>>

Answered(request, success) == answers[request] = IF success THEN "yes" ELSE "no"

AwaitAnswer(request) ==
  /\ answers[request] = "pending"
  /\ PublishAndSpin("zero")
  /\ UNCHANGED <<probe, progress, service>>

\* The service is not there, or does not answer in time, or refuses.
NoSuccess(request) == ~Answered(request, TRUE)

RequestArm ==
  \/ /\ probe = "arm"
     /\ \/ SendRequest("arm") /\ probe' = "arming"
        \/ Fail
  \/ /\ probe = "arming"
     /\ \/ AwaitAnswer("arm")
        \/ NoSuccess("arm") /\ Fail
        \/ /\ Answered("arm", TRUE)
           /\ arm_accepted' = TRUE /\ probe' = "await"
           /\ UNCHANGED <<stable, stop_requested, verdict, inputs, service, robot,
                          command>>

-----------------------------------------------------------------------------
(* Motion *)

AwaitArmed ==
  /\ probe = "await"
  /\ \/ \E graph \in GraphVerdicts :
          IF ~stop_requested /\ graph /\ AwaitHealth
          THEN PublishAndSpin("zero") /\ UNCHANGED <<probe, progress, service>>
          ELSE Fail
     \/ \* the adapter is seen armed, or the deadline has passed
        \E graph \in GraphVerdicts :
          IF /\ view.guard = "ARMED" /\ view.daemon_armed
             /\ graph /\ ArmedHealth /\ view.spent /\ ~view.active
          THEN /\ probe' = "motion"
               /\ UNCHANGED <<inputs, progress, service, robot, command>>
          ELSE Fail

Motion ==
  /\ probe = "motion"
  /\ \E graph \in GraphVerdicts, decision \in MotionDecisions :
       IF stop_requested \/ ~graph \/ ~ArmedHealth \/ ~view.daemon_armed THEN Fail
       ELSE IF decision = "continue"
       THEN PublishAndSpin("speed") /\ UNCHANGED <<probe, progress, service>>
       ELSE /\ command' = "zero" /\ probe' = "measure"
            /\ UNCHANGED <<inputs, progress, service, robot>>

\* Mutant of Confirmed: the displacement alone is evidence of the motion.
ConfirmedByDisplacement == TRUE

Confirmed == active_observed

\* The adapter's confirmation and the measured displacement decide.
Measure(displaced) ==
  /\ probe = "measure"
  /\ verdict' = IF Confirmed /\ displaced THEN "measured" ELSE verdict
  /\ probe' = "disarm"
  /\ UNCHANGED <<inputs, stable, stop_requested, arm_accepted, service, robot, command>>

-----------------------------------------------------------------------------
(* The finally clause *)

Disarm ==
  \/ /\ probe = "disarm"
     /\ command' = "zero"
     /\ \/ \* the service is gone
           probe' = "hold" /\ UNCHANGED service
        \/ /\ requests' = Append(requests, "disarm")
           /\ answers' = [answers EXCEPT !["disarm"] = "pending"]
           /\ probe' = "disarming"
     /\ UNCHANGED <<inputs, progress, robot>>
  \/ /\ probe = "disarming"
     /\ \/ AwaitAnswer("disarm")
        \/ \* done, or out of time
           /\ probe' = IF Answered("disarm", TRUE) THEN "stopped" ELSE "hold"
           /\ UNCHANGED <<inputs, progress, service, robot, command>>

\* Zeroes are published for a while; then a session that was armed and whose
\* disarm is acknowledged is watched.
Hold ==
  /\ probe \in {"hold", "stopped"}
  /\ \/ PublishAndSpin("zero") /\ UNCHANGED <<probe, progress, service>>
     \/ /\ probe = "stopped" /\ arm_accepted
        /\ probe' = "watching"
        /\ post_samples' = 0
        /\ UNCHANGED <<latched, state_ok, odom_ok, diag_ok, view, active_observed, progress,
                       service, robot, command>>
     \/ /\ ~(probe = "stopped" /\ arm_accepted)
        /\ probe' = "over" /\ verdict' = "FAIL"
        /\ UNCHANGED <<inputs, stable, stop_requested, arm_accepted, service, robot,
                       command>>

\* The status that is written: measured, disarmed, and watched for long enough.
Evidence == IF verdict = "measured" /\ post_samples = PostStopSamples
            THEN "PASS" ELSE "FAIL"

\* _write_evidence: an evidence that cannot be written passes nothing.
Persisted(status) == {status, "FAIL"}

\* verify_post_stop() publishes, serves a callback and looks at once.
Watch ==
  \/ /\ probe = "watching"
     /\ PublishAndSpin("zero")
     /\ probe' = "look"
     /\ UNCHANGED <<progress, service>>
  \/ /\ probe = "look"
     /\ \E graph \in GraphVerdicts, stationary \in StationaryVerdicts :
          IF ~graph \/ ~StoppedHealth \/ view.daemon_armed \/ ~stationary
          THEN probe' = "over" /\ verdict' = "FAIL"
          ELSE \/ probe' = "watching" /\ UNCHANGED verdict
               \/ \* this was the last look
                  /\ probe' = "over"
                  /\ verdict' \in Persisted(Evidence)
     /\ UNCHANGED <<inputs, stable, stop_requested, arm_accepted, service, robot, command>>

-----------------------------------------------------------------------------
(* The adapter, its daemon and the robot: what the probe relies on.            *)

\* A motion-capable commissioning adapter arms once.
AdapterArms ==
  /\ requests # << >> /\ Head(requests) = "arm"
  /\ requests' = Tail(requests)
  /\ \/ /\ ~adapter.spent /\ adapter.guard = "DISARMED"
        /\ adapter' = [adapter EXCEPT !.guard = "PREPARING", !.spent = TRUE,
                                      !.active = FALSE]
        /\ answers' = [answers EXCEPT !["arm"] = "yes"]
     \/ answers' = [answers EXCEPT !["arm"] = "no"] /\ UNCHANGED adapter
  /\ UNCHANGED <<driving, drove>>

\* A disarm that the guard or the daemon does not confirm is answered with no.
AdapterDisarms ==
  /\ requests # << >> /\ Head(requests) = "disarm"
  /\ requests' = Tail(requests)
  /\ \E accepted, stopped \in BOOLEAN :
       /\ accepted \/ adapter.guard = "FAULT"
       /\ adapter' = [adapter EXCEPT !.guard = IF accepted THEN "DISARMED" ELSE @,
                                     !.active = FALSE, !.daemon_armed = FALSE]
       /\ driving' = (driving /\ ~stopped)
       /\ answers' = [answers EXCEPT !["disarm"] = IF accepted /\ stopped THEN "yes"
                                                   ELSE "no"]
  /\ UNCHANGED drove

\* The control timer.
AdapterTicks ==
  /\ \/ /\ adapter.guard = "PREPARING" /\ command = "zero"
        /\ adapter' = [adapter EXCEPT !.guard = "ARMED", !.daemon_armed = TRUE]
        /\ UNCHANGED <<driving, drove>>
     \/ /\ adapter.guard = "ARMED" /\ command = "speed"
        /\ adapter' = [adapter EXCEPT !.active = TRUE]
        /\ driving' = TRUE /\ drove' = TRUE
     \/ /\ adapter.guard = "ARMED" /\ command = "zero"
        /\ driving' = FALSE /\ UNCHANGED <<adapter, drove>>
     \/ \* a fault of the guard, the hard envelope, stale odometry
        /\ adapter.guard \in {"PREPARING", "ARMED"}
        /\ adapter' = [adapter EXCEPT !.guard = "FAULT", !.active = FALSE,
                                      !.daemon_armed = FALSE]
        /\ driving' \in {driving, FALSE}
        /\ UNCHANGED drove
  /\ UNCHANGED service

\* The independent watchdog.
DaemonStops ==
  /\ driving /\ driving' = FALSE
  /\ UNCHANGED <<adapter, drove, service>>

AdapterReports ==
  /\ diagnostic' = <<adapter>>
  /\ UNCHANGED <<adapter, driving, drove, service>>

Adapter ==
  /\ \/ (AdapterArms \/ AdapterDisarms \/ AdapterTicks \/ DaemonStops)
          /\ UNCHANGED diagnostic
     \/ AdapterReports
  /\ UNCHANGED <<probe, progress, inputs, command>>

Interrupt ==
  /\ stop_requested' = TRUE
  /\ UNCHANGED <<probe, stable, arm_accepted, verdict, inputs, service, robot, command>>

GrowsOld ==
  /\ state_ok' \in {state_ok, FALSE}
  /\ odom_ok' \in {odom_ok, FALSE}
  /\ diag_ok' \in {diag_ok, FALSE}
  /\ UNCHANGED <<probe, progress, latched, view, active_observed, post_samples, service,
                 robot, command>>

-----------------------------------------------------------------------------
\* validate_environment(), load_sport_request_baseline(): the gates of the operator
\* and a fresh baseline of the writers, or the process ends before it has a node.
FirstStep(gates_open) == IF gates_open THEN "acquire" ELSE "over"

ProbeInit ==
  /\ \E gates_open \in BOOLEAN : probe = FirstStep(gates_open)
  /\ stable = 0 /\ stop_requested = FALSE
  /\ latched = FALSE /\ state_ok = FALSE /\ odom_ok = FALSE /\ diag_ok = FALSE
  /\ view = [guard |-> "UNKNOWN", daemon_armed |-> FALSE, spent |-> FALSE,
             active |-> FALSE]
  /\ active_observed = FALSE /\ command = "zero" /\ arm_accepted = FALSE
  /\ post_samples = 0 /\ verdict = "none"
  /\ requests = << >> /\ answers = [arm |-> "none", disarm |-> "none"]
  /\ adapter \in [guard: {"DISARMED"}, daemon_armed: {FALSE}, spent: BOOLEAN,
                  active: {FALSE}]
  /\ diagnostic = NoReport /\ driving = FALSE /\ drove = FALSE

Process ==
  \/ AcquireSpin
  \/ \E graph \in GraphVerdicts : AcquireSample(graph)
  \/ AcquireEnds
  \/ Preamble
  \/ RequestArm
  \/ AwaitArmed
  \/ Motion
  \/ \E displaced \in DisplacementVerdicts : Measure(displaced)
  \/ Disarm
  \/ Hold
  \/ Watch

ProbeNext == Process \/ Adapter \/ Interrupt \/ GrowsOld

ProbeSpec == ProbeInit /\ [][ProbeNext]_probe_vars

-----------------------------------------------------------------------------
\* A session passes only if the adapter drove the robot in it, no marker
\* changed and no stamp stopped in it, and it is over: the robot stands, the
\* daemon is disarmed and no arm request of the session is left in a queue.
MotionPassIsEarned ==
  verdict = "PASS" =>
    /\ drove /\ ~latched
    /\ ~driving /\ ~adapter.daemon_armed
    /\ adapter.guard \notin {"PREPARING", "ARMED"}
    /\ requests = << >>

=============================================================================
