------------------------------ MODULE RobotTrack ------------------------------
(***************************************************************************)
(* The fixed-distance follower of packages/go2_robottrack: the ROS thread  *)
(* of ros_node.py with its RGB-D pairer and its dispatch timer, and the    *)
(* thread of RgbdDistanceWorker.  A measurement travels from a pair of  *)
(* frames through the estimator to the forward speed; an invalidation may  *)
(* fall between any two of its steps.                                      *)
(*                                                                         *)
(* RobotTrack is the selected source, so CommandSourceMux.output returns   *)
(* the command that _dispatch has just put in.  Whether two frames match   *)
(* in their source stamps is chosen once per pair, as the pairer compares  *)
(* each pair once.  Distances and targets are numbers to compare.          *)
(***************************************************************************)
EXTENDS Ages

CONSTANTS
  Distance,       \* the distances and targets
  MeasurementAge  \* distance_measurement_max_age_s

Stale == MeasurementAge + 1

VARIABLES
  rgb, depth,     \* LatestRgbdPairer: the age of the frame, and whether it was emitted
  pending,        \* RgbdDistanceWorker._latest: the age of the pair
  reset_due,      \* _reset_before_estimate
  distance_worker,         \* its thread
  work,           \* its pair, current while its epoch is _epoch, and the estimate
  measured,    \* FollowDistanceRuntime._measurement
  target,         \* FixedDistanceController.target_distance_m
  plan,           \* PlanStore: an active plan
  ros,            \* the ROS thread: spinning, invalidating, dispatching, closed
  elapsed,        \* since the now of this dispatch
  dispatched,     \* what was published last
  memory          \* history: no state of the estimator is of before an invalidation

camera_vars == <<rgb, depth>>
distance_worker_vars == <<pending, reset_due, distance_worker, work, memory>>
track_vars ==
  <<camera_vars, distance_worker_vars, measured, target, plan, ros, elapsed, dispatched>>

NoFrame == [age |-> NoStamp, used |-> FALSE]
NoWork == [age |-> NoStamp, current |-> FALSE, distance |-> 0, sound |-> FALSE]

\* sound is a history: taken from a pair that was submitted after the last
\* invalidation, by an estimator that was reset since.
NoMeasurement == [age |-> NoStamp, distance |-> 0, sound |-> FALSE]

Aged(x) == [x EXCEPT !.age = Older(@, Stale)]

Oldest(a, b) == IF a > b THEN a ELSE b

-----------------------------------------------------------------------------
(* Frames, on the ROS thread *)

Submit(pair) ==
  /\ pending' = pair
  /\ UNCHANGED <<reset_due, distance_worker, work, memory>>

\* RgbdDistanceWorker.invalidate: every epoch in use is past.
Revoke ==
  /\ pending' = NoStamp
  /\ reset_due' = TRUE
  /\ work' = [work EXCEPT !.current = FALSE]
  /\ memory' = FALSE
  /\ measured' = [measured EXCEPT !.sound = FALSE]
  /\ ros' = "invalidating"
  /\ UNCHANGED distance_worker

\* _match_locked for a new frame and the other member.
Match(other, matches) ==
  IF other = NoFrame THEN "missing"
  ELSE IF other.used THEN "wait"
  ELSE IF other.age > MeasurementAge THEN "stale"
  ELSE IF matches THEN "paired"
  ELSE "wait"

\* What _handle_rgbd_decision does with it.
Decide(other, matches) ==
  CASE Match(other, matches) = "paired" ->
         /\ Submit(Oldest(0, other.age))
         /\ UNCHANGED <<measured, ros>>
    [] Match(other, matches) \in {"missing", "stale"} -> Revoke
    [] OTHER -> UNCHANGED <<distance_worker_vars, measured, ros>>

OnFrame(mine, other, matches) ==
  /\ ros = "spinning"
  /\ mine' = [age |-> 0, used |-> Match(other, matches) = "paired"]
  /\ other' = [other EXCEPT !.used = @ \/ Match(other, matches) = "paired"]
  /\ Decide(other, matches)
  /\ UNCHANGED <<target, plan, elapsed, dispatched>>

OnImage(matches) == OnFrame(rgb, depth, matches)
OnDepth(matches) == OnFrame(depth, rgb, matches)

\* A frame that cannot be converted.
OnRefusedFrame ==
  /\ ros = "spinning"
  /\ Revoke
  /\ UNCHANGED <<camera_vars, target, plan, elapsed, dispatched>>

\* The end of _invalidate_distance_measurement, _clear_distance_measurement.
ClearMeasurement ==
  /\ ros = "invalidating"
  /\ ros' = "spinning"
  /\ measured' = NoMeasurement
  /\ UNCHANGED <<camera_vars, distance_worker_vars, target, plan, elapsed, dispatched>>

-----------------------------------------------------------------------------
(* The distance_worker *)

Wait == distance_worker' = "waiting" /\ work' = NoWork

ByDistanceWorker == UNCHANGED <<camera_vars, target, plan, ros, elapsed, dispatched>>

Take ==
  /\ distance_worker = "waiting" /\ pending # NoStamp
  /\ distance_worker' = IF reset_due THEN "resetting" ELSE "checking"
  /\ work' = [NoWork EXCEPT !.age = pending, !.current = TRUE]
  /\ pending' = NoStamp
  /\ reset_due' = FALSE
  /\ ByDistanceWorker /\ UNCHANGED <<memory, measured>>

\* Mutant of ResetFails: the next pair is measured without a reset.
ResetFailsForGood ==
  /\ distance_worker = "resetting"
  /\ distance_worker' = "failed"
  /\ ByDistanceWorker /\ UNCHANGED <<pending, reset_due, work, memory, measured>>

ResetFails ==
  /\ distance_worker = "resetting"
  /\ distance_worker' = "failed"
  /\ reset_due' = TRUE
  /\ ByDistanceWorker /\ UNCHANGED <<pending, work, memory, measured>>

ResetSucceeds ==
  /\ distance_worker = "resetting"
  /\ distance_worker' = "checking"
  /\ memory' = TRUE
  /\ ByDistanceWorker /\ UNCHANGED <<pending, reset_due, work, measured>>

\* The two tests of the epoch, before and after the estimation.
Check(here, there) ==
  /\ distance_worker = here
  /\ IF work.current THEN distance_worker' = there /\ UNCHANGED work ELSE Wait
  /\ ByDistanceWorker /\ UNCHANGED <<pending, reset_due, memory, measured>>

Estimate ==
  /\ distance_worker = "estimating"
  /\ \/ /\ distance_worker' = "measured"
        /\ \E answer \in Distance \cup {0} :
             work' = [work EXCEPT !.distance = answer, !.sound = work.current /\ memory]
     \/ distance_worker' = "raised" /\ UNCHANGED work
  /\ ByDistanceWorker /\ UNCHANGED <<pending, reset_due, memory, measured>>

\* _on_distance_estimate: commit, in the lock of the measured.
Committed ==
  IF work.distance # 0 /\ work.age <= MeasurementAge
  THEN [age |-> work.age, distance |-> work.distance,
        sound |-> work.sound /\ work.current]
  ELSE NoMeasurement

CommitEstimate ==
  /\ distance_worker = "delivering"
  /\ Wait
  /\ measured' = IF ros # "closed" /\ work.current THEN Committed ELSE measured
  /\ ByDistanceWorker /\ UNCHANGED <<pending, reset_due, memory>>

\* _on_distance_estimation_error
ReportError ==
  /\ distance_worker = "failed"
  /\ Wait
  /\ measured' = IF ros # "closed" /\ work.current THEN NoMeasurement ELSE measured
  /\ ByDistanceWorker /\ UNCHANGED <<pending, reset_due, memory>>

Work ==
  \/ Take \/ ResetSucceeds
  \/ Check("checking", "estimating") \/ Estimate
  \/ Check("measured", "delivering") \/ Check("raised", "failed")
  \/ CommitEstimate \/ ReportError

-----------------------------------------------------------------------------
(* Plans, targets and dispatch *)

\* InferenceWorker._run: a new plan, and the 1.5 s after which it is stale.
PlanChanges ==
  /\ ros # "closed"
  /\ plan' = ~plan
  /\ UNCHANGED <<camera_vars, distance_worker_vars, measured, target, ros, elapsed, dispatched>>

\* follow_distance, set and adjust.
SetTarget ==
  /\ target' \in Distance \ {target}
  /\ UNCHANGED <<camera_vars, distance_worker_vars, measured, plan, ros, elapsed, dispatched>>

\* _dispatch: now, and _expire_distance_measurement.
BeginDispatch ==
  /\ ros = "spinning"
  /\ ros' = "dispatching"
  /\ elapsed' = 0
  /\ measured' = IF measured.age > MeasurementAge THEN NoMeasurement ELSE measured
  /\ UNCHANGED <<camera_vars, distance_worker_vars, target, plan, dispatched>>

\* The age of the measured at the now of this dispatch.
AgeAtNow == measured.age - elapsed

\* FixedDistanceController.apply
Forward ==
  /\ measured.age # NoStamp
  /\ AgeAtNow <= MeasurementAge
  /\ measured.distance > target

\* The rest of _dispatch: the plan, the controller, and what is published.
Dispatch ==
  /\ ros = "dispatching"
  /\ ros' = "spinning" /\ elapsed' = 0
  /\ dispatched' = IF ~plan THEN "zero" ELSE IF Forward THEN "forward" ELSE "turn"
  /\ measured' = IF plan /\ measured.age # NoStamp /\ AgeAtNow > MeasurementAge
                    THEN NoMeasurement ELSE measured
  /\ UNCHANGED <<camera_vars, distance_worker_vars, target, plan>>

\* close: the distance_worker discards what it has, zeros are published.
Close ==
  /\ ros = "spinning"
  /\ ros' = "closed"
  /\ pending' = NoStamp /\ reset_due' = FALSE
  /\ work' = [work EXCEPT !.current = FALSE]
  /\ rgb' = NoFrame /\ depth' = NoFrame
  /\ plan' = FALSE
  /\ measured' = NoMeasurement
  /\ dispatched' = "zero"
  /\ UNCHANGED <<distance_worker, memory, target, elapsed>>

TrackTimePasses ==
  /\ ros = "dispatching" => elapsed = 0
  /\ elapsed' = IF ros = "dispatching" THEN 1 ELSE 0
  /\ rgb' = Aged(rgb) /\ depth' = Aged(depth)
  /\ pending' = Older(pending, Stale)
  /\ work' = Aged(work)
  /\ measured' = [measured EXCEPT !.age = Older(@, Stale + 1)]
  /\ UNCHANGED <<reset_due, distance_worker, memory, target, plan, ros, dispatched>>

-----------------------------------------------------------------------------

TrackInit ==
  /\ rgb = NoFrame /\ depth = NoFrame
  /\ pending = NoStamp /\ reset_due = FALSE
  /\ distance_worker = "waiting" /\ work = NoWork
  /\ memory = TRUE
  /\ measured = NoMeasurement
  /\ target \in Distance
  /\ plan = FALSE
  /\ ros = "spinning" /\ elapsed = 0
  /\ dispatched = "zero"

TrackNext ==
  \/ \E matches \in BOOLEAN : OnImage(matches) \/ OnDepth(matches)
  \/ OnRefusedFrame \/ ClearMeasurement
  \/ Work \/ ResetFails
  \/ PlanChanges \/ SetTarget
  \/ BeginDispatch \/ Dispatch \/ Close
  \/ TrackTimePasses

TrackSpec == TrackInit /\ [][TrackNext]_track_vars

-----------------------------------------------------------------------------
(* Properties *)

\* The robot is sent forward only on a distance that the present target is
\* nearer than, measured on a pair young enough at the start of the dispatch,
\* which no invalidation has followed and no state of before one has entered:
\* through resets that fail, measurements under way and pairs replaced.
ForwardIsWitnessed ==
  [][ros = "dispatching" /\ ros' = "spinning" /\ dispatched' = "forward"
       => /\ measured.sound
          /\ AgeAtNow <= MeasurementAge
          /\ plan]_track_vars

=============================================================================
