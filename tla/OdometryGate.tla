----------------------------- MODULE OdometryGate -----------------------------
(***************************************************************************)
(* What the chassis adapter lets through as canonical odometry: the        *)
(* sport state as a witness, the external odometry as the pose, and the    *)
(* opaque firmware marker, in go2_chassis_adapter_node.cpp with            *)
(* safety_guard.hpp (OpaqueFirmwareStateMarkerPolicy, SourceStampTracker,  *)
(* ExternalOdometryFaultLatch), for odom_source external_verified.         *)
(*                                                                         *)
(* A source stamp is its age, counted from the newest stamp the allowed    *)
(* future skew admits.  Two poses are further apart than a jump.           *)
(***************************************************************************)
EXTENDS Ages

CONSTANTS
  Marker, Zero,    \* values of error_code, and the value 0
  Reviewed,        \* allowed_state_markers
  Pose,            \* poses no two of which are continuous
  Profiles,        \* the deployments to look at
  StampAge,        \* max_source_stamp_age_sec
  ReceiptTimeout,  \* state_timeout_sec, external_odom_timeout_sec and the gap
                   \* of a recovery, in ticks of time
  StableTime,      \* kPassiveStateMarkerRecoveryStableSec
  StableSamples    \* kPassiveStateMarkerRecoveryMinimumSamples

ASSUME GateAssumption ==
  /\ Zero \in Marker /\ Reviewed \subseteq Marker /\ "none" \notin Marker
  /\ StampAge \in Nat /\ ReceiptTimeout \in Nat
  /\ StableTime \in Nat /\ StableSamples \in Nat \ {0}

VARIABLES
  profile,       \* the parameters of the process
  stamp,         \* last_source_stamp_ns_ of the two state streams and of the
                 \* odometry
  primary_age,   \* age of last_primary_state_receipt_sec_
  active_source, \* active_state_source_
  state_age,     \* age of last_state_receipt_sec_
  state_valid,   \* last_state_valid_
  marker,        \* the marker policy
  candidate,     \* its recovery candidate
  seen,          \* current_marker_, "none" while the last state's measurements
                 \* are invalid
  odom_age,      \* age of last_external_odom_receipt_sec_
  odom_valid,    \* last_external_odom_valid_
  latched,       \* external_odom_fault_latch_
  previous,      \* previous_x_, previous_y_ and the yaw
  has_previous,  \* has_previous_position_
  session,       \* CommissioningSessionOpen
  canonical,     \* history: the pose the last step published, "none" if not
  steady,        \* history: the unbroken run of samples of one reviewed marker
                 \* that the last measured state belongs to
  disturbed      \* history: an odd marker was seen, and no such run has been
                 \* long enough since

Profile == [allow_motion : BOOLEAN, transitions : BOOLEAN, recovery : BOOLEAN]

Source == {"primary", "fallback"}

state_vars ==
  <<primary_age, active_source, state_age, state_valid, marker, candidate, seen>>
odom_vars == <<odom_age, odom_valid, latched, previous, has_previous, session>>
gate_vars == <<profile, stamp, state_vars, odom_vars, canonical, steady, disturbed>>

Fresh(valid, age) == valid /\ age # NoStamp /\ age <= ReceiptTimeout

StateIsFresh == Fresh(state_valid, state_age)
FreshOdometry == Fresh(odom_valid, odom_age)

\* ExternalOdometryFresh
Eligible == ~latched /\ StateIsFresh /\ FreshOdometry

\* A stamp that shows no progress over the last one of its stream.
Stalled(source, age, strict) ==
  /\ stamp[source] # NoStamp
  /\ IF strict THEN age >= stamp[source] ELSE age > stamp[source]

-----------------------------------------------------------------------------
(* The marker policy *)

Eligibles == Reviewed \cup {Zero}

NoCandidate == [marker |-> "none", samples |-> 0, start |-> NoStamp, last |-> NoStamp]

Begun(value) == [marker |-> value, samples |-> 1, start |-> 0, last |-> 0]

\* Mutant of Advanced: another marker does not begin the candidate anew.
AdvancedOverChanges(value) ==
  IF candidate.marker = "none" \/ candidate.last > ReceiptTimeout
  THEN Begun(value)
  ELSE [candidate EXCEPT !.marker = value, !.samples = Older(@, StableSamples), !.last = 0]

\* ObservePassiveRecovery: the candidate after one more reviewed marker.
Advanced(value) ==
  IF candidate.marker # value \/ candidate.last > ReceiptTimeout
  THEN Begun(value)
  ELSE [candidate EXCEPT !.samples = Older(@, StableSamples), !.last = 0]

Stable(c) == c.samples >= StableSamples /\ c.start >= StableTime

\* What Observe does in quarantine; answer is its result.
Recover(value, answer) ==
  IF value \notin Reviewed
  THEN ~answer /\ candidate' = NoCandidate /\ UNCHANGED marker
  ELSE LET c == Advanced(value)
       IN  /\ answer = (c.samples > 1 /\ Stable(c))
           /\ candidate' = IF answer THEN NoCandidate ELSE c
           /\ marker' = IF answer
                        THEN [marker EXCEPT !.bound = value, !.pending = FALSE]
                        ELSE marker

\* BeginPassiveRecovery
Quarantine ==
  marker' = [marker EXCEPT !.pending = TRUE] /\ candidate' = NoCandidate

\* OpaqueFirmwareStateMarkerPolicy::Observe
ObserveMarker(value, answer) ==
  CASE marker.changed -> ~answer /\ UNCHANGED <<marker, candidate>>
    [] ~marker.changed /\ marker.pending -> Recover(value, answer)
    [] ~marker.changed /\ ~marker.pending ->
         LET binds == \/ marker.bound = "none" /\ value \in Eligibles
                      \/ marker.bound = value
                      \/ profile.transitions /\ {marker.bound, value} \subseteq Reviewed
         IN  /\ answer = binds
             /\ CASE binds ->
                       /\ marker' = [marker EXCEPT !.bound = value]
                       /\ UNCHANGED candidate
                  [] ~binds /\ profile.recovery -> Quarantine
                  [] ~binds /\ ~profile.recovery ->
                       /\ marker' = [marker EXCEPT !.changed = marker.bound # "none"]
                       /\ UNCHANGED candidate

\* The history, apart from what the policy remembers.  A process that has bound
\* nothing or zero takes a zero that is not reviewed.
Odd(value) == value \notin Reviewed /\ ~(value = Zero /\ marker.bound \in {"none", Zero})

LongEnough(c) == c.samples >= StableSamples /\ c.start >= StableTime

Observed(value) ==
  /\ steady' = IF value \notin Reviewed THEN NoCandidate
               ELSE IF steady.marker # value \/ steady.last > ReceiptTimeout THEN Begun(value)
               ELSE [steady EXCEPT !.samples = Older(@, StableSamples), !.last = 0]
  /\ disturbed' = (Odd(value) \/ (disturbed /\ ~LongEnough(steady')))

NothingObserved == UNCHANGED <<steady, disturbed>>

-----------------------------------------------------------------------------
(* Rejections *)

\* RejectExternalOdometry and, in a session, the fail-closed stop.
RejectOdometry(integrity) ==
  /\ odom_valid' = FALSE
  /\ latched' = (latched \/ integrity)
  /\ session' = FALSE
  /\ UNCHANGED <<odom_age, previous, has_previous>>

\* HandleExternalOdometryLivenessLoss: in a session for ever; outside one a new
\* epoch of poses begins, while the stamps go on.
LoseLiveness ==
  IF session THEN RejectOdometry(TRUE)
  ELSE /\ odom_valid' = FALSE
       /\ odom_age' = NoStamp
       /\ has_previous' = FALSE
       /\ UNCHANGED <<latched, previous, session>>

NothingPublished == canonical' = "none"

\* Mutant of Ignore: a late or repeated sample refreshes the receipt.
IgnoreButRefresh(fresh) ==
  /\ IF fresh THEN UNCHANGED odom_vars ELSE LoseLiveness
  /\ state_age' = 0
  /\ UNCHANGED <<primary_age, active_source, state_valid, marker, candidate, seen>>

\* A late or repeated sample refreshes nothing, and may reveal a silence.
Ignore(fresh) ==
  /\ IF fresh THEN UNCHANGED odom_vars ELSE LoseLiveness
  /\ UNCHANGED state_vars

-----------------------------------------------------------------------------
(* OnSportModeState *)

\* The fallback stream is looked at only while the primary one is silent.
Heard(source) ==
  source = "fallback" => primary_age = NoStamp \/ primary_age > ReceiptTimeout

\* A malformed stamp, one from the future or a regressing one, or a late sample
\* with invalid measurements.
RefuseState ==
  /\ state_valid' = FALSE
  /\ RejectOdometry(TRUE)
  /\ UNCHANGED <<primary_age, active_source, state_age, marker, candidate, seen>>

\* A state with a fresh stamp that advances.
AcceptState(source, age, measured, value) ==
  /\ stamp' = [stamp EXCEPT ![source] = age]
  /\ active_source' = source
  /\ primary_age' = IF source = "primary" THEN 0 ELSE primary_age
  /\ state_age' = 0
  /\ IF measured
     THEN ObserveMarker(value, state_valid') /\ Observed(value)
     ELSE ~state_valid' /\ UNCHANGED <<marker, candidate>> /\ NothingObserved
  /\ seen' = IF measured THEN value ELSE "none"
  /\ IF state_valid' THEN UNCHANGED odom_vars
     ELSE IF profile.recovery /\ measured /\ marker'.pending THEN LoseLiveness
     ELSE RejectOdometry(TRUE)

OnSportModeState(source, age, measured, value) ==
  /\ Heard(source)
  /\ NothingPublished
  /\ UNCHANGED profile
  /\ \/ /\ age > StampAge
        /\ IF measured THEN Ignore(StateIsFresh) ELSE RefuseState
        /\ NothingObserved /\ UNCHANGED stamp
     \/ /\ age <= StampAge /\ Stalled(source, age, profile.allow_motion)
        /\ IF age = stamp[source] THEN Ignore(StateIsFresh) ELSE RefuseState
        /\ NothingObserved /\ UNCHANGED stamp
     \/ /\ age <= StampAge /\ ~Stalled(source, age, profile.allow_motion)
        /\ state_valid' \in BOOLEAN
        /\ AcceptState(source, age, measured, value)

OnMalformedState(source) ==
  /\ Heard(source)
  /\ RefuseState
  /\ NothingPublished
  /\ NothingObserved /\ UNCHANGED <<profile, stamp>>

-----------------------------------------------------------------------------
(* OnExternalOdometry *)

OdometryUntouched == UNCHANGED <<profile, state_vars, steady, disturbed>>

\* A frame, stamp or value that is refused for good.
OnRefusedOdometry ==
  /\ ~latched
  /\ RejectOdometry(TRUE)
  /\ NothingPublished
  /\ OdometryUntouched /\ UNCHANGED stamp

\* Before the first state there is no chain to lose.
OnOdometryWithoutState ==
  IF state_age = NoStamp /\ odom_age = NoStamp THEN RejectOdometry(FALSE) ELSE LoseLiveness

PublishOdometry(age, pose) ==
  /\ stamp' = [stamp EXCEPT !["odometry"] = age]
  /\ previous' = pose /\ has_previous' = TRUE
  /\ odom_age' = 0 /\ odom_valid' = TRUE
  /\ canonical' = pose
  /\ UNCHANGED <<latched, session>>

\* An odometry with the right frames, a good encoding and finite values.
OnExternalOdometry(age, pose) ==
  /\ ~latched
  /\ OdometryUntouched
  /\ IF age > StampAge
     THEN /\ IF FreshOdometry THEN UNCHANGED odom_vars ELSE LoseLiveness
          /\ NothingPublished /\ UNCHANGED stamp
     ELSE IF has_previous /\ pose # previous
     THEN RejectOdometry(TRUE) /\ NothingPublished /\ UNCHANGED stamp
     ELSE IF ~StateIsFresh
     THEN OnOdometryWithoutState /\ NothingPublished /\ UNCHANGED stamp
     ELSE IF odom_age > ReceiptTimeout
     THEN LoseLiveness /\ NothingPublished /\ UNCHANGED stamp
     ELSE IF Stalled("odometry", age, TRUE)
     THEN /\ IF age > stamp["odometry"] THEN RejectOdometry(TRUE)
             ELSE IF FreshOdometry THEN UNCHANGED odom_vars ELSE LoseLiveness
          /\ NothingPublished /\ UNCHANGED stamp
     ELSE PublishOdometry(age, pose)

-----------------------------------------------------------------------------
(* The timers and the operator *)

\* CheckExternalOdometryInterlock, on the control and the diagnostics timer.
CheckInterlock ==
  /\ ~latched /\ odom_age # NoStamp /\ ~(StateIsFresh /\ FreshOdometry)
  /\ LoseLiveness
  /\ NothingPublished
  /\ OdometryUntouched /\ UNCHANGED stamp

\* OnArmRequest, of an adapter that may move the robot.
OpenSession ==
  /\ profile.allow_motion /\ ~session
  /\ state_valid /\ has_previous /\ Eligible
  /\ session' = TRUE
  /\ NothingPublished
  /\ OdometryUntouched
  /\ UNCHANGED <<stamp, odom_age, odom_valid, latched, previous, has_previous>>

CloseSession ==
  /\ session
  /\ session' = FALSE
  /\ NothingPublished
  /\ OdometryUntouched
  /\ UNCHANGED <<stamp, odom_age, odom_valid, latched, previous, has_previous>>

\* AcknowledgeCurrent, by an explicit disarm.
AcknowledgeMarker ==
  /\ profile.allow_motion /\ marker.changed /\ seen \in Eligibles
  /\ marker' = [bound |-> seen, pending |-> FALSE, changed |-> FALSE]
  /\ candidate' = NoCandidate
  /\ NothingPublished /\ NothingObserved
  /\ UNCHANGED <<profile, stamp, primary_age, active_source, state_age, state_valid,
                 seen, odom_vars>>

RunAged(c) == [c EXCEPT !.start = Older(@, StableTime), !.last = Older(@, ReceiptTimeout + 1)]

GateTimePasses ==
  /\ stamp' = [s \in DOMAIN stamp |-> Older(stamp[s], StampAge + ReceiptTimeout + 1)]
  /\ primary_age' = Older(primary_age, ReceiptTimeout + 1)
  /\ state_age' = Older(state_age, ReceiptTimeout + 1)
  /\ odom_age' = Older(odom_age, ReceiptTimeout + 1)
  /\ candidate' = RunAged(candidate)
  /\ steady' = RunAged(steady)
  /\ NothingPublished
  /\ UNCHANGED <<profile, disturbed, active_source, state_valid, marker, seen, odom_valid, latched,
                 previous, has_previous, session>>

GateInit ==
  /\ profile \in Profiles
  /\ stamp = [s \in Source \cup {"odometry"} |-> NoStamp]
  /\ primary_age = NoStamp /\ active_source = "none"
  /\ state_age = NoStamp /\ state_valid = FALSE
  /\ marker = [bound |-> "none", pending |-> FALSE, changed |-> FALSE]
  /\ candidate = NoCandidate /\ seen = "none"
  /\ odom_age = NoStamp /\ odom_valid = FALSE /\ latched = FALSE
  /\ previous = "none" /\ has_previous = FALSE
  /\ session = FALSE
  /\ canonical = "none" /\ steady = NoCandidate /\ disturbed = FALSE

GateNext ==
  \/ \E source \in Source, age \in 0..(StampAge + 1) :
       \/ \E value \in Marker : OnSportModeState(source, age, TRUE, value)
       \/ OnSportModeState(source, age, FALSE, Zero)
       \/ OnMalformedState(source)
  \/ \E age \in 0..(StampAge + 1), pose \in Pose : OnExternalOdometry(age, pose)
  \/ OnRefusedOdometry
  \/ CheckInterlock
  \/ OpenSession
  \/ CloseSession
  \/ AcknowledgeMarker
  \/ GateTimePasses

GateSpec == GateInit /\ [][GateNext]_gate_vars

-----------------------------------------------------------------------------
(* Properties *)

\* A deployment with recovery ends a quarantine only on the marker it then binds:
\* a reviewed one that every measured state of an unbroken run has shown, for the
\* whole recovery time and in enough samples, without a gap, whatever was seen,
\* bound or quarantined in between.  And an odd marker keeps canonical odometry
\* shut until there has been such a run since.
RecoveryNeedsStableMarker ==
  [][profile.recovery
       => /\ marker.pending /\ ~marker'.pending
               => steady'.marker = marker'.bound /\ LongEnough(steady')
          /\ canonical' # "none" => ~disturbed]_gate_vars

\* What is published has a sport state behind it that was measured no longer
\* ago than its stamp and its receipt allow together: replays, late samples and
\* changes of the stream never make an old witness a new one.
OutputIsWitnessed ==
  [][canonical' # "none"
       => state_valid /\ stamp[active_source] <= StampAge + ReceiptTimeout]_gate_vars

\* packages/go2_chassis/CAPABILITY.md, motion-capable processes: a liveness loss
\* of state or odometry is latched until a restart, in a session or not.
LivenessLossIsLatched ==
  [][profile.allow_motion /\ odom_age # NoStamp /\ odom_age' = NoStamp
       => latched']_gate_vars

=============================================================================
