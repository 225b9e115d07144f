--------------------------- MODULE TargetEstimator ---------------------------
(***************************************************************************)
(* RgbdPersonDistanceEstimator of go2_robottrack/rgbd_distance.py, one     *)
(* action per frame: which person the box is on, for how long optical flow *)
(* carries it without a detection, and when a depth that has jumped is     *)
(* believed.  The detector may see anyone or no one, and miss the person   *)
(* it has seen before; boxes of two persons that are near match each       *)
(* other.  The depths of Depth are further apart than max_distance_jump_m, *)
(* so the median over the last accepted ones is the last one.  The centre  *)
(* fallback is off, as in the configuration by default.                    *)
(***************************************************************************)
EXTENDS Integers

CONSTANTS
  Person, Nobody,
  Depth,              \* raw distances
  Confirmation,       \* detection_confirmation_frames
  Memory,             \* association_memory_frames
  TrackedFrames,      \* tracking_max_frames
  JumpConfirmation    \* jump_confirmation_frames

ASSUME EstimatorAssumption ==
  /\ Nobody \notin Person
  /\ {Confirmation, Memory, TrackedFrames, JumpConfirmation} \subseteq Nat \ {0}
  /\ 0 \notin Depth

VARIABLES
  box,            \* _previous_bbox
  candidate_box, candidate_count,     \* _pending_detection_bbox, _count
  missed,         \* _missed_detections
  flow,           \* the tracker: frames tracked, -1 while it is reset
  accepted,       \* _last_accepted_raw_m, 0 for None
  jump, jump_count,                   \* _pending_jump_m, _count
  report,         \* the estimate of the last frame, 0 for an invalid one
  blind,          \* history: frames since the detector saw the person in the box
  sightings,      \* history: <<p, n>>, the detector saw p in the frame before, and
                  \* in the n frames up to it p or, in turn, somebody matching
  votes           \* history: readings of each depth in a row since the last valid one

target_vars == <<box, candidate_box, candidate_count, missed, flow>>
estimator_vars == <<target_vars, accepted, jump, jump_count, report, blind, sightings, votes>>

Blind == TrackedFrames + 1

AtMost(n, limit) == IF n > limit THEN limit ELSE n

\* associated_with
Matches(seen, reference, near) ==
  {p \in seen : p = reference \/ near}

\* The sightings after a frame on which seen were detected.
Sighted(seen, near) ==
  {x \in seen \X (1..Confirmation) :
     \/ x[2] = 1
     \/ \E s \in sightings : /\ s[1] = x[1] \/ near
                            /\ x[2] = AtMost(s[2] + 1, Confirmation)}

-----------------------------------------------------------------------------
(* _select_target *)

\* A box is put on a detected person and the tracker is started there.
Select(p) ==
  /\ box' = p /\ candidate_box' = Nobody /\ candidate_count' = 0
  /\ missed' = 0 /\ flow' = 0

\* No detection is selected: optical flow goes on or is lost.
Continue(flows) ==
  IF flows /\ flow \in 0..(TrackedFrames - 1)
  THEN /\ flow' = flow + 1 /\ missed' = AtMost(missed + 1, Memory)
       /\ UNCHANGED box
  ELSE /\ flow' = -1 /\ missed' = AtMost(missed + 1, Memory)
       /\ box' = IF missed' >= Memory THEN Nobody ELSE box

\* No target yet: the detection has to be confirmed.
Acquire(seen, near, flows) ==
  LET found == Matches(seen, candidate_box, near)
  IN  /\ box = Nobody /\ seen # {}
      /\ IF candidate_box # Nobody /\ found # {}
         THEN \E p \in found :
                IF candidate_count + 1 >= Confirmation THEN Select(p)
                ELSE /\ candidate_box' = p /\ candidate_count' = candidate_count + 1
                     /\ Continue(flows)
         ELSE \E p \in seen :
                IF Confirmation = 1 THEN Select(p)
                ELSE /\ candidate_box' = p /\ candidate_count' = 1
                     /\ Continue(flows)

\* Mutant of Forget: an empty frame does not end the confirmation.
ForgetNothing(seen, flows) ==
  /\ box = Nobody /\ seen = {}
  /\ UNCHANGED <<candidate_box, candidate_count>>
  /\ Continue(flows)

Forget(seen, flows) ==
  /\ box = Nobody /\ seen = {}
  /\ candidate_box' = Nobody /\ candidate_count' = 0
  /\ Continue(flows)

Follow(seen, near, flows) ==
  /\ box # Nobody
  /\ IF Matches(seen, box, near) # {}
     THEN \E p \in Matches(seen, box, near) : Select(p)
     ELSE Continue(flows) /\ UNCHANGED <<candidate_box, candidate_count>>

SelectTarget(seen, near, flows) ==
  Acquire(seen, near, flows) \/ Forget(seen, flows) \/ Follow(seen, near, flows)

\* The frame has a box: one is selected, or tracked.
HasBox == flow' >= 0

-----------------------------------------------------------------------------
(* The depth in the box *)

NoReading ==
  report' = 0 /\ UNCHANGED <<accepted, jump, jump_count, votes>>

Accept(depth) ==
  /\ report' = depth /\ accepted' = depth
  /\ jump' = 0 /\ jump_count' = 0
  /\ votes' = [d \in Depth |-> 0]

Reading(depth) ==
  IF accepted \in {0, depth} THEN Accept(depth)
  ELSE LET count == IF jump = depth THEN jump_count + 1 ELSE 1
       IN  IF count >= JumpConfirmation THEN Accept(depth)
           ELSE /\ report' = 0
                /\ jump' = depth /\ jump_count' = count
                /\ votes' = [d \in Depth |-> IF d = depth THEN AtMost(votes[d] + 1, JumpConfirmation)
                                         ELSE 0]
                /\ UNCHANGED accepted

-----------------------------------------------------------------------------
(* estimate and reset *)

OnPair(seen, near, flows) ==
  /\ SelectTarget(seen, near, flows)
  /\ IF HasBox THEN NoReading \/ \E depth \in Depth : Reading(depth) ELSE NoReading
  /\ blind' = IF flow' = 0 THEN 0 ELSE AtMost(blind + 1, Blind)
  /\ sightings' = Sighted(seen, near)

\* A frame that is late, stale or of the future.
OnRefusedPair ==
  /\ report # 0
  /\ report' = 0
  /\ UNCHANGED <<target_vars, accepted, jump, jump_count, blind, sightings, votes>>

Reset ==
  /\ box' = Nobody /\ candidate_box' = Nobody /\ candidate_count' = 0
  /\ missed' = 0 /\ flow' = -1
  /\ accepted' = 0 /\ jump' = 0 /\ jump_count' = 0
  /\ report' = 0 /\ blind' = Blind /\ sightings' = {}
  /\ votes' = [d \in Depth |-> 0]

EstimatorInit ==
  /\ box = Nobody /\ candidate_box = Nobody /\ candidate_count = 0
  /\ missed = 0 /\ flow = -1
  /\ accepted = 0 /\ jump = 0 /\ jump_count = 0
  /\ report = 0 /\ blind = Blind /\ sightings = {}
  /\ votes = [d \in Depth |-> 0]

EstimatorNext ==
  \/ \E seen \in SUBSET Person, near, flows \in BOOLEAN : OnPair(seen, near, flows)
  \/ OnRefusedPair
  \/ Reset

EstimatorSpec == EstimatorInit /\ [][EstimatorNext]_estimator_vars

-----------------------------------------------------------------------------
(* Properties *)

\* "Tracking never acquires a target": a person gets into a box that was empty only
\* when the detector has seen that person, or one who matched in turn, in each of the
\* last Confirmation frames; a distance is reported at most TrackedFrames frames
\* after the detector saw the person in the box; and one that is further than a jump
\* from the last one was read JumpConfirmation times in a row.
DistanceIsEarned ==
  [][report' # 0
       => /\ blind' <= TrackedFrames
          /\ box = Nobody => <<box', Confirmation>> \in sightings'
          /\ accepted \notin {0, report'} => votes[report'] >= JumpConfirmation - 1]_estimator_vars

=============================================================================
