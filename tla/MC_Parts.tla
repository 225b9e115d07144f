------------------------------- MODULE MC_Parts -------------------------------
(* The components of which the safety is checked, in one run: they do not share *)
(* state, a behaviour is one of them, and the others keep their initial state.  *)
EXTENDS MC_OdometryGate, SportActions, TargetEstimator, TrackLifecycle,
        MotionRelay, CameraBridge, SemanticNavigation

VARIABLE part   \* the component this behaviour runs

\* Plans of SportActions: a gesture, and a walk in a handstand with its step
\* back to the ground.
MCPlans ==
  [hello |-> <<[op |-> "Action", posture |-> "same"]>>,
   handstand_walk |-> <<[op |-> "Action", posture |-> "handstand"],
                        [op |-> "Move", posture |-> "same"],
                        [op |-> "Stop", posture |-> "same"],
                        [op |-> "Action", posture |-> "up"]>>]

\* The map's part, less what no later step and no property of this run reads:
\* attempted, the admission of a call that has no live run, and the flags of a
\* run that is over and that nobody is canceling.
MapView ==
  <<lifecycle, map, lock, nav, workers, goal,
    [r \in Run |-> IF Busy(r) \/ nav[r] \in {"admitted", "validated"}
                   THEN <<admission[r]>> ELSE <<>>],
    [r \in Run |-> IF Over(r) /\ canceller[r] = "off" /\ caller[r] = "off"
                   THEN <<>> ELSE <<run[r]>>]>>

\* The gate: poses are alike, canonical is new in every step, seen is read once
\* the marker has changed, odometry no more once it is latched, and the history of
\* the marker while it is quarantined.
GateView ==
  <<profile, marker, session, latched, stamp, primary_age, active_source, state_age,
    state_valid, candidate, profile.recovery /\ disturbed,
    IF profile.allow_motion /\ marker.changed THEN <<seen>> ELSE <<>>,
    IF latched THEN <<>> ELSE <<odom_age, odom_valid, has_previous>>,
    IF marker.pending THEN <<steady>> ELSE <<>> >>

\* The relay: its two writers are alike, the turn of relayed is not read, and a
\* worker that has faulted or ended publishes no more.
RelayView ==
  LET lead == IF graph.gid # NoWriter THEN {graph.gid} ELSE {}
      like(writers) == <<writers \cap lead # {}, Cardinality(writers \ lead)>>
  IN  <<supervisor_vars, events, relay, approved,
        IF relay \in {"faulted", "ended"} THEN <<>>
        ELSE <<heartbeat_pipe, started, heartbeat, graph_verified, graph.polls,
               graph.gid = NoWriter, message_gid = NoWriter, like({message_gid}),
               stable_samples, received, valid_samples, ready_emitted, like(relayed.by),
               like(endpoints), approved_age, endpoint_age>> >>

PartsView ==
  CASE part = "map" -> <<part, MapView>>
    [] part = "gate" -> <<part, GateView>>
    [] part = "relay" -> <<part, RelayView>>
    [] OTHER -> <<part, sport_vars, estimator_vars, lifecycle_vars, bridge_vars>>

Parts == {"gate", "sport", "target", "lifecycle", "relay", "camera", "map"}

Init ==
  /\ part \in Parts
  /\ GateInit
  /\ SportInit
  /\ EstimatorInit
  /\ LifecycleInit
  /\ RelayInit
  /\ BridgeInit
  /\ NavInit
  /\ part # "gate" => profile = Deployment(TRUE, FALSE, FALSE)
  /\ part # "relay" => endpoints = {}

GatePart ==
  /\ part = "gate"
  /\ GateNext
  /\ UNCHANGED <<part, sport_vars, estimator_vars, lifecycle_vars, relay_vars,
                 bridge_vars, nav_vars>>

SportPart ==
  /\ part = "sport"
  /\ SportNext
  /\ UNCHANGED <<part, gate_vars, estimator_vars, lifecycle_vars, relay_vars, bridge_vars,
                 nav_vars>>

EstimatorPart ==
  /\ part = "target"
  /\ EstimatorNext
  /\ UNCHANGED <<part, gate_vars, sport_vars, lifecycle_vars, relay_vars, bridge_vars,
                 nav_vars>>

LifecyclePart ==
  /\ part = "lifecycle"
  /\ LifecycleNext
  /\ UNCHANGED <<part, gate_vars, sport_vars, estimator_vars, relay_vars, bridge_vars,
                 nav_vars>>

RelayPart ==
  /\ part = "relay"
  /\ RelayNext
  /\ UNCHANGED <<part, gate_vars, sport_vars, estimator_vars, lifecycle_vars, bridge_vars,
                 nav_vars>>

BridgePart ==
  /\ part = "camera"
  /\ BridgeNext
  /\ UNCHANGED <<part, gate_vars, sport_vars, estimator_vars, lifecycle_vars, relay_vars,
                 nav_vars>>

NavPart ==
  /\ part = "map"
  /\ NavNext
  /\ UNCHANGED <<part, gate_vars, sport_vars, estimator_vars, lifecycle_vars, relay_vars,
                 bridge_vars>>

Next ==
  \/ GatePart
  \/ SportPart
  \/ EstimatorPart
  \/ LifecyclePart
  \/ RelayPart
  \/ BridgePart
  \/ NavPart

all_vars == <<part, gate_vars, sport_vars, estimator_vars, lifecycle_vars, relay_vars,
              bridge_vars, nav_vars>>

Spec ==
  /\ Init /\ [][Next]_all_vars

==============================================================================
