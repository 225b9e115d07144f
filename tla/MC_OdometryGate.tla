---------------------------- MODULE MC_OdometryGate ----------------------------
(* The four deployments of OdometryGate: motion with one marker, the classic   *)
(* gait with its two, a passive adapter, and passive mapping with recovery.    *)
EXTENDS OdometryGate

Deployment(motion, transitions, recovery) ==
  [allow_motion |-> motion, transitions |-> transitions, recovery |-> recovery]

MCProfiles ==
  {Deployment(TRUE, FALSE, FALSE), Deployment(TRUE, TRUE, FALSE),
   Deployment(FALSE, FALSE, FALSE), Deployment(FALSE, TRUE, TRUE)}

=============================================================================
