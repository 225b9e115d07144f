----------------------------- MODULE MC_Sessions -----------------------------
(* Sessions of processes, in one run: the controllers of the daemon that come   *)
(* and go, and the sessions that the workstation's scripts start.  They do not  *)
(* share state: a behaviour is one of them, the others keep their initial state. *)
EXTENDS MC_SportDaemon, NomotionLaunch, StagedLaunch

VARIABLE part   \* the component this behaviour runs

\* The process, less what no later step reads: the readiness that poll reported
\* once it was acted on, the reply once it was sent (AcknowledgedStopIsStopped
\* speaks of the moment before), the count of a closed connection.
LoopView ==
  LET before(label) == CASE label = "accept" -> {"accept"}
                         [] label = "hangup" -> {"accept", "hangup"}
                         [] OTHER -> {"accept", "hangup", "receive"}
  IN  <<flags, ages, commissioning_arm_spent, last_sequence, state_fresh, may_move,
        pc, peer, backlog, client, inbox, unread, stopping, retries, ghosts,
        IF pc = "reply" THEN <<last>> ELSE <<>>,
        ready.server /\ pc \in before("accept"), ready.hup /\ pc \in before("hangup"),
        ready.in /\ pc \in before("receive"),
        [s \in Session |-> IF client[s] = "closed" THEN 0 ELSE sent[s]]>>

\* The session, less the history of RecoveryIsEarned, which is not checked here.
\* The two complete sets of writers are alike, and once one is bound the count
\* is not read.
LaunchView ==
  <<service_alive, status_files, rewritten, cloud_profile, cloud_step, cloud_faulted,
    cloud_stop, cloud_gates, late_clouds, launch_own,
    IF identity.bound # "none" THEN <<>>
    ELSE <<identity.seen # "none", identity.stable>>>>

\* The mission: READY is asked of the child that is awaited, and of a session
\* that has failed nobody asks how its children ended and what they wrote.
MissionView ==
  <<mission, mission_step, owners, chassis, boot_record, nav2, permits, consumers,
    mission_status, orphans, sessions, spends,
    IF mission_step = At("closed") THEN {} ELSE held,
    mission_step.at \in {"started", "awaits"} /\ mission_step.child \in mission_ready,
    IF mission_status = "failed" THEN <<>> ELSE <<exits, results, cleanup_failed>> >>

SessionsView ==
  CASE part = "loop" -> <<part, LoopView>>
    [] part = "launch" -> <<part, LaunchView>>
    [] OTHER -> <<part, MissionView>>

Parts == {"loop", "launch", "mission"}

AllInit ==
  /\ part \in Parts
  /\ DaemonInit
  /\ LaunchInit
  /\ MissionInit
  /\ part # "launch" => cloud_profile = "motion"
  /\ part # "mission" => mission = "permits"

DaemonPart ==
  /\ part = "loop"
  /\ DaemonNext
  /\ UNCHANGED <<part, launch_vars, mission_vars>>

LaunchPart ==
  /\ part = "launch"
  /\ LaunchNext
  /\ UNCHANGED <<part, daemon_vars, mission_vars>>

MissionPart ==
  /\ part = "mission"
  /\ MissionNext
  /\ UNCHANGED <<part, daemon_vars, launch_vars>>

AllNext == DaemonPart \/ LaunchPart \/ MissionPart

all_vars == <<part, daemon_vars, launch_vars, mission_vars>>

AllSpec ==
  /\ AllInit /\ [][AllNext]_all_vars

==============================================================================
