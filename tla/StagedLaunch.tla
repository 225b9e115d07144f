----------------------------- MODULE StagedLaunch -----------------------------
(* The script that starts one reviewed navigation goal: the corrected state    *)
(* chain, Robonix with the chassis and Nav2, the motion guard and the goal     *)
(* dispatcher, one after the other and each behind its gate; the wait for the  *)
(* measured result; and the cleanup, of which the exit status tells the end.   *)
(* The permits of the chassis and of the goal are files that are spent by a    *)
(* rename.  A script that is killed leaves its children behind, and another    *)
(* session may be started beside them.                                         *)
(*                                                                             *)
(* A fault file and the end of its process are one event, and a deadline may   *)
(* pass at any round of a waiting loop.  Robonix, Docker and Nav2 are what the *)
(* script sees of them.  The contents of a permit or a receipt are a verdict.  *)
EXTENDS Naturals, Sequences

CONSTANT MaxSessions    \* bound: sessions with the same permits, one after the other

ASSUME StagedLaunchAssumption == MaxSessions \in Nat \ {0}

VARIABLES
  mission,          \* which of the script's modes this is
  mission_step,     \* where the script is
  owners,           \* the children that run
  held,             \* the children whose PID the script holds
  mission_ready,    \* the children that wrote READY
  exits,            \* how the guard and the dispatcher ended
  chassis,          \* whose adapter and daemon run: this session's, an orphan's
  boot_record,      \* rbnx-boot/state.json exists
  nav2,             \* the navigation container
  permits,          \* where the files of the two permits are
  consumers,        \* how far each session is with spending a permit
  results,          \* the files of the dispatcher and of the guard
  mission_status,   \* the script's exit status
  cleanup_failed,   \* cleanup_status
  orphans,          \* children of a killed script that still run
  sessions,         \* scripts started so far
  spends            \* history: how often a permit was spent

mission_vars ==
  <<mission, mission_step, owners, held, mission_ready, exits, chassis, boot_record, nav2,
    permits, consumers, results, mission_status, cleanup_failed, orphans, sessions, spends>>
script_vars == <<mission_step, held, mission_status, cleanup_failed>>
world_vars == <<chassis, boot_record, nav2, permits, consumers, results, spends>>
child_vars == <<owners, mission_ready, exits>>
frame_vars == <<mission, orphans, sessions>>

Missions == {"permits", "standard", "persistent"}
Chain == {"identity", "stamp", "state", "cloud"}
Pair == {"guard", "dispatch"}
Owners == Chain \cup Pair \cup {"router", "boot"}
Roles == {"chassis", "goal"}
Parties == {"own", "orphan"}

At(where) == [at |-> where, child |-> "none"]
Starts(c) == [at |-> "starts", child |-> c]
Spawned(c) == [at |-> "started", child |-> c]
Awaits(c) == [at |-> "awaits", child |-> c]
Converges(c) == [at |-> "converges", child |-> c]
Takes(what) == [at |-> "takes", child |-> what]

\* cleanup(), in its order: command production ends first.
TakeOrder == <<"dispatch", "guard", "shutdown", "boot", "record", "nav2",
               "cloud", "router", "state", "stamp", "identity", "exit">>
TakesAt(what) == mission_step = Takes(what)

MissionTypeOK ==
  /\ mission \in Missions
  /\ mission_step.at \in {"starts", "started", "awaits", "takes", "graph", "bind", "serve",
                          "gate", "pre_guard", "live_goal", "post_guard", "last_look",
                          "wait", "converges", "accept", "closed"}
  /\ owners \subseteq Owners /\ held \subseteq Owners /\ mission_ready \subseteq Chain
  /\ exits \in [Pair -> {"none", "ok", "failed"}]
  /\ chassis \subseteq Parties /\ boot_record \in BOOLEAN /\ nav2 \in {"none", "ours", "other"}
  /\ permits \in [Roles -> {"offered", "spent"}]
  /\ consumers \in [Roles \X Parties -> {"idle", "read", "spent", "rejected"}]
  /\ results \in [{"action", "measured"} -> {"none", "pass", "fail"}]
  /\ mission_status \in {"none", "ok", "failed"} /\ cleanup_failed \in BOOLEAN
  /\ orphans \subseteq {"boot", "dispatch"} /\ sessions \in 0..MaxSessions
  /\ spends \in [Roles -> 0..2]

NoConsumers == [p \in Roles \X Parties |-> "idle"]
NoResults == [action |-> "none", measured |-> "none"]
NoExits == [c \in Pair |-> "none"]

MissionInit ==
  /\ mission \in Missions /\ mission_step = At("closed")
  /\ owners = {} /\ held = {} /\ mission_ready = {} /\ exits = NoExits
  /\ chassis = {} /\ boot_record = FALSE /\ nav2 = "none"
  /\ permits = [r \in Roles |-> "offered"] /\ consumers = NoConsumers /\ results = NoResults
  /\ mission_status = "none" /\ cleanup_failed = FALSE
  /\ orphans = {} /\ sessions = 0 /\ spends = [r \in Roles |-> 0]

-----------------------------------------------------------------------------
(* The permits *)

\* validate_permit, and validate_staged_nav2_permit_bundle before the start: both
\* files are at their place, and neither was consumed.
BundleStands == \A r \in Roles : permits[r] = "offered"

\* Before the dispatch the chassis permit is read where it was consumed.
FinalBundleStands == permits["chassis"] = "spent" /\ permits["goal"] = "offered"

Consumes(r, p, state) == consumers' = [consumers EXCEPT ![<<r, p>>] = state]

\* _owned_regular_file, _read_private_json: the private file can be read.
PermitIsReadable(r) == permits[r] = "offered"

\* consume_staged_nav2_permit, consume_staged_nav2_goal_permit: the document is
\* read and validated where it is.
ReadPermit(r, p) ==
  /\ consumers[<<r, p>>] = "idle"
  /\ Consumes(r, p, IF PermitIsReadable(r) THEN "read" ELSE "rejected")
  /\ UNCHANGED <<permits, spends>>

\* The file is copied to its consumed name, and stays.
CopiesPermit(r, p) ==
  /\ consumers[<<r, p>>] = "read" /\ permits[r] = "offered"
  /\ spends' = [spends EXCEPT ![r] = @ + 1]
  /\ Consumes(r, p, "spent")
  /\ UNCHANGED permits

\* _atomic_consume: the rename.
RenamePermit(r, p) ==
  /\ consumers[<<r, p>>] = "read" /\ permits[r] = "offered"
  /\ permits' = [permits EXCEPT ![r] = "spent"]
  /\ spends' = [spends EXCEPT ![r] = @ + 1]
  /\ Consumes(r, p, "spent")

\* _atomic_consume: the consumed name exists, or the file has gone.
MissesPermit(r, p) ==
  /\ consumers[<<r, p>>] = "read" /\ permits[r] # "offered"
  /\ Consumes(r, p, "rejected")
  /\ UNCHANGED <<permits, spends>>

-----------------------------------------------------------------------------
(* The script *)

EndMission(status) == mission_step' = Takes("dispatch") /\ mission_status' = status
GoOn(step) == mission_step' = step /\ UNCHANGED mission_status

ScriptOnly == UNCHANGED <<child_vars, world_vars, frame_vars, cleanup_failed>>

\* The kernel holds the lease for the script's life, and the children close it.
LeaseIsFree == mission_step = At("closed")

\* The lease is free, no adapter is in the graph, stale containers of this
\* launcher are stopped, and the bundle is validated.
StartMission ==
  /\ LeaseIsFree
  /\ sessions < (IF mission = "permits" THEN MaxSessions ELSE 1)
  /\ chassis = {} /\ nav2 # "other"
  /\ mission = "permits" => BundleStands
  /\ sessions' = sessions + 1
  /\ mission_step' = Starts("identity") /\ mission_status' = "none"
  /\ owners' = {} /\ held' = {} /\ mission_ready' = {} /\ exits' = NoExits
  /\ boot_record' = FALSE /\ nav2' = "none" /\ results' = NoResults /\ cleanup_failed' = FALSE
  /\ consumers' = [x \in Roles \X Parties |-> IF x[2] = "own" THEN "idle" ELSE consumers[x]]
  /\ UNCHANGED <<mission, chassis, permits, orphans, spends>>

\* Another script of this kind is started meanwhile: it stops what it takes for
\* a stale container before it asks for the lease.
SweepContainer ==
  /\ ~LeaseIsFree /\ chassis = {} /\ nav2 = "ours"
  /\ nav2' = "none"
  /\ UNCHANGED <<script_vars, child_vars, frame_vars, chassis, boot_record, permits,
                 consumers, results, spends>>

\* ( ... ) &
SpawnOwner ==
  /\ mission_step.at = "starts"
  /\ LET c == mission_step.child
     IN  IF c = "state" /\ chassis # {}
         THEN EndMission("failed") /\ UNCHANGED owners          \* require_no_chassis_adapter
         ELSE owners' = owners \cup {c} /\ GoOn(Spawned(c))
  /\ UNCHANGED <<held, mission_ready, exits, world_vars, frame_vars, cleanup_failed>>

AfterStart(c) ==
  CASE c \in Chain \cup {"router"} -> Awaits(c)
    [] c = "boot" -> At("graph")
    [] c = "guard" -> At("post_guard")
    [] OTHER -> At("wait")

\* X_PID=$!
HoldOwner ==
  /\ mission_step.at = "started"
  /\ held' = held \cup {mission_step.child}
  /\ GoOn(AfterStart(mission_step.child))
  /\ UNCHANGED <<child_vars, world_vars, frame_vars, cleanup_failed>>

NextOwner(c) ==
  CASE c = "identity" -> "stamp" [] c = "stamp" -> "state" [] c = "state" -> "cloud"
    [] c = "cloud" /\ mission = "persistent" -> "router"
    [] OTHER -> "boot"

\* verify_current_nav2_container, by the identity it was bound with.
NavIsOurs == nav2 = "ours"

\* require_state_chain_alive
ChainSound == held \cap Chain \subseteq owners

\* wait_private_ready; the router is asked for its health.
AwaitReady ==
  /\ mission_step.at = "awaits"
  /\ LET c == mission_step.child
     IN  \/ EndMission("failed")
         \/ /\ ChainSound /\ c \in owners /\ (c \in Chain => c \in mission_ready)
            /\ GoOn(Starts(NextOwner(c)))
  /\ UNCHANGED held /\ ScriptOnly

\* The nodes of the chassis and of Nav2 are in the graph.
AwaitGraph ==
  /\ mission_step = At("graph")
  /\ \/ EndMission("failed")
     \/ ChainSound /\ "boot" \in owners /\ chassis # {} /\ nav2 # "none" /\ GoOn(At("bind"))
  /\ UNCHANGED held /\ ScriptOnly

\* The container by its identity: verify_current_nav2_container.
BindContainer ==
  /\ mission_step = At("bind")
  /\ \/ EndMission("failed")
     \/ /\ ChainSound /\ "boot" \in owners /\ NavIsOurs
        /\ GoOn(CASE mission = "persistent" -> At("serve")
                  [] mission = "permits" -> At("gate")
                  [] OTHER -> At("pre_guard"))
  /\ UNCHANGED held /\ ScriptOnly

\* wait -n of the persistent stack: its end is the status of the owner that ended.
Serve ==
  /\ mission_step = At("serve")
  /\ held \ owners # {}
  /\ \E status \in {"ok", "failed"} : EndMission(status)
  /\ UNCHANGED held /\ ScriptOnly

\* The chassis has consumed exactly its permit, and nobody the goal's.
PermitGate ==
  /\ mission_step = At("gate")
  /\ \/ EndMission("failed")
     \/ FinalBundleStands /\ GoOn(At("pre_guard"))
  /\ UNCHANGED held /\ ScriptOnly

\* The readiness receipt before the guard: status 3 is another attempt.
PreGuardReceipt ==
  /\ mission_step = At("pre_guard")
  /\ \/ EndMission("failed")
     \/ ChainSound /\ "boot" \in owners /\ NavIsOurs /\ GoOn(At("live_goal"))
  /\ UNCHANGED held /\ ScriptOnly

\* validate_short_goal_evidence on a plan: it is that of the permit, and it leads
\* from where the robot is, short and forward, to the goal.
GoalVerdicts == {"accepted", "rejected"}
GeometryVerdicts == {"fits", "astray"}

LiveGoal ==
  /\ mission_step = At("live_goal")
  /\ \E verdict \in GoalVerdicts, geometry \in GeometryVerdicts :
       IF verdict = "accepted" /\ geometry = "fits"
       THEN GoOn(Starts("guard")) ELSE EndMission("failed")
  /\ UNCHANGED held /\ ScriptOnly

PostGuardReceipt ==
  /\ mission_step = At("post_guard")
  /\ \/ EndMission("failed")
     \/ ChainSound /\ {"boot", "guard"} \subseteq owners /\ GoOn(At("last_look"))
  /\ UNCHANGED held /\ ScriptOnly

\* Everything once more, immediately before the dispatcher.
LastLook ==
  /\ mission_step = At("last_look")
  /\ \/ EndMission("failed")
     \/ /\ mission = "permits" => FinalBundleStands
        /\ ChainSound /\ {"boot", "guard"} \subseteq owners /\ NavIsOurs
        /\ GoOn(Starts("dispatch"))
  /\ UNCHANGED held /\ ScriptOnly

Paired(c) == IF c = "guard" THEN "dispatch" ELSE "guard"

\* wait -n: only the guard or the dispatcher may end, and with success.
WaitFirst ==
  /\ mission_step = At("wait")
  /\ \E c \in held \ owners :
       IF c \in Pair /\ exits[c] = "ok" THEN GoOn(Converges(Paired(c))) ELSE EndMission("failed")
  /\ UNCHANGED held /\ ScriptOnly

\* The other one within five seconds.
Converge ==
  /\ mission_step.at = "converges"
  /\ LET c == mission_step.child
     IN  IF c \notin owners /\ exits[c] = "ok"
         THEN held' = held \ Pair /\ GoOn(At("accept"))
         ELSE EndMission("failed") /\ UNCHANGED held
  /\ ScriptOnly

\* validate_measured_result: the guard's result and the action it is bound to.
MeasuredPass == results.measured = "pass" /\ results.action = "pass"

AcceptResult ==
  /\ mission_step = At("accept")
  /\ EndMission(IF (mission = "permits" => permits["goal"] = "spent") /\ MeasuredPass
           THEN "ok" ELSE "failed")
  /\ UNCHANGED held /\ ScriptOnly

\* HUP, INT or TERM: the trap leaves with the signal's status.
SignalMission ==
  /\ mission_step.at \notin {"takes", "closed"}
  /\ EndMission("failed") /\ UNCHANGED held /\ ScriptOnly

\* SIGKILL: the lease is free again, the children stay.
KillMission ==
  /\ mission_step # At("closed")
  /\ mission_step' = At("closed") /\ mission_status' = "failed"
  /\ orphans' = orphans \cup (owners \cap {"boot", "dispatch"})
  /\ owners' = {} /\ held' = {}
  /\ chassis' = IF chassis = {} THEN {} ELSE {"orphan"}
  /\ consumers' = [x \in Roles \X Parties |->
                     IF x[2] = "own" THEN "idle"
                     ELSE IF consumers[<<x[1], "own">>] = "idle" THEN consumers[x]
                     ELSE consumers[<<x[1], "own">>]]
  /\ UNCHANGED <<mission, mission_ready, exits, boot_record, nav2, permits, results,
                 cleanup_failed, sessions, spends>>

-----------------------------------------------------------------------------
(* cleanup *)

TakeIndex(what) == CHOOSE n \in 1..Len(TakeOrder) : TakeOrder[n] = what
TakeNext == mission_step' = Takes(TakeOrder[TakeIndex(mission_step.child) + 1])
Blames(failed) == cleanup_failed' = (cleanup_failed \/ failed)

\* terminate_child and wait: TERM, and KILL after five seconds.
TakeOwner(c) ==
  /\ TakesAt(c) /\ c \notin {"guard", "boot"}
  /\ owners' = owners \ (held \cap {c})
  /\ exits' = IF c \in Pair \cap held \cap owners THEN [exits EXCEPT ![c] = "failed"] ELSE exits
  /\ TakeNext
  /\ UNCHANGED <<held, mission_ready, world_vars, frame_vars, mission_status, cleanup_failed>>

\* The guard's status counts.  It may end its own way before the deadline.
TakeGuard ==
  /\ TakesAt("guard")
  /\ owners' = owners \ (held \cap {"guard"})
  /\ exits' = IF "guard" \in held \cap owners THEN [exits EXCEPT !["guard"] = "failed"] ELSE exits
  /\ Blames("guard" \in held /\ exits'["guard"] # "ok")
  /\ TakeNext
  /\ UNCHANGED <<held, mission_ready, world_vars, frame_vars, mission_status>>

\* shutdown_rbnx_boot_state.py: the recorded components of exactly this boot.
TakeRecorded ==
  /\ TakesAt("shutdown") /\ TakeNext
  /\ \/ /\ ~("boot" \in held /\ boot_record)
        /\ UNCHANGED <<chassis, boot_record, cleanup_failed>>
     \/ /\ "boot" \in held /\ boot_record
        /\ chassis' = chassis \ {"own"} /\ boot_record' = FALSE /\ UNCHANGED cleanup_failed
     \/ /\ "boot" \in held /\ boot_record
        /\ Blames(TRUE) /\ UNCHANGED <<chassis, boot_record>>
  /\ UNCHANGED <<child_vars, frame_vars, held, nav2, permits, consumers, results, spends,
                 mission_status>>

\* terminate_boot_child: the stack takes itself down, or it is killed.
TakeBoot ==
  /\ TakesAt("boot") /\ TakeNext
  /\ owners' = owners \ (held \cap {"boot"})
  /\ \/ "boot" \notin held \cap owners /\ UNCHANGED <<chassis, boot_record, cleanup_failed>>
     \/ /\ "boot" \in held \cap owners
        /\ chassis' = chassis \ {"own"} /\ boot_record' = FALSE /\ UNCHANGED cleanup_failed
     \/ "boot" \in held \cap owners /\ Blames(TRUE) /\ UNCHANGED <<chassis, boot_record>>
  /\ UNCHANGED <<mission_ready, exits, frame_vars, held, nav2, permits, consumers, results,
                 spends, mission_status>>

TakeRecord ==
  /\ TakesAt("record") /\ TakeNext /\ Blames(boot_record)
  /\ UNCHANGED <<child_vars, world_vars, frame_vars, held, mission_status>>

\* cleanup_current_nav2_container
TakeContainer ==
  /\ TakesAt("nav2") /\ TakeNext
  /\ \/ nav2 # "other" /\ nav2' = "none" /\ UNCHANGED cleanup_failed
     \/ nav2 # "none" /\ Blames(TRUE) /\ UNCHANGED nav2
  /\ UNCHANGED <<child_vars, frame_vars, held, chassis, boot_record, permits, consumers,
                 results, spends, mission_status>>

\* What the take-down left behind is not told.
IgnoresCleanup == mission_status

\* (( status == 0 && cleanup_status != 0 )) && status=9
FinalStatus == IF mission_status = "ok" /\ cleanup_failed THEN "failed" ELSE mission_status

ExitMission ==
  /\ TakesAt("exit")
  /\ mission_step' = At("closed") /\ mission_status' = FinalStatus
  /\ UNCHANGED <<child_vars, world_vars, frame_vars, held, cleanup_failed>>

-----------------------------------------------------------------------------
(* The children *)

Script == UNCHANGED script_vars

\* A relay of the chain is READY.
ChainReady(c) ==
  /\ mission_step.at # "takes"
  /\ c \in Chain \cap owners /\ mission_ready' = mission_ready \cup {c}
  /\ Script /\ UNCHANGED <<owners, exits, world_vars, frame_vars>>

\* A relay or the router faults, or its process ends.  In the cleanup its end is
\* that of TakeOwner: nobody looks before.  Bound: one of them has ended when the
\* script looks.
OwnerEnds(c) ==
  /\ mission_step.at # "takes"
  /\ mission_step = At("closed") \/ held \ {"boot", "guard", "dispatch"} \subseteq owners
  /\ c \in (Chain \cup {"router"}) \cap owners /\ owners' = owners \ {c}
  /\ Script /\ UNCHANGED <<mission_ready, exits, world_vars, frame_vars>>

\* rbnx boot writes down what it is about to start.
BootRecords ==
  /\ "boot" \in owners /\ ~boot_record /\ boot_record' = TRUE
  /\ Script
  /\ UNCHANGED <<child_vars, frame_vars, chassis, nav2, permits, consumers, results, spends>>

BootOf(p) == IF p = "own" THEN "boot" \in owners /\ boot_record ELSE "boot" \in orphans

\* initialize: a permit is consumed before the daemon and the adapter are spawned.
SpendChassis(p) ==
  /\ BootOf(p) /\ mission = "permits"
  /\ \/ ReadPermit("chassis", p) /\ UNCHANGED chassis
     \/ RenamePermit("chassis", p) /\ chassis' = chassis \cup {p}
     \/ MissesPermit("chassis", p) /\ UNCHANGED chassis
  /\ Script /\ UNCHANGED <<child_vars, frame_vars, boot_record, nav2, results>>

\* initialize with the runtime acknowledgement.
SpawnChassis ==
  /\ BootOf("own") /\ mission # "permits" /\ chassis' = chassis \cup {"own"}
  /\ Script
  /\ UNCHANGED <<child_vars, frame_vars, boot_record, nav2, permits, consumers, results, spends>>

\* The start is deferred or refused, or the processes end: _stop_processes.
ChassisStops(p) ==
  /\ p \in chassis /\ chassis' = chassis \ {p}
  /\ Script
  /\ UNCHANGED <<child_vars, frame_vars, boot_record, nav2, permits, consumers, results, spends>>

\* Nav2 comes up, goes, or is replaced by another container of its name.
ContainerChanges ==
  /\ \/ nav2 = "none" /\ BootOf("own") /\ nav2' = "ours"
     \/ nav2 = "ours" /\ nav2' \in {"none", "other"}
  /\ mission_step # At("closed") /\ Script
  /\ UNCHANGED <<child_vars, frame_vars, chassis, boot_record, permits, consumers, results, spends>>

\* rbnx boot ends: its components stay, or it has taken them down.
BootEnds ==
  /\ "boot" \in owners /\ owners' = owners \ {"boot"}
  /\ \/ UNCHANGED <<chassis, boot_record>>
     \/ chassis' = chassis \ {"own"} /\ boot_record' = FALSE
  /\ Script /\ UNCHANGED <<mission_ready, exits, frame_vars, nav2, permits, consumers, results, spends>>

\* The guard's end: success only with a measured result, which the guard
\* validates with the dispatcher's file before it writes it.
GuardEnds ==
  /\ "guard" \in owners /\ owners' = owners \ {"guard"}
  /\ \E ok \in BOOLEAN, file \in {"none", "pass", "fail"} :
       /\ ok => file = "pass"
       /\ file = "pass" => results.action = "pass"
       /\ results' = [results EXCEPT !.measured = file]
       /\ exits' = [exits EXCEPT !["guard"] = IF ok THEN "ok" ELSE "failed"]
  /\ Script /\ UNCHANGED <<mission_ready, frame_vars, chassis, boot_record, nav2, permits, consumers, spends>>

DispatcherOf(p) == IF p = "own" THEN "dispatch" \in owners ELSE "dispatch" \in orphans

\* The dispatcher takes its goal: from the permit, or from the environment.
TakeGoal(p) ==
  /\ DispatcherOf(p)
  /\ \/ mission = "permits" /\ (ReadPermit("goal", p) \/ RenamePermit("goal", p) \/ MissesPermit("goal", p))
     \/ /\ mission # "permits" /\ consumers[<<"goal", p>>] = "idle"
        /\ Consumes("goal", p, "spent") /\ UNCHANGED <<permits, spends>>
  /\ Script /\ UNCHANGED <<child_vars, frame_vars, chassis, boot_record, nav2, results>>

\* The dispatcher writes what became of the goal, and ends with its status.
DispatchEnds ==
  /\ "dispatch" \in owners /\ owners' = owners \ {"dispatch"}
  /\ \E ok \in BOOLEAN, file \in {"none", "pass", "fail"} :
       /\ results.action # "none" => file = results.action
       /\ file # "none" => consumers[<<"goal", "own">>] = "spent"
       /\ ok => file = "pass"
       /\ results' = [results EXCEPT !.action = file]
       /\ exits' = [exits EXCEPT !["dispatch"] = IF ok THEN "ok" ELSE "failed"]
  /\ Script /\ UNCHANGED <<mission_ready, frame_vars, chassis, boot_record, nav2, permits, consumers, spends>>

\* The dispatcher's file is there before its process has ended.
ActionShows ==
  /\ "dispatch" \in owners /\ consumers[<<"goal", "own">>] = "spent" /\ results.action = "none"
  /\ results' = [results EXCEPT !.action = "pass"]
  /\ Script /\ UNCHANGED <<child_vars, frame_vars, chassis, boot_record, nav2, permits, consumers, spends>>

OrphanEnds(c) ==
  /\ c \in orphans /\ orphans' = orphans \ {c}
  /\ Script /\ UNCHANGED <<child_vars, world_vars, mission, sessions>>

MissionOver ==
  mission_step = At("closed") /\ owners = {} /\ orphans = {} /\ UNCHANGED mission_vars

MissionNext ==
  \/ StartMission \/ SweepContainer \/ SpawnOwner \/ HoldOwner \/ AwaitReady \/ AwaitGraph
  \/ BindContainer \/ Serve \/ PermitGate \/ PreGuardReceipt \/ LiveGoal \/ PostGuardReceipt
  \/ LastLook \/ WaitFirst \/ Converge \/ AcceptResult \/ SignalMission \/ KillMission
  \/ TakeGuard \/ TakeRecorded \/ TakeBoot \/ TakeRecord \/ TakeContainer \/ ExitMission
  \/ BootRecords \/ SpawnChassis \/ ContainerChanges \/ BootEnds \/ GuardEnds
  \/ DispatchEnds \/ ActionShows \/ MissionOver
  \/ \E c \in Owners : TakeOwner(c) \/ ChainReady(c) \/ OwnerEnds(c) \/ OrphanEnds(c)
  \/ \E p \in Parties : SpendChassis(p) \/ ChassisStops(p) \/ TakeGoal(p)

MissionSpec == MissionInit /\ [][MissionNext]_mission_vars

-----------------------------------------------------------------------------
(* Properties *)

\* A permit is spent once, whatever sessions were killed and started again, and a
\* goal is only sent after the chassis was authorised: the two files of a pair
\* are renamed by processes that do not know of each other.
OneGoalPerPermit ==
  /\ \A r \in Roles : spends[r] <= 1
  /\ spends["goal"] = 1 => spends["chassis"] = 1

\* Status 0 of a goal's session: the guard and the dispatcher both ended well,
\* the result was measured, and nothing of the session is left, not the chassis,
\* not the container and no child, whatever failed while it was taken down.
SuccessIsWhole ==
  mission_step = At("closed") /\ mission_status = "ok" /\ mission # "persistent" =>
    /\ \A c \in Pair : exits[c] = "ok"
    /\ MeasuredPass
    /\ owners = {} /\ "own" \notin chassis /\ nav2 = "none"
    /\ mission = "permits" => \A r \in Roles : permits[r] = "spent"

=============================================================================
