# A verification project for robot-unitree-go2

TLA+ models of the parts of this repository that decide whether a Go2 may move,
on which clock and which evidence, and what is left behind when a session ends;
TLC configurations that check them on small instances; and TLAPS proofs of what
the central ones promise for every configuration.

1. [The system](#1-the-system)
2. [What is modelled, and how it maps to the code](#2-what-is-modelled-and-how-it-maps-to-the-code)
3. [The runs](#3-the-runs)
4. [The proofs](#4-the-proofs)
5. [Disagreements between the documents and the code](#5-disagreements-between-the-documents-and-the-code)
6. [What is not modelled](#6-what-is-not-modelled)
7. [Observations](#7-observations)
8. [What could come next](#8-what-could-come-next)

`PROJECT.json` holds the same in a form for tools: components, runs, the lines
of code each definition stands for, a mutant of the code for every property,
the hazards of the code with the properties that watch them, and the theorems.

To run something, in this directory: `tlc -config Commissioning.cfg
MC_Commissioning.tla`, `tlapm DaemonCoreProofs.tla`.

## 1. The system

Everything that can make the robot move goes down one chain of processes.

    landmark name --> semantic navigation --> navigation service (external)
                                                     |
    RobotTrack --------------------------------> source mux
                                                     |  velocity commands
    staged goal --> dispatcher --> motion guard ---->|
                                                     v
                     ROS chassis adapter: SafetyGuard, control timer (50 Hz)
                                                     |  SOCK_SEQPACKET: one
    sport actions --> action runtime ----------------+  command, one reply
                                                     v
                     sport daemon: event loop around DaemonCore
                                                     |  SportClient over DDS
                                                     v
                     Go2 firmware (external)

Beside the chain run what gives it evidence (the stamp discipline, the relay of
the motion state, the corrected cloud, the camera), what starts and ends it
(the launchers of the staged and of the no-motion session, with permits and
network switches), and what an operator talks to (dashboard, voice,
hands-free).

| part | its state | operations and interactions | hard behaviours | correct when | module |
|---|---|---|---|---|---|
| `DaemonCore` | arm, fault latch, moving, action flag, unconfirmed stop, spent arm, replay window, two stamps | `Handle` with seven commands, `CheckWatchdog`, `OnDisconnect`; calls the SDK | every SDK call may fail; faults, retries, disarms, re-arms in any order | no motion without an arm or the latch; an unconfirmed stop is retried | `DaemonCore` |
| sport daemon process | one peer, poll result, signal flag | accept, hang-up, receive, reply, watchdog, clean-up | controllers connect, time out, die and signal between any two steps | one owner of arm and motion; a dead controller is a stopped robot | `SportDaemon`, implements `MotionSupervisor` |
| `SafetyGuard` | guard state, input ages, output | callbacks, arm, disarm, control tick | streams that dry up, faults in mid-ramp | nothing moves on stale input | `SafetyGuard` |
| marker policy, odometry interlock | accepted markers, liveness, latch | state and odometry callbacks, ticks | a marker that changes and changes back, replays, gaps | output resumes on evidence only | `OdometryGate` |
| chassis adapter node | guard, IPC client, what it believes of the daemon | control timer, arm service, IPC fault, disarm | one thread that blocks in exchanges while its inputs age | no arm is left behind; no stale Move | `ChassisAdapter` |
| sport action runtime | one action, requests by id, socket | start, status, cancel, worker, clean-up | cancel against end, late replies, parts of a stop that fail | a clean end is a robot at rest | `SportActions` |
| semantic navigation | run registry, life cycle guard, threads | navigate, status, cancel, activate, deactivate, map callbacks | six kinds of thread, lost answers, maps that change back | one goal at a time, on its map | `SemanticNavigation` |
| staged motion guard, dispatcher | phase, goal claim, measurement | claim, observe, arm, goal, stop | events of Nav2, adapter and dispatcher in any order | PASS is earned; the disarm is final | `StagedGuard` |
| staged launcher, permits | step, children, permit files | start behind gates, wait, cleanup | killed scripts, orphans, a second session | a permit is spent once; status 0 is a whole success | `StagedLaunch` |
| first-motion probe | acquisition, arm, drive, watch | one supervised motion | late diagnostics, timed-out arm, interrupt | PASS is a motion that happened and is over | `FirstMotionProbe` |
| stamp discipline | baseline, frozen model, lock, liveness | samples, timer | silence, regressions, recovery | no output over a silent stream | `StampDiscipline` |
| motion state relay | identity, heartbeats, events | supervisor and worker with a pipe | stalls, buffered heartbeats, publishers that change | what is relayed is attested | `MotionRelay` |
| cloud relay, no-motion launcher | contract, children, registration | start, supervise, clean up | children that die, signals between fork and record | nothing is published over a broken contract; nothing is left | `CloudRelay`, `NomotionLaunch` |
| network switches | NetworkManager's state, rollback | switch, validate, roll back | requests that time out and complete late, signals | what says "restored" is restored | `WifiRollback`, `RouterAudit` |
| RobotTrack | pairer, worker with epochs, estimator, runtime threads | capture, measure, dispatch, activate | results of before a reset, dying threads | forward is witnessed | `RobotTrack`, `TargetEstimator`, `TrackLifecycle` |
| camera bridge | mailbox, watermark, connection | receive, decode, publish | slow decoder, reconnection | what is published is current | `CameraBridge` |
| intent endpoint | none between requests: the conversation, reduced to the run it left open | decide: start, poll, cancel, hold, done | results lost, late or incomplete, an operator who says something else | a run once known is seen through | `IntentRouter` |
| dashboard | one health entry per topic, picture, page; seed files, echo window, restore queue | observe, snapshot, refresh, load; save, restore, reset | restarts, pictures between two requests, saves that fail half-way | the picture is that of its metadata; no seed is lost | `DashboardFeed`, `InitialPose` |
| D435i stream | producer, byte stream, publisher | capture, encode, write; read, check, publish | damaged, lost, repeated and cut packets | a published set is one captured set | `D435iStream` |
| staged readiness | samples with their ages, graph, receipt | listen, read the graph, judge, validate | samples that wait, witnesses that are stamped anew | an accepted receipt is recent | `StagedReadiness` |
| voice entry, hands-free test | session, queue; polls and events | record, stream, cancel; observe | replies that are older than events | a verdict is true of what was received | `VoiceSession`, `HandsfreeObserver` |

The interactions that matter. The adapter and the action runtime are both
clients of the daemon's socket and only one is served at a time; a client waits
for a reply for a bounded time and then closes, after which the daemon may
still execute what it sent. Semantic navigation reaches the robot only through
the navigation service, whose answers it may lose. The launchers know their
children by PID, by status files and by exit codes, each of which may be late.

Every hazard of the code with its line is in `PROJECT.json`, with the properties
that are about it.

## 2. What is modelled, and how it maps to the code

Conventions of all modules. Variables carry the code's names where there is one
variable for one field. An action is a handler, or the part of a thread that
runs under one lock or up to its next blocking call. *History* variables, which
the code does not have, hold the truth a property is about, and no action reads
them to decide what the code does. A *verdict* is a Boolean, or a small set,
chosen by the environment where the code computes something from numbers or
documents: the model keeps what is done with the answer, not how it is
computed. A deadline that is not compared with an age is an alternative that
may always be taken.

**Ages.** A stamp is kept as its age: `NoStamp` (the code's value before the
first one) or the time since, saturating one tick beyond the limit it is
compared with (at the limit where the comparison is `>=`).

### The chain of motion

**DaemonCore** (`daemon_core.hpp`, `protocol.hpp`). One action per command of
`Handle`, `CheckWatchdog`, `OnDisconnect`: packet validation, replay check, the
packet's stamp, the SDK calls in order, the fault path and the reply. Each SDK
call succeeds or fails on its own. `may_move` is history: a motion call was put
on the wire and no `StopMove` confirmed since. A call that reports an error may
have been executed. Velocities are `zero`, `inside` and `outside` the profile's
envelope, and `nan`.

**SportDaemon** (`main.cpp`). `pc` walks through one iteration of `Run`:
`poll`, `accept`, `hangup`, `receive`, `reply`, `watchdog`, and after a signal
or an exception `cleanup`, `drain` (the bounded retries of an unconfirmed stop)
and `exited`. `ready` keeps the result of `poll`, so that what a later step
finds may be newer. Between any two steps controllers connect, send, read, time
out, close or die, a signal arrives, and time passes. `armed_by` and `mover`
are history.

**MotionSupervisor** is the abstract promise of the daemon to its controllers:
an owner, a driver, a latch; only the owner drives, only a confirmed stop
releases. `SportDaemon` is shown to implement it by model checking
(`ImplementsSupervisor`, an `INSTANCE ... WITH` over the history variables) and
by proof; `ChassisAdapter` and `SportActions` are composed with it in the
daemon's place.

**SafetyGuard** (`safety_guard.hpp`, class `SafetyGuard`). One action per
public operation; `Tick` is the disjunction of its outcomes. The three axes are
one; velocities are whole quanta; every tick has the same `dt`. `quiet_age` is
history.

**OdometryGate** (the rest of `safety_guard.hpp` and the inputs of the node).
The marker policy with its candidate and stability window, the stamp
validators, receipt liveness, the interlock in and outside a session.

**ChassisAdapter** (`go2_chassis_adapter_node.cpp`). The one executor thread
around `SafetyGuard`. `task` says in which exchange it is blocked; meanwhile
inputs age, the daemon acts, also on a command of a connection the adapter has
given up (`late`).

**SportActions** (`runtime.py`, `ipc.py`, `provider.py`). `ActionManager`'s one
worker and its callers, `DaemonClient` with its numbered commands and the
replies that come after their timeout, the cancellation and each part of the
stop, against a `MotionSupervisor`.

**SemanticNavigation** (`service.py`, `run_state.py`, `map_lifecycle.py`,
`cancel_policy.py`). A step is what one thread does under the service lock or
the registry's lock, or one call to the provider.

| code | here |
|---|---|
| `LifecycleGuard`, `LifecycleAdmission` | `guard`, `ChangeGuard`, `notifying`; `admission[r]` |
| `_Run` of the registry | `run[r]`, its `remote_state` kept as `remote_terminal`, all the code decides by |
| `navigate_landmark` | `Admit`, `Validate`, `Reserve`, `NavigateFails` / `NavigateRefused` / `AttachNavigation`, `Recheck`, `ScheduleMonitor` |
| monitors and status | `MonitorAsks`, `MonitorReports`, `AskStatus`, `ReportStatus`; the answer is held between the call's return and its use |
| cancellation | `AskCancel`, `ClaimCancel`, `CallCancel`, `CancellerAsks`, `CancellerCancels`, `Conclude`, `MarkCancelResult` |
| `invalidate_nonterminal` | `InvalidateRuns`, part of the step that calls it |
| `activate`, `deactivate` | `Activate` ... `AcceptGoals`, `StopBinding` ... `StopMonitors` |

`goal[r]` is the truth at the provider. Of the provider it is assumed that it
never reports a running goal as terminal, knows no run by the empty id, and
does not use one id for two goals. An answer that knows the run and gives no
state is possible at any time (`"empty"`); `UpdateRemote` takes it for the end
of the run, as `update_remote` does, and the history `unstated` remembers it.

### Staged navigation

**StagedGuard** (`staged_nav2_motion_guard.py`,
`staged_nav2_goal_dispatch.py`). The policy `StagedNav2Guard` (phases, claim,
goal statuses, measurement), the node's main loop up to the written result, and
the dispatcher's claim. The node is single-threaded: callbacks come between the
steps of the loop. Nav2 is a list of goal statuses; the adapter is a service
and a status message.

**StagedLaunch** (the launcher in its three modes, with the consumption of the
permits by chassis and dispatcher). A step is a gate; a killed script leaves
its children, and another session may be started beside them. Permits are files
that are spent by a rename.

### Evidence

**StampDiscipline** (`navigation_stamp_discipline.py` and its node). Samples of
each stream are abstracted to how they compare with the stream's baseline and
with the frozen model; qualification, lock, receipt liveness, recovery and
faults are kept, for the motion, the no-motion and the fixed-offset profile.

**MotionRelay**: a worker that polls the graph and checks the sender of every
message, and the supervisor that holds the approval and writes heartbeats into
its pipe. A heartbeat in the pipe keeps the age of its writing. **CloudRelay**
and **NomotionLaunch**: the corrected cloud with its contract, and the script
that starts, supervises and takes down the services of the no-motion session.
**CameraBridge**: daemon, socket, reader thread, one-frame mailbox, decoder.

### Programs around a session

**FirstMotionProbe**, **WifiRollback**, **RouterAudit**, **HandsfreeObserver**,
**VoiceSession**: each is one process with its environment (the adapter's
service and late diagnostics; a NetworkManager that carries a request out,
refuses it or completes it after the client has given up; a client that is
polled and streams events; Liaison and the audio bridge). Signals come between
any two steps.

### What the operator and Pilot see and use

**IntentRouter** (`server.py` and `follow_distance.py` of
`semantic_intent_router`). The endpoint is a function of the conversation; the
variables are what that function computes first, kept up to date by one result
at a time: `told` (`_advance_active` over everything), `prior_run` (what the
turns before left open), `turn_run` and `latest`. `Ask` is one request with any
set of advertised capabilities, and `Decide` follows the order of `decide()`. A
result may carry the contract, success, acceptance, run id and state, or lack
any of them, or the feedback may hold no result at all. `truth` is the goal at
the provider. STARTING and PENDING are told as RUNNING.

**InitialPose** (`initial_pose_store.py`, with the handlers and routes that use
it). The files of a map are `artifact`, `sidecar` and `archived`; the two
threads use the store under its lock; a publication comes back on the
dashboard's own subscription (`Echo`); a save may fail after its archive copy,
whose name carries microseconds and meets no other;
the process may die between any two steps.

**DashboardFeed** (`state.py`, the handlers of `ros_bridge.py`, the routes of
`web.py`, the page). A behaviour follows one topic from its message to the
page: what `snapshot` says of its freshness, the picture stored beside its
metadata, the page that polls one and then asks for the other, a restart in
between.

**D435iStream** (`d435i_ssh_stream_bridge.py`). Producer, bytes and publisher.
A packet carries its number, the frame it was made of and the parts of it that
are `damage`d; checksums find every damage. `Disturb` damages, drops or repeats
a packet although the connection should not; `WriteIsCut` is the unbuffered
write that a signal ends.

**StagedReadiness** (`staged_nav2_readiness.py`, its validator and the two loops
of the launcher around them). A sample has two ages, since it was measured and
since it was taken; it may wait in its queue in between. `seen` is history:
when the world was last as a check demands.

### RobotTrack

**RobotTrack**: pairing, the distance worker with its epochs and its reset
after an invalidation, the measurement and the dispatch. **TargetEstimator**:
which person a box is on and when a depth that jumped is believed.
**TrackLifecycle**: the provider's activation, its threads and their
finalizers.

## 3. The runs

Seven runs must pass. Five must find a violation, see section 5.

| run | module, configuration | distinct states | what it asks |
|---|---|---|---|
| `commissioning` | `MC_Commissioning`, `Commissioning.cfg` | 495,968 | a one-shot daemon is armed once and ends every motion; clock discipline, probe, network switches, hands-free test, voice entry |
| `sessions` | `MC_Sessions`, `Sessions.cfg` | 886,920 | two controllers never share an arm, a motion or a replay window; no-motion and staged sessions end clean |
| `live_services` | `MC_LiveServices`, `LiveServices.cfg` | 410,919 | silence stops the robot; a run that lost its map is canceled |
| `services` | `MC_Services`, `Services.cfg` | 988,797 | two calls have two goals outstanding only after an answer without a state; intent endpoint, dashboard feed and seeds, D435i stream, readiness receipt |
| `adapter` | `ChassisAdapter`, `ChassisAdapter.cfg` | 558,022 | the adapter over a socket that loses, delays and refuses |
| `live_parts` | `MC_LiveParts`, `LiveParts.cfg` | 682,172 | safety guard, staged goal, RobotTrack's distance worker |
| `parts` | `MC_Parts`, `Parts.cfg` | 1,807,459 | odometry gate, sport actions, estimator, provider threads, relay, camera, map binding |
| `daemon_sdk_error`, `single_flight`, `gate_latch`, `staged_fault`, `stamp_resume` | | | the findings |

Components that share no state share a run: the initial state chooses a `part`,
that component's next-state relation is taken, and the others keep one initial
state each. So a state of the run is a state of one component, the properties
of the others hold of their initial state, and the number of states is the sum,
not the product. Where components do interact they are composed in a module of
their own: `ChassisAdapter` (guard, IPC, daemon), `SportActions` (runtime,
daemon), `StagedGuard` (dispatcher, guard, adapter, Nav2), `NomotionLaunch`
(script, cloud relay), `MotionRelay` (supervisor, worker).

Type invariants are not listed among the properties, which are kept for what
could be wrong. Those the proofs rest on are parts of the inductive invariants
of section 4.

### Bounds, and why they are enough

- **DaemonCore** (`Commissioning.cfg`). `Watchdog = 2`: a packet age within, at
  and beyond the limit. `MaxMotion = 3`: longer than the watchdog, so that a
  motion can be kept alive up to its budget. `MaxSequence = 4` commands per
  connection: arm, move, one more, disarm; connections repeat without bound.
  `MCPackets` has every well-formed command and one packet for each reason to
  reject one.
- **SportDaemon** (`Sessions.cfg`). One session served and one waiting; the
  order of more is never looked at. Two commands per connection; a closed
  session may connect again, so connections are unlimited. `Watchdog = 1`,
  `MaxLifetime = 0`: packets expire in the socket and the watchdog fires
  between two commands. `SessionsView` leaves out what no later step reads: a
  reply once it was sent, a readiness once it was acted on, how the children of
  a mission ended that has failed, the history of a theorem that this run does
  not check. The sessions are interchangeable
  (symmetry, in a run
  without liveness properties); `StreamsAreLost` freezes `state_fresh`, which
  only sport actions read, and they are not among this run's commands. Liveness
  (`LiveServices.cfg`) has one session, no symmetry and no constraint.
- **SafetyGuard** (`LiveParts.cfg`). Timeouts of one and two ticks, a preamble
  of two; velocities reverse, zero, slow and above the limit; a limit of 3 that
  is not a multiple of the step of 2.
- **ChassisAdapter.** The staged profile that preserves ClassicWalk, the one
  with the longest exchanges; a state timeout and a lifetime of one tick and a
  command that is fresh in the tick it arrived in, each of which an exchange may
  outlast.
- **OdometryGate, SportActions and the rest of `Parts.cfg`.** Four markers:
  zero, two reviewed, one not reviewed, so that there is a change to a reviewed
  marker and back; four deployments. A recovery takes two ticks and four samples
  with gaps of at most one tick, so that each of the three limits, and not only
  one of them, decides in some behaviours. Two requests with a gesture and a walk in
  a handstand, the plan with a posture to undo. Two persons, depths further
  apart than a jump, three frames to confirm either: with two a counter that is
  not reset could not tell a third from a second. Three runtimes: one that timed out, one that runs, one
  more. Two writers both of which may be exact. Two connections of the camera
  with three records. `PartsView` leaves out what no later step and no property
  reads (of a latched gate that is the odometry, outside a quarantine the
  history of its samples), and takes the two writers of the relay to be alike.
- **SemanticNavigation.** Two calls suffice for a second goal to meet the first
  (`services`: one activation, two changes of the map). `OneRequest` admits at
  most one of a status call, a cancellation an operator asked for and a held
  status answer, beside the cancel workers, which are not limited. `Undecided`
  ends a behaviour when a goal was admitted after one that ended on an empty
  state: from there on `OverlapNeedsEmptyState` cannot be broken any more.
  `NavigationView` leaves out what no step reads of a run that is over. One call
  with two activations and three changes for the map binding (`parts`), with
  one activation and three changes (ready, lost, ready again) for the liveness
  (`live_services`). `SemanticNavigation_latch.cfg` needs one change and no
  constraint.
- **StagedGuard.** The permitted goal and one of somebody else.
  **StagedLaunch:** two sessions with the same permits. **NomotionLaunch,
  CloudRelay:** two fresh samples to recover, two samples to bind an identity,
  each one more than one.
- **StampDiscipline.** Two core streams and one other, for every pair of roles;
  two required samples, a window of two.
- **IntentRouter.** Two landmarks and two runs: a switch of the target needs
  both. **InitialPose:** one map of two generations with two seeds, and a
  restore queue of one, so that it overflows. **DashboardFeed:** two processes
  with up to three frames each; drifts beyond the limit on both sides.
  **D435iStream:** five frames of which every second is sent, a pipe of two
  packets, two faults. **StagedReadiness:** one stream (the streams are treated
  alike), every limit one tick, one change of the world beside the guard's; the
  theorem has any number of each.
- **Network.** Two rollback rounds and two stable observations for the switch;
  three, four and twelve, the code's own values, for the audit.
  **HandsfreeObserver:** a window of three poll intervals, one of them after
  the click. **VoiceSession:** a queue of two and three events, so that it
  overflows. `CommissioningView` does not look again into a verdict of the
  observer that is written, nor into what a run of it sees that can no longer
  pass.

Deadlock is checked in `sessions`, `live_services`, `adapter` and three of the
findings. In the others `CHECK_DEADLOCK FALSE` stands because programs of the
run end: the probe, the switch, the audit, the observer, a staged session, a
provider that is dead, or because a bound is reached: the number of frames of a
topic and of the camera.

### Fairness

- The daemon's loop runs: `poll` returns after 20 ms at the latest, so every
  step of the loop is weakly fair; so is time.
- A `StopMove` that is retried for ever is confirmed one day (strong fairness
  on a confirming watchdog, or the adapter's retry). It is an assumption about
  firmware and radio, and only the properties that say that the robot stops
  need it.
- The guard's control timer and the adapter's executor run, and an exchange
  ends, having a deadline; the daemon finds a connection that was closed.
- In semantic navigation threads that wait for nothing go on, and a call to the
  provider returns, since every one has a deadline.
- The staged guard's main loop goes on once the session is over: every wait of
  its stop has a deadline.
- Nothing is assumed of controllers, operators, maps, Nav2, publishers,
  NetworkManager or Liaison.

### What the properties say

*Daemon.* `UnconfirmedStopIsLatched` and `AcknowledgedStopIsStopped` relate
what the daemon says to whether the robot moves. `ImplementsSupervisor` is the
whole promise over sessions. `MotionEnds` and `SilenceStopsMotion` say that
robots stop.

*Adapter.* `DaemonArmIsKnown`: no failed disarm, lost reply or restart leaves
an arm that nobody takes back. `MoveIsFresh`: a Move the daemon would still
accept was decided on inputs that were fresh when it was sent, whatever
exchange blocked in between. `FaultStopsRobot`, `SilenceStopsOutput`.

*Odometry gate.* `RecoveryNeedsStableMarker`: a quarantine ends on the marker of
an unbroken run of samples, each measured, reviewed and the same, for the whole
recovery time, in enough samples and without a gap; the run is kept beside the
code's own candidate, as a history. `OutputIsWitnessed` is over replays, late
samples and gaps.

*Actions.* `CleanEndIsSafe`: a run reported as anything but FAILED left the
daemon disarmed, the robot at rest and its own postures undone.

*Navigation.* `OverlapNeedsEmptyState` is about the provider's truth: what the
document claims (`SingleFlight`, section 5) can fail in one way only.
`LatchOpensOnEvidence`: no slow answer closes a latch again that was opened,
nor opens one of a goal that goes on. `RunsAreOnTheirMap` about maps that change and change back; `LostMapCancels`
says that invalidation reaches the provider. `RunsAreSeenThrough`: the endpoint
that decides what Pilot calls never forgets a run it was told of, whatever is
said or lost in between.

*Operator's side.* `PictureIsOfItsMetadata` (the page), `SeedsAreRecoverable`
(localization seeds), `FramesAreWhole` (the D435i's sets), `ReadinessIsRecent`
(the receipt that lets a staged session go on).

*Staged goal.* `PassIsEarned`, `DisarmIsFinal`, `CommandsServeClaimedGoal`,
`SessionEnds`; of its launcher `OneGoalPerPermit` over killed scripts and
orphans, and `SuccessIsWhole`.

*Evidence.* `ResumesOnEveryStream` (stamps), `RelayedIsAttested` (motion
state), `AtMostTheCloudInHand` and `NothingIsLeft` (no-motion session: when the
script has ended by its cleanup or the registration is gone, so is every child),
`PublicationIsCurrent` (camera).

*RobotTrack.* `ForwardIsWitnessed`: a forward command rests on a measurement of
the time after the last invalidation (that the person is further than the
target distance is `Forward`'s guard). `DistanceIsEarned`: whoever gets into an
empty box was seen, or somebody who matched in turn, in each of the last
`Confirmation` frames, and a jump was read `JumpConfirmation` times in a row.
`RuntimeIsOwned`.

*Around a session.* `MotionPassIsEarned` (probe), `RestorationIsTrue` and
`AuditLeavesNothing` (network), `AcceptanceIsTrue` (hands-free), `VoiceEndIsTrue` (voice): a verdict that is written is true of
what happened.

Every property has a mutant in the module it is about: a definition that stands
for a plausible mistake in that code (a dropped guard, a missing reset, a
swapped order) and under which TLC refutes the property in the same run.

## 4. The proofs

Eight modules, checked by TLAPS to the last leaf. What is proved holds for every
value of the constants: watchdogs, budgets and timeouts, packet sets, sessions
and backlogs, speeds, calls, streams, samples, markers, writers, persons,
rounds and queue sizes. Every safety invariant and every action property that a
passing run checks is a theorem. Some properties are only theorems and in no
run, a run having room for those that need the model checker or are at the
centre: `MotionIsKnown`, `FaultEndsOnEvidence`, `OutputIsLive`,
`NoOwnDuplicate`, `RecoveryIsEarned`, `AdjustsOnce`, `FreshIsEarned` and the smaller ones of the daemon and the guard.

| assumption | says |
|---|---|
| `ConfigAssumption`, with `Profile` | the options are ones `ParseOptions` accepts |
| `PacketsAssumption` | a packet is a packet |
| `SessionAssumption`, `AgeingAssumption` | `Nothing` is no session and no packet; a packet that ages in the socket is still one of the packet set |
| `GuardAssumption` of `SafetyGuard`, `AdapterAssumption` | timeouts and the speed limit are naturals, the acceleration is positive, commands are integers |
| `RunAssumption`, `BoundsAssumption` | `None` and the executor are no runs; the bounds are naturals |
| `SportAssumption` | the plans are sequences of steps, none empty; "none" is no request |
| `StagedAssumption`, `LifecycleAssumption` | "no goal" is no goal, "no runtime" no runtime |
| `StagedLaunchAssumption`, `LaunchAssumption`, `CloudRelayAssumption` | there is a session; at least one identity sample, at least two fresh clouds |
| `GateAssumption` of `OdometryGate` | zero and the reviewed markers are markers, "none" is not; limits are naturals, a stable run has a sample |
| `CameraAssumption`, `EstimatorAssumption`, `MotionRelayAssumption` | limits are naturals, confirmation counts positive; `Nobody` is no person, 0 no reading, `NoWriter` no writer |
| `DisciplineAssumption` | a configuration the discipline's constructor accepts, with two samples or more to resume on; "none" is no stream |
| `TicketAssumption`, `CommandAssumption` | the empty id is no run, a command word no landmark |
| `SeedAssumption`, `QueueAssumption` of `InitialPose` | `NoSeed` is no seed, file or identity; a map is mapped once at least |
| `FeedAssumption`, `StreamAssumption`, `ReadinessAssumption` | limits and bounds are naturals; there is a first process, every so many frames one is sent, the pipe holds a packet; the streams are not the three other samples |
| `RollbackAssumption`, `AuditAssumption`, `ProbeAssumption`, `ObserverAssumption`, `VoiceAssumption` | counts of rounds, observations and samples are naturals, positive where the code loops at least once |

### The chain of motion

**DaemonCoreProofs.** The inductive invariant has these parts.

- `Latch`: a robot that may be moving is armed or latched
  (`MotionIsSupervised`), an unconfirmed stop is latched and disarmed, arm and
  latch exclude each other, an action flag has an arm or the latch, and a
  daemon that may not move is neither armed nor latched. They strengthen one
  another: that a disarm with nothing to stop may answer without a call rests
  on a disarmed, unlatched daemon having no motion outstanding, and that holds
  because a failed stop latches and only a confirmed one opens the latch.
- `AgesOK`, the two stamps are ages within their caps; `LastOK`, a step reports
  a known operation and code with SDK calls; `AcknowledgedStopIsStopped`, on
  top of `Latch`.

From these: `TypeCorrect`, `MotionSupervised`, `LatchHolds`,
`FaultExcludesArm`, `ActionIsOwned`, `AcknowledgedStop`, `LatchReleaseClean`,
`OneArm`.

**SportDaemonProofs.** `SocketOK` says that what is in a socket is a packet, so
that `Receive` is a step of the core; every other step of the loop is
`CheckWatchdog`, `OnDisconnect`, `Tick`, a change of the state streams or a
stutter. That is `DaemonImplementsCore`, `DaemonSpec => Spec` with the identity
on the core's variables as the mapping, and what is proved of the core holds of
the process (`ProcessSupervisesMotion`: supervision, the latch and the
acknowledged stop, over sessions, hang-ups and the shutdown). `Owned` adds to `Latch` and `SocketOK`
the two ownership invariants and that from `drain` on nothing is armed and a
motion is an unconfirmed one, which `Exit`, which lets the peer go without a
call, needs: `ArmIsOwned`, `MotionIsOwned`. `Supervised` adds to `Owned` that a
motion is attributed to a session whenever there is one, and with it every step
of the process is a step of `MotionSupervisor` or a stutter:
`DaemonImplementsSupervisor`, `DaemonSpec => ImplementsSupervisor`, for any
number of sessions. What the abstract specification promises then holds of the
process: `DriverOwnsTheArm`.

**ChassisAdapterProofs**, first part, the guard alone. `GuardInv` is the type
invariant with three facts: nothing but an armed guard has an output; while it
prepares, the age of the preparation is the time since the guard last met a
non-zero command; a guard that may not move stays `Disabled`. It gives
`GuardTypeCorrect`, `NoResidual`, `AccelerationBounded`, `FaultLatched`,
`ArmedAfterZero`.

Second part, the adapter around it. `AdapterInv` joins the guard's invariant to
that of the connection.

- `SocketInv` is the discipline of one exchange at a time: a packet in the
  socket belongs to the command list of the exchange the executor is blocked
  in, a late one to a connection that is gone.
- `ArmInv` is `DaemonArmIsKnown` in the middle of an exchange: the daemon may
  be armed before the adapter knows, with the reply on its way. The property
  alone is not inductive: what makes it hold after a timeout is that the
  adapter closes the connection it gave up, so that a command executed late
  finds nobody to own the arm.
- `FreshPacket`: evidence grows no faster than the packet that carries it, also
  of one that has expired.
- `MarkerInv`: a changed marker keeps the guard in `Fault` until it is
  acknowledged; without it an acknowledgement could leave a guard that prepares
  with no preparation time.

It gives `AdapterTypeCorrect`, `ArmIsKnown` and `MovesAreFresh`.

What was proved of the guard alone is proved again of the guard in the adapter,
which faults it for reasons of its own, ticks it late and gets past its
operations in three places. `AdapterStepsOfGuard` says which: a state that is
not valid, the acknowledgement of a marker, a new process. Every other step of
the adapter is one of the guard or leaves it alone, so the lemmas about the
guard's steps apply: `AdapterKeepsGuard` (types, `NoResidualOutput`),
`AdapterAccelerationBounded`, `AdapterArmsAfterZero`. `AdapterFaultLatched` is
stronger than the guard's own latch and needs `MarkerInv` in the state after
the step: a guard that has left `Fault` has no changed marker.

`DaemonIsSupervisor`: the daemon's variables take steps of `MotionSupervisor`
only. With `DaemonImplementsSupervisor` both sides of the socket are shown
against one specification. Its invariant `MotionIsOwned` together with
`ArmIsKnown` is `MotionKnown`: a robot that may be moving is latched, or moves
under an arm the adapter knows or that is about to find its connection closed.

**StagedProofs.** `GoalInv` (the one goal is the claimed one from before the
arming on), `ArmInv` (the arm is asked for once, when idle is left),
`DisarmInv` (the disarm comes after the end of the session, and once it is
answered no arm request is in flight), `PassInv` (what the dispatcher wrote is
what Nav2 ended its goal with). `DisarmIsFinal` needs all of them: that a late
answer cannot re-arm follows from the order of the adapter's answers, not from
a guard of the session. `StagedTypeCorrect`, `PassEarned`, `DisarmFinal`,
`CommandsAreServing`.

### Semantic navigation, and the parts beside it

**PartsProofs.** *SemanticNavigation*, four invariants.

- `Flight`: for every call (`Honest`), one that has not reserved has left no
  trace, one whose request is out has a busy run without an id, an outstanding
  goal has a busy run or one that ended on an empty state, and whoever holds the
  answer "over" holds a true one, for a run that has its id; and at most one run
  is busy (`OneBusy`). The part
  about held answers makes it inductive: an answer is used long after it was
  given. It gives `OneGoalAtATime` and `LatchNeedsEvidence`.
- `Claims`: whoever cancels holds the claim, and only a run with an id is about
  to be canceled. It gives `OneCanceller`.
- `OnMap`: a validated call holds the lock, goals are being accepted, and it is
  on its map or somebody is about to notify (`Sound`); the same of a live run,
  which needs a binding unless a deactivation is about to invalidate it
  (`Grounded`). It gives `OnItsMapOrEnding` and `UnboundMeansEnded`.
- `MapTypes`, for `NavTypeCorrect`.

*SportActions.* As long as nothing has failed, worker and daemon take turns:
`OneExchange` says that between them is nothing, the command the worker is at,
or the one answer to it, and an answer comes over a connection that is served.
On it rest `PostureIsKnown` (the robot is in the posture the worker believes it
in, or in that of a command whose answer is on its way) and `DisarmHolds` (once
the disarm is answered nobody's command is still to come). After a failure
nothing is claimed: such a run is reported as FAILED. `CleanEnd`.

*RobotTrack.* `ResetIsOwed`: an estimator with memories of before an
invalidation is reset before the next estimate, also if a reset fails;
`WorkIsSound`: what the worker holds of an epoch that is still valid comes from
a clean estimator; `NothingCurrent`: between the invalidation and the clearing
of the measurement nothing can be committed. `ForwardWitnessed`.

*TrackLifecycle.* A thread comes alive in `Launch` only, so `HandleReserved`
has to hold from the reservation to the start over every `_stop_runtime` that
runs in between: `RuntimeOwned`.

*CameraBridge.* `BridgeInv` orders every frame on its way: the last one shown,
the one in hand, the one in the mailbox, the records in the socket, the
daemon's next number, by connection and number (`WireOrdered`,
`FramesOrdered`). `Released` says what the two looks of the processor leave to
be true at the publication. `FramesAreCurrent`.

*MotionRelay.* A heartbeat is never younger than the look at the approval it
stands for, wherever it waits (`BeatsVouch`), nor a verified graph than the
last moment of one exact publisher (`GraphVouches`); `RelayAttested` adds the
two ages at the moment of a publication.

*TargetEstimator.* `TargetOK` relates box and flow, and a candidate with its count
to the sightings it had; `JumpOK` the count of a pending jump to the readings
that voted for it: `DistanceEarned`.

*OdometryGate.* `ReceiptBounds`: a state received so long ago was measured at
most `StampAge` before. It gives `OutputWitnessed` by a sum of ages.
`Quarantined`: under quarantine the code's candidate is a part of the unbroken
run of samples (`Within`), so it is never longer than it; outside it there is
no candidate, and no odd marker without such a run since: `RecoveryStable`.

### Sessions

**SessionProofs.** `PermitInv`: a permit is offered exactly if it was never
spent, the goal's is spent after the chassis', and whoever has a dispatcher has
passed that look (`PermitSpentOnce`). `HeldInv` says that the script knows
every child but the one it has just started, at each of its steps; with it
`WholeInv` follows the cleanup in its order, each owner gone or the status
saying so (`SuccessLeavesNothing`). `LateInv`: the contract stays broken while
the relay runs, since a parent that is gone is not started again and a file
that was written is not taken back (`OnlyTheCloudInHand`). `GateCounts`: what a
relay counts as fresh came since the cloud was stale (`RecoveryEarned`).
`LeftInv`, with a second disjunct for what a signal hid between fork and record
(`CleanupLeavesNothing`).

**CommissioningProofs.** *StampDiscipline*: the type invariant suffices for
`StampOutputIsLive`; `PauseInv`, for `OutputResumesOnEveryStream`, has the
discipline count at most one sample of a stream more than came since the
silence, the one that ended it, which is why `DisciplineAssumption` asks for
two. *WifiRollback*: `Phases` and `Seen`, what the workflow may assume of the
network if nothing has disturbed it since it looked (`ToldIsRestored`,
`OneHostOwner`). *RouterAudit*: `AuditInv`, until something is changed, and
after a run of valid samples, the network is the one found (`AuditRestores`).
*VoiceSession*: `VoicePhases` and `VoiceQueue`, where `PlanFirst` says that a
plan is seen before the end it came before, unless the queue dropped something
(`VoiceEndsTruly`). *HandsfreeObserver*: `Received`, what is on its way was
true once, and `Remembered`, what contradicts the click has ruled a pass out or
will with the next sample (`AcceptanceIsTruthful`). *FirstMotionProbe*:
`Requested`, the order in which requests are carried out, `Observed` and
`Watched` (`MotionPassEarned`).

### What the operator and Pilot see and use

**ServicesProofs.** *IntentRouter*: the history `open` is exactly the run that
the results of all turns tell of (`OneOpenRun`), and this turn sees that run or
knows of none (`TurnFollows`); both have to be carried through every result,
including one of a run that is not the known one. `RefusalStartsNothing` and
`CallsAreDue` make the property inductive: a call in the executor's hands was
asked for when nothing else was under way. `OpenRunsAreSeenThrough`, and with
`OneAdjustment` also `DistanceIsAdjustedOnce`.

*InitialPose*: `SeedsInv`, types and property, is inductive, since the archive
gets the active file in the very step that replaces it (`SeedsInvariant`,
`NoSeedIsLost`). *DashboardFeed*: the sequence the page asked for is that of
its metadata (`AskedOfPage`), a picture that is not being replaced answers it
(`ShownAsAsked`), and one process has one frame per sequence:
`PictureAndMetadataAgree`, `FreshnessIsEarned`.

*D435iStream*: of what is on the byte stream the sound packets are genuine
(`OnWire`), through every damage, loss and repetition; the publisher holds the
set that is due (`PublisherInv`), because a sound packet with the expected
number is that set: `PublishedFramesAreWhole`.

*StagedReadiness*: `Proven` says what a set of samples proves of the world by
the ages it carries, wherever the samples wait; `SeenInv` that what is valid
was seen valid now; `ReceiptInv` what a passing receipt still proves at its
age. `AcceptedReadinessIsRecent` adds the two ages at the moment of acceptance.

**Only model-checked.** What is stated with fairness, liveness being out of the
prover's reach: `MotionEnds`, `SilenceStopsMotion`, `SilenceStopsOutput`,
`FaultStopsRobot`, `LostMapCancels`, `SessionEnds`. In
StagedReadiness the freshness of the map's witness and of the goal status is
modelled but no property speaks of them, since the code does not assure it (see
section 7).

## 5. Disagreements between the documents and the code

Each has a run that shows it; the property states the document's sentence.

- `daemon_sdk_error`. `docs/SAFETY.md:108-109`: any SDK error requests StopMove
  and latches a fault. In the ClassicWalk profile an armed, moving daemon that
  is armed again and whose `ClassicWalk` call fails clears its arm, latches and
  answers, without a `StopMove`. The watchdog skips it, being disarmed with no
  unconfirmed stop recorded; the next disarm or disconnect stops it.
- `single_flight`. `packages/semantic_navigation/CAPABILITY.md:22-24`: a later
  goal is rejected until the provider itself reports `SUCCEEDED`, `CANCELED` or
  `FAILED` for the earlier run. `update_remote` (`run_state.py:172`) takes an
  answer without a state for `FAILED`; the latch opens, and the next goal is
  sent to a provider that may still pursue the earlier one.
- `gate_latch`. `packages/go2_chassis/CAPABILITY.md:75-76`: motion-capable
  processes latch a loss of state or odometry liveness until a reviewed
  restart. The code latches it in a session only; disarmed, it takes the inputs
  up again.
- `staged_fault`. The guard calls its fault latched (`fault_latched`, "staged
  Nav2 guard fault latched"). `observe_goal_statuses` has no guard on `FAULT`:
  a succeeded status that arrives while the fault is being stopped turns the
  session into a PASS.
- `stamp_resume`. The docstring of the discipline
  (`navigation_stamp_discipline.py:642`) promises two fresh samples from every
  stream after an interruption. A stream that falls silent twice within one
  recovery lets the next pause end on one.

## 6. What is not modelled

- CRC, packet layout, DDS, JPEG, JSON, signatures, schemas: a verdict, or
  nothing. Numbers of images, transforms, routes and clock statistics likewise.
- `VerifiedCall` of the SDK client: the correlation of request and response
  over DDS; an SDK call succeeds or fails.
- The start of a daemon (options are the assumption `Profile`; the single-owner
  lock and the DDS preflight), the adapter's publishers and destructor, its
  distance limit of a commissioning session, the envelope of a pose.
- A daemon killed while the robot moves. The next one knows nothing of it; what
  stops the robot is its firmware.
- The permits of the first and second motion, host preflights, rendering of
  configuration. The readiness scripts of the other stacks, robot description,
  deployment files, offline clock evaluation, the D435i report: they show, start
  or compute, and nothing here depends on their state.
- The landmark store, the notifier and the action providers: functions of their
  input, or readers of a file that does not change. How an utterance is parsed.
- The pose the mapping service restores, the sensor relay, the camera's quality
  window, what the dashboard draws and its semantic task panel.
- The firmware, Nav2, SLAM, the navigation provider, NetworkManager, Docker,
  Liaison: environment, free to do what section 2 says.

## 7. Observations

Things the modelling brought up that no document of the repository contradicts,
so that they have no run. Each is kept in the models, unless it says otherwise.

- *Semantic navigation.* When the answer to `Navigate` is lost the run has no
  provider id: it cannot be cancelled and its latch never opens. That is the
  price of the single-flight latch, and deliberate. The registry is in memory: a restart
  forgets the latch. If the second readiness check fails with an error that is
  not a `LifecycleBindingError`, the accepted goal has no monitor; its latch
  opens on a status call only.
- *Sport daemon.* A controller that goes away while its command is being handled
  makes `SendReply` throw: `Run` cleans up, stops the robot, and the process
  ends, so that another arm needs another daemon.
- *Pre-arm stop.* `docs/decisions/motion-rpc-acknowledgement.md:50` has a
  `StopMove` before an arm can lead to a command; `PrepareArm` answers without
  a call, by a later decision that a comment in the code records.
- *Marker change.* `docs/SAFETY.md:78-81` speaks of a re-arm after a marker
  change; with external, verified odometry the adapter latches for the life of
  the process.
- *Staged guard.* The tick publishes a zero every 50 ms also while armed and
  healthy.
- *Staged launcher.* The namespace cleanup runs before the lease is taken, so a
  second launcher can stop the first session's Nav2 (it fails safe). A guard
  that needs more than five seconds for its stop is killed. After a SIGKILL an
  orphan may still spend the chassis permit. The first-motion launcher ignores
  failures of its cleanup (not modelled).
- *No-motion launcher.* A signal between the fork of a child and the recording
  of its PID leaves it running (`NothingIsLeft` excepts it). A registration that
  cannot be removed stays, and nobody is told (`|| true`, line 604). The comment at
  `start_workstation_full_nomotion_corrected.sh:782-783` speaks of reading all
  gates at the last boundary, which re-reads the relay's fault file.
- *Stamp discipline.* In the motion profile the delta limit equals the hard age
  ceiling (200 ms), so the core-delta recovery can never apply. The fixed
  offset resumes after a silence nobody noticed with a sample of the silent
  stream alone.
- *Motion relay.* The sender's id of the message domain is never compared with
  the graph's (by design); a stop request that races a worker's fault ends with
  status 0 and no fault file; `corrected_state_issue` has no caller.
  `select_source` of RobotTrack's source mux has none outside the tests.
- *Network.* If the first command (the wire down) fails with the wire still up,
  no round sees a network without the host address and the fallback takes the
  wired profile down although it was the only owner. In the audit the exit code
  70 is unreachable; an incomplete rollback is not repeated; a clone that is
  completed after the last look stays.
- *First-motion probe.* A timed-out arm request may be executed later; the
  disarm follows it in order, but the watch after the stop is skipped (the
  session fails).
- *RobotTrack.* After a target is lost the last accepted distance stays in the
  estimator's history; a deactivation that races an activation leaves the
  provider active over an inactive distance runtime until that exits.
- *Voice.* A `mic_stop` while the recording is sent cancels the sender, whose
  `CancelledError` the worker's `except Exception` does not catch: the session
  stays shown as active and later ones are refused until a restart
  (`VoiceEndIsTrue` excepts it). A full queue can drop a plan event.
- *Hands-free.* A switch-off before READY followed by a stale reply "enabled"
  passes without the operator's click; the same sentence recognised twice is no
  new transcript.
- *Pose restoration.* A restored pose can be published for a changed map
  generation, and an operator's pose handled before the new map's first sample
  is saved under the old map; neither loses a seed. An operator's pose that
  equals the last publication within two seconds is taken for its echo.
- *Dashboard.* A restarted process numbers its pictures anew, so a page that
  stays open can show a picture of the old process beside metadata of the new
  one until the next picture (`PictureIsOfItsMetadata` speaks of one process).
- *Intent endpoint.* A goal whose acceptance never reached the conversation is
  known to nobody; after a stop the endpoint says that no run is active while
  the goal may still be pursued. `packages/semantic_intent_router/README.md:42`
  leaves that to an operator.
- *D435i stream.* A set is stamped with the time of its arrival, so a stream that
  stalled looks fresh again; a stop is not noticed while a read waits.
- *Readiness receipt.* A goal that was active before the window publishes no
  status in it and reads as idle; the witness of the map is stamped anew if its
  topic has one publisher at the end, be it another one than at the start.

Assumptions of the models themselves: the camera's last look and its
publication are one moment; a pair of samples that straddles the end of the
no-motion lock window does not occur; the thread of the map's subscriber joins
in the time the code gives it; clocks are steady, so that no stamp lies in the
future except where a module says so.

## 8. What could come next

- `VerifiedCall` over a medium that loses, delays and carries the responses of
  others, as the SDK call of `DaemonCore`.
