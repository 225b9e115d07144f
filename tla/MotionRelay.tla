------------------------------ MODULE MotionRelay ------------------------------
(***************************************************************************)
(* The relay of the robot's motion state: a supervisor in Python           *)
(* (workstation_motion_state_relay.py) that watches the approval and feeds *)
(* heartbeats into a pipe, and the one ROS process it starts               *)
(* (workstation_motion_state_relay.cpp), which checks the graph every 50   *)
(* ms and each message against PublisherGidGuard (gid_guard.hpp) and       *)
(* relays what passes.  Of the heartbeats in the pipe only the youngest    *)
(* matters, since a drain reads them all and their stamps increase.  Time  *)
(* does not pass between a round's look at the approval and the stamp of   *)
(* its heartbeat.                                                          *)
(***************************************************************************)
EXTENDS Ages, FiniteSets

CONSTANTS
  Writer,         \* publishers of the corrected state,
  Exact,          \* those with the expected node, type, QoS and GID
  NoWriter,
  HeartbeatAge,   \* kHeartbeatTimeoutNs
  GraphAge,       \* kGraphFreshNs
  DiscoveryTime,  \* kInitialGraphDiscoveryTimeoutNs
  InitialTime,    \* kInitialMessageTimeoutNs
  StablePolls, StableMessages, ReadySamples

ASSUME MotionRelayAssumption ==
  /\ Exact \subseteq Writer /\ NoWriter \notin Writer
  /\ {HeartbeatAge, GraphAge, DiscoveryTime, InitialTime} \subseteq Nat
  /\ StablePolls \in Nat \ {0}

VARIABLES
  supervisor,     \* starting, running, closing, ended, killed
  stop_requested, fault_file, ready_file,
  heartbeat_pipe, \* the age of the youngest heartbeat in it
  events,         \* the event pipe: a set of "ready" and "fault"
  relay,          \* the worker: none, launched, running, faulted, ended
  started,        \* ages: of the worker,
  heartbeat,      \* last_sender_ns_,
  graph_verified, \* last_graph_verified_steady_ns_
  graph,          \* [gid, polls]: graph_candidate_gid_, stable_graph_polls_
  message_gid, stable_samples,
  received,       \* last_receipt_steady_ns_ and last_corrected_stamp_ns_ are set
  valid_samples, ready_emitted,
  endpoints,      \* the publishers of the topic
  approved,       \* the approval and the stamp node's READY are what they were
  approved_age, endpoint_age,    \* history: since approved; since one exact publisher
  relayed         \* history: [by, turn], the writers published; it turns with each sample

supervisor_vars == <<supervisor, stop_requested, fault_file, ready_file>>
gid_vars == <<graph, message_gid, stable_samples>>
sample_vars == <<received, valid_samples, ready_emitted, relayed>>
world == <<endpoints, approved, approved_age, endpoint_age>>
relay_vars == <<supervisor_vars, heartbeat_pipe, events, relay, started, heartbeat,
                graph_verified, gid_vars, sample_vars, world>>

\* The worker's state goes with it.
WorkerEnds ==
  /\ relay' = "ended"
  /\ heartbeat_pipe' = NoStamp /\ heartbeat' = NoStamp
  /\ started' = NoStamp /\ graph_verified' = NoStamp
  /\ graph' = [gid |-> NoWriter, polls |-> 0] /\ message_gid' = NoWriter /\ stable_samples' = 0
  /\ received' = FALSE /\ valid_samples' = 0 /\ ready_emitted' = FALSE
  /\ UNCHANGED relayed

PipesOpen == supervisor \in {"starting", "running"}

-----------------------------------------------------------------------------
(* The supervisor *)

BySupervisor ==
  UNCHANGED <<started, heartbeat, graph_verified, gid_vars, sample_vars, world>>

\* The approval and the frozen model of the stamp node's READY are read again, are
\* valid, and are the ones the supervisor was started with.
ContractStands == approved

\* run_supervisor: the pipe is primed before the worker exists, if its program is
\* one that may be started.
LaunchWorker ==
  /\ supervisor = "starting"
  /\ \/ /\ ContractStands
        /\ supervisor' = "running" /\ relay' = "launched" /\ heartbeat_pipe' = 0
     \/ supervisor' = "ended" /\ UNCHANGED <<relay, heartbeat_pipe>>
  /\ BySupervisor /\ UNCHANGED <<stop_requested, fault_file, ready_file, events>>

\* parse_worker_event: the worker has written this event, framed and in its schema.
WorkerSays(event) == event \in events

RoundFails ==
  \/ WorkerSays("fault")
  \/ relay = "ended"
  \/ WorkerSays("ready") /\ ready_file
  \/ ~ContractStands

\* latch_fault of the supervisor, which ends also when the file cannot be written.
FailRound ==
  /\ supervisor' = "closing" /\ fault_file' \in BOOLEAN
  /\ events' = {}
  /\ UNCHANGED <<ready_file, heartbeat_pipe>>

\* handle_event of the worker's READY, when there is one.
CommitReady ==
  /\ ready_file' = (ready_file \/ WorkerSays("ready"))
  /\ events' = {}

Beat == heartbeat_pipe' = 0

\* One turn of the loop: the events, the worker, the approval, the heartbeat.
Supervise ==
  /\ supervisor = "running"
  /\ CASE stop_requested ->
            supervisor' = "closing"
              /\ UNCHANGED <<fault_file, ready_file, heartbeat_pipe, events>>
       [] ~stop_requested /\ RoundFails -> FailRound
       [] OTHER ->
            \/ CommitReady /\ Beat /\ UNCHANGED <<supervisor, fault_file>>
            \/ WorkerSays("ready") /\ FailRound   \* READY cannot be written
  /\ BySupervisor /\ UNCHANGED <<stop_requested, relay>>

RequestStop ==
  /\ supervisor = "running" /\ ~stop_requested
  /\ stop_requested' = TRUE
  /\ BySupervisor
  /\ UNCHANGED <<supervisor, fault_file, ready_file, heartbeat_pipe, events, relay>>

KillSupervisor ==
  /\ supervisor \in {"running", "closing"}
  /\ supervisor' = "killed"
  /\ BySupervisor
  /\ UNCHANGED <<stop_requested, fault_file, ready_file, heartbeat_pipe, events, relay>>

\* The pipes are closed; the worker is awaited, then terminated and killed.
Reap ==
  /\ supervisor = "closing"
  /\ supervisor' = "ended"
  /\ WorkerEnds
  /\ UNCHANGED <<stop_requested, fault_file, ready_file, events, world>>

-----------------------------------------------------------------------------
(* The worker *)

ByRelay == UNCHANGED <<supervisor_vars, world>>

Construct ==
  /\ relay = "launched"
  /\ relay' = "running" /\ started' = 0
  /\ ByRelay /\ UNCHANGED <<heartbeat_pipe, events, heartbeat, graph_verified, gid_vars, sample_vars>>

\* LatchFault: the event is lost when nobody reads.
LatchFault ==
  /\ relay' = "faulted"
  /\ events' = IF PipesOpen THEN events \cup {"fault"} ELSE events

Working == UNCHANGED <<relay, events>>

ExitWorker ==
  /\ relay = "faulted"
  /\ WorkerEnds
  /\ ByRelay /\ UNCHANGED events

\* A crash leaves no event.
CrashWorker ==
  /\ relay \in {"launched", "running"}
  /\ WorkerEnds
  /\ ByRelay /\ UNCHANGED events

\* Mutant of DrainHeartbeat: a heartbeat is as young as its reading.
ReadIsSent ==
  /\ heartbeat' = IF heartbeat_pipe # NoStamp THEN 0 ELSE heartbeat
  /\ heartbeat_pipe' = NoStamp

DrainHeartbeat ==
  /\ heartbeat' = IF heartbeat_pipe # NoStamp THEN heartbeat_pipe ELSE heartbeat
  /\ heartbeat_pipe' = NoStamp

HeartbeatFresh == heartbeat' # NoStamp /\ heartbeat' <= HeartbeatAge

\* ObserveGraph without a fault.
GraphIsExact ==
  \E writer \in Exact : endpoints = {writer} /\ graph.gid \in {NoWriter, writer}

GraphBound == graph.polls = StablePolls

\* PollGraphAndSupervisor
Poll ==
  /\ relay = "running"
  /\ DrainHeartbeat
  /\ LET absent == endpoints = {} /\ graph.gid = NoWriter /\ started < DiscoveryTime
     IN
       CASE ~PipesOpen \/ (~HeartbeatFresh /\ started > HeartbeatAge) ->
              LatchFault /\ UNCHANGED <<graph, graph_verified>>
         [] PipesOpen /\ HeartbeatFresh /\ ~absent /\ GraphIsExact ->
              /\ graph' = [gid |-> CHOOSE writer \in endpoints : TRUE,
                           polls |-> IF GraphBound THEN graph.polls ELSE graph.polls + 1]
              /\ graph_verified' = IF graph'.polls = StablePolls THEN 0 ELSE graph_verified
              /\ IF ~received /\ started > InitialTime THEN LatchFault ELSE Working
         [] PipesOpen /\ HeartbeatFresh /\ ~absent /\ ~GraphIsExact ->
              LatchFault /\ UNCHANGED <<graph, graph_verified>>
         [] OTHER -> Working /\ UNCHANGED <<graph, graph_verified>>
  /\ ByRelay /\ UNCHANGED <<started, message_gid, stable_samples, sample_vars>>

\* EmitReady
EmitReady ==
  IF PipesOpen
  THEN ready_emitted' = TRUE /\ events' = events \cup {"ready"} /\ UNCHANGED relay
  ELSE relay' = "faulted" /\ UNCHANGED <<ready_emitted, events>>

\* A sample that passed the GID guard: its stamp, the qualification, the output.
Sample(writer, stamp) ==
  CASE stamp \in {"invalid", "replayed", "future"} -> LatchFault /\ UNCHANGED sample_vars
    [] stamp = "old" -> Working /\ UNCHANGED sample_vars
    [] stamp = "fresh" ->
         /\ received' = TRUE
         /\ IF ready_emitted
            THEN /\ relayed' = [by |-> relayed.by \cup {writer}, turn |-> ~relayed.turn]
                 /\ Working /\ UNCHANGED <<valid_samples, ready_emitted>>
            ELSE /\ valid_samples' = valid_samples + 1
                 /\ IF valid_samples' >= ReadySamples
                    THEN EmitReady ELSE Working /\ UNCHANGED ready_emitted
                 /\ UNCHANGED relayed

\* ObserveMessage of the guard, then the sample.
Identified(writer, stamp) ==
  IF message_gid \notin {NoWriter, writer}
  THEN LatchFault /\ UNCHANGED <<message_gid, stable_samples, sample_vars>>
  ELSE /\ message_gid' = writer
       /\ stable_samples' = IF stable_samples = StableMessages THEN stable_samples
                            ELSE stable_samples + 1
       /\ IF stable_samples' = StableMessages
          THEN Sample(writer, stamp) ELSE Working /\ UNCHANGED sample_vars

\* ObserveMessage of the node: a message whose GID may be malformed.
ObserveMessage ==
  /\ relay = "running"
  /\ DrainHeartbeat
  /\ \E writer \in Writer, stamp \in {"fresh", "old", "future", "invalid", "replayed"},
        wellformed \in BOOLEAN :
       /\ stamp = "replayed" => received
       /\ CASE \/ ~PipesOpen \/ ~HeartbeatFresh
               \/ GraphBound /\ (graph_verified > GraphAge \/ ~wellformed) ->
                 LatchFault /\ UNCHANGED <<message_gid, stable_samples, sample_vars>>
            [] /\ PipesOpen /\ HeartbeatFresh
               /\ GraphBound /\ graph_verified <= GraphAge /\ wellformed ->
                 Identified(writer, stamp)
            [] OTHER -> Working /\ UNCHANGED <<message_gid, stable_samples, sample_vars>>
  /\ ByRelay /\ UNCHANGED <<started, graph_verified, graph>>

-----------------------------------------------------------------------------
(* The world *)

OneExact(writers) == \E writer \in Exact : writers = {writer}

EndpointsChange ==
  /\ relay = "running"
  /\ endpoints' \in SUBSET Writer
  /\ endpoint_age' = IF OneExact(endpoints') \/ OneExact(endpoints) THEN 0 ELSE endpoint_age
  /\ UNCHANGED <<supervisor_vars, heartbeat_pipe, events, relay, started, heartbeat,
                 graph_verified, gid_vars, sample_vars, approved, approved_age>>

ApprovalChanges ==
  /\ supervisor \in {"starting", "running"}
  /\ approved' = ~approved
  /\ approved_age' = 0
  /\ UNCHANGED <<supervisor_vars, heartbeat_pipe, events, relay, started, heartbeat,
                 graph_verified, gid_vars, sample_vars, endpoints, endpoint_age>>

BeatOlder(age) == Older(age, HeartbeatAge + 1)
GraphOlder(age) == Older(age, GraphAge + 1)

RelayTimePasses ==
  /\ relay \in {"launched", "running"}
  /\ heartbeat_pipe' = BeatOlder(heartbeat_pipe) /\ heartbeat' = BeatOlder(heartbeat)
  /\ started' = Older(started, InitialTime + 1)
  /\ graph_verified' = GraphOlder(graph_verified)
  /\ approved_age' = IF approved THEN 0 ELSE BeatOlder(approved_age)
  /\ endpoint_age' = IF OneExact(endpoints) THEN 0 ELSE GraphOlder(endpoint_age)
  /\ UNCHANGED <<supervisor_vars, events, relay, gid_vars, sample_vars, endpoints, approved>>

-----------------------------------------------------------------------------

RelayInit ==
  /\ supervisor = "starting" /\ stop_requested = FALSE
  /\ fault_file = FALSE /\ ready_file = FALSE
  /\ heartbeat_pipe = NoStamp /\ heartbeat = NoStamp /\ events = {}
  /\ relay = "none" /\ started = NoStamp /\ graph_verified = NoStamp
  /\ graph = [gid |-> NoWriter, polls |-> 0]
  /\ message_gid = NoWriter /\ stable_samples = 0
  /\ received = FALSE /\ valid_samples = 0 /\ ready_emitted = FALSE /\ relayed = [by |-> {}, turn |-> FALSE]
  /\ endpoints \in SUBSET Writer
  /\ endpoint_age = IF OneExact(endpoints) THEN 0 ELSE GraphAge + 1
  /\ approved = TRUE /\ approved_age = 0

RelayNext ==
  \/ LaunchWorker \/ Supervise \/ RequestStop \/ KillSupervisor \/ Reap
  \/ Construct \/ Poll \/ ObserveMessage \/ ExitWorker \/ CrashWorker
  \/ EndpointsChange \/ ApprovalChanges
  \/ RelayTimePasses

RelaySpec == RelayInit /\ [][RelayNext]_relay_vars

-----------------------------------------------------------------------------
(* Properties *)

\* Whatever the relay publishes comes from one writer; at most HeartbeatAge ago
\* the approval stood, and at most GraphAge ago the topic had one exact
\* publisher.  A stalled supervisor or worker, heartbeats left in the pipe and
\* a publisher that comes and goes do not matter.
RelayedIsAttested ==
  [][relayed' # relayed =>
       /\ Cardinality(relayed'.by) = 1
       /\ approved_age <= HeartbeatAge
       /\ endpoint_age <= GraphAge]_relay_vars

==============================================================================
