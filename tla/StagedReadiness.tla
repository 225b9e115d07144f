-------------------------- MODULE StagedReadiness ----------------------------
(* The readiness receipt of scripts/staged_nav2_readiness.py and its validation *)
(* by scripts/validate_staged_nav2_readiness_receipt.py: a process that only    *)
(* subscribes listens for a while, looks at the graph, refreshes its latched    *)
(* witnesses, judges what it has and writes a receipt; the session's script     *)
(* accepts a passing receipt that is its own and not old, and starts another    *)
(* attempt when the judgement was negative.                                     *)
EXTENDS Ages

CONSTANTS
  Streams,        \* localization, odom, scan, state, tf: samples with a source stamp
  Window,         \* --duration
  ReceiptFresh,   \* RECEIPT_FRESHNESS_NS
  SourceFresh,    \* SOURCE_FRESHNESS_NS
  ReceiptLife,    \* maximum_receipt_age_ns of the validation
  MaxChanges      \* bound on the changes of the world, the guard aside

ASSUME ReadinessAssumption ==
  /\ Window \in Nat /\ ReceiptFresh \in Nat /\ SourceFresh \in Nat
  /\ ReceiptLife \in Nat /\ MaxChanges \in Nat
  /\ Streams \cap {"chassis", "goal_status", "map_lifecycle"} = {}

VARIABLES
  world,      \* what is the case: streams, chassis, goal, map server, guard
  queues,     \* the sample that waits at each subscription
  collector,  \* the process that listens
  receipt,    \* what it wrote last
  accepted,   \* the script accepted the receipt
  seen        \* when the world was last as the receipt says (for the properties)

ready_vars == <<world, queues, collector, receipt, accepted, seen>>

Phases == {"pre_guard", "post_guard"}
Keys == Streams \union {"chassis", "goal_status", "map_lifecycle"}

\* The map servers: the one of the session, and one with another generation.
Servers == {"expected", "other"}

NoSample == [good |-> FALSE, stamp |-> NoStamp, received |-> NoStamp]
NoReceipt == [passed |-> FALSE, phase |-> "pre_guard", age |-> NoStamp]
NoSamples == [k \in Keys |-> NoSample]

\* Ages saturate where no comparison tells them apart; that of a measurement is
\* kept where the sample carries it.
SeenLimit == SourceFresh + ReceiptLife + 1

ReadyInit ==
  /\ world = [streams |-> [s \in Streams |-> TRUE], disarmed |-> TRUE, goal |-> FALSE,
              servers |-> {"expected"}, guard |-> FALSE, changes |-> 0]
  /\ queues = NoSamples
  /\ collector = [at |-> "rest", phase |-> "pre_guard", listened |-> 0,
                  samples |-> NoSamples, servers |-> {}, guard |-> FALSE]
  /\ receipt = NoReceipt
  /\ accepted = FALSE
  /\ seen = [good |-> [s \in Streams |-> 0], disarmed |-> TRUE]

-----------------------------------------------------------------------------
(* The world.  A stream that is valid has been seen valid 0 ago; that the       *)
(* chassis was disarmed is remembered for one attempt.                         *)

Becomes(w) ==
  /\ world.changes < MaxChanges
  /\ world' = [w EXCEPT !.changes = @ + 1]
  /\ seen' = [good |-> [s \in Streams |-> IF w.streams[s] THEN 0 ELSE seen.good[s]],
              disarmed |-> seen.disarmed \/ w.disarmed]
  /\ UNCHANGED <<collector, receipt, accepted>>

Listening == collector.at = "collect"

Put(key, good) ==
  queues' = IF Listening
            THEN [queues EXCEPT ![key] = [good |-> good, stamp |-> 0, received |-> NoStamp]]
            ELSE queues

\* A stream becomes valid and what the permit allows, or ceases to be.
StreamChanges ==
  \E s \in Streams :
    /\ Becomes([world EXCEPT !.streams[s] = ~@])
    /\ UNCHANGED queues

ChassisChanges ==
  /\ Becomes([world EXCEPT !.disarmed = ~@])
  /\ UNCHANGED queues

\* The action server publishes its status when a goal begins or ends, and the
\* subscription is volatile: a status of before it is not delivered.
GoalChanges ==
  /\ Becomes([world EXCEPT !.goal = ~@])
  /\ Put("goal_status", world.goal)

\* A map server ends, or another one takes its place or joins it.
MapServerChanges ==
  /\ \E servers \in SUBSET Servers : Becomes([world EXCEPT !.servers = servers])
  /\ UNCHANGED queues

\* The script starts the staged guard, which may end again.
GuardChanges ==
  /\ world' = [world EXCEPT !.guard = ~@]
  /\ UNCHANGED <<queues, collector, receipt, accepted, seen>>

\* Streams and the status of the chassis are published again and again; the
\* identity of the map is latched by the server that published it.
PublishSamples ==
  /\ Listening
  /\ \/ \E s \in Streams : Put(s, world.streams[s])
     \/ Put("chassis", world.disarmed)
     \/ \E server \in world.servers : Put("map_lifecycle", server = "expected")
  /\ UNCHANGED <<world, collector, receipt, accepted, seen>>

StampLimit == SourceFresh + 1
ReceivedLimit == ReceiptFresh + 1

AgedSamples(samples) ==
  [k \in Keys |->
    [samples[k] EXCEPT !.stamp = IF k \in Streams THEN Older(@, StampLimit) ELSE @,
                       !.received = Older(@, ReceivedLimit)]]

ReadyTime ==
  /\ queues' = AgedSamples(queues)
  /\ collector' = [collector EXCEPT !.samples = AgedSamples(@),
                                    !.listened = Older(@, Window)]
  /\ receipt' = [receipt EXCEPT !.age = Older(@, ReceiptLife + 1)]
  /\ seen' = [seen EXCEPT !.good = [s \in Streams |->
                 IF world.streams[s] THEN 0 ELSE Older(seen.good[s], SeenLimit)]]
  /\ UNCHANGED <<world, accepted>>

-----------------------------------------------------------------------------
(* The collector                                                               *)

\* The process is over, and what it had with it.
CollectorTo(at) ==
  collector' = [at |-> at, phase |-> collector.phase, listened |-> 0,
                samples |-> NoSamples, servers |-> {}, guard |-> FALSE]

\* An attempt of the session's script: the subscriptions are made, and nothing
\* of an earlier attempt is kept.  After a passing receipt the script goes on to
\* the next phase.
StartAttempt ==
  /\ collector.at = "rest"
  /\ collector' = [at |-> "collect",
                   phase |-> IF accepted THEN "post_guard" ELSE collector.phase,
                   listened |-> 0, samples |-> NoSamples, servers |-> {}, guard |-> FALSE]
  /\ queues' = NoSamples
  /\ receipt' = NoReceipt
  /\ accepted' = FALSE
  /\ seen' = [seen EXCEPT !.disarmed = world.disarmed]
  /\ UNCHANGED world

\* A sample is stamped with the time at which it is taken.
TakeSample ==
  /\ Listening
  /\ \E key \in Keys :
       /\ queues[key] # NoSample
       /\ collector' = [collector EXCEPT !.samples[key] =
                                           [queues[key] EXCEPT !.received = 0]]
       /\ queues' = [queues EXCEPT ![key] = NoSample]
  /\ UNCHANGED <<world, receipt, accepted, seen>>

\* The window is over: the publishers and subscribers are read from the graph.
ReadGraph ==
  /\ Listening
  /\ collector.listened = Window
  /\ collector' = [collector EXCEPT !.at = "refresh", !.servers = world.servers,
                                    !.guard = world.guard]
  /\ queues' = NoSamples
  /\ UNCHANGED <<world, receipt, accepted, seen>>

Unique(servers) == \E server \in Servers : servers = {server}

\* A latched sample is a witness of now as long as its topic has one publisher.
RefreshWitness ==
  /\ collector.at = "refresh"
  /\ collector' =
       [collector EXCEPT
         !.at = "judge",
         !.samples["map_lifecycle"].received =
            IF Unique(collector.servers) /\ @ # NoStamp THEN 0 ELSE @]
  /\ UNCHANGED <<world, queues, receipt, accepted, seen>>

\* The collector ends with an error: another status than a negative judgement.
CollectorFails ==
  /\ collector.at \in {"collect", "refresh", "judge"}
  /\ CollectorTo("failed")
  /\ queues' = NoSamples
  /\ UNCHANGED <<world, receipt, accepted, seen>>

fresh_receipt(sample) == sample.received \in 0..ReceiptFresh

\* Mutant of fresh: the age of the measurement is not looked at.
fresh_by_receipt(key) == fresh_receipt(collector.samples[key])

\* _fresh: received not long ago and, where there is a source stamp, measured
\* not long ago.
fresh(key) ==
  LET sample == collector.samples[key]
  IN  /\ fresh_receipt(sample)
      /\ key \in Streams => sample.stamp <= SourceFresh

valid_and_fresh(key) == collector.samples[key].good /\ fresh(key)

\* No status at all stands for an idle server.
goal_status_idle ==
  LET sample == collector.samples["goal_status"]
  IN  sample # NoSample => sample.good /\ fresh("goal_status")

\* Who publishes to and who listens behind the guard is exactly who should.
topology_exact == collector.guard = (collector.phase = "post_guard")

\* evaluate_snapshot: the receipt passes if every check does; and a passing one
\* must stand the validation before it is written.
EvaluateSnapshot ==
  /\ collector.at = "judge"
  /\ LET passed == /\ \A key \in Keys \ {"goal_status"} : valid_and_fresh(key)
                   /\ goal_status_idle
                   /\ Unique(collector.servers)
                   /\ topology_exact
     IN  /\ receipt' = [passed |-> passed, phase |-> collector.phase, age |-> 0]
         /\ CollectorTo(IF passed THEN "written" ELSE "rest")
  /\ UNCHANGED <<world, queues, accepted, seen>>

-----------------------------------------------------------------------------
(* The session's script *)

\* validate_readiness_receipt on the way from the file to the script.
ValidateReceipt ==
  /\ collector.at = "written"
  /\ IF receipt.passed /\ receipt.phase = collector.phase /\ receipt.age <= ReceiptLife
     THEN /\ accepted' = TRUE
          /\ CollectorTo(IF collector.phase = "pre_guard" THEN "rest" ELSE "over")
     ELSE /\ CollectorTo("failed")
          /\ UNCHANGED accepted
  /\ UNCHANGED <<world, queues, receipt, seen>>

ReadyOver ==
  /\ collector.at \in {"over", "failed"}
  /\ UNCHANGED ready_vars

ReadyNext ==
  \/ StreamChanges \/ ChassisChanges \/ GoalChanges \/ MapServerChanges \/ GuardChanges
  \/ PublishSamples \/ ReadyTime
  \/ StartAttempt \/ TakeSample \/ ReadGraph \/ RefreshWitness \/ CollectorFails
  \/ EvaluateSnapshot \/ ValidateReceipt
  \/ ReadyOver

ReadySpec == ReadyInit /\ [][ReadyNext]_ready_vars

-----------------------------------------------------------------------------
(* Properties *)

\* A receipt the script accepts speaks of a recent world: every stream was valid
\* at most the source freshness before the judgement and the receipt's life
\* before the acceptance, however long a sample waited in its queue, and the
\* chassis was disarmed at some time of this very attempt, whatever earlier
\* attempts saw.
Accepts == accepted' /\ ~accepted

ReadinessIsRecent ==
  [][Accepts => /\ \A s \in Streams : seen.good[s] <= SourceFresh + ReceiptLife
                /\ seen.disarmed]_ready_vars

=============================================================================
