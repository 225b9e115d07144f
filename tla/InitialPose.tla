------------------------------ MODULE InitialPose ------------------------------
(***************************************************************************)
(* The operator's localization seeds, kept by the dashboard for each map:  *)
(* packages/go2_dashboard, initial_pose_store.py (InitialPoseStore) with   *)
(* the handlers of ros_bridge.py and the routes of web.py that use it.     *)
(*                                                                         *)
(* Two threads share the store and its lock: the event loop of the web     *)
(* server (restore, reset) and the single-threaded ROS executor (a sample  *)
(* of the map's life cycle, a pose on /initialpose, the timer that drains  *)
(* restore requests).  A step is what one of them does under the lock.     *)
(* The dashboard hears its own publications.  The mapping service and the  *)
(* operator are external; the dashboard may die and start anew.            *)
(***************************************************************************)
EXTENDS Integers, Sequences

CONSTANTS
  Chart,           \* maps of the library
  MaxGeneration,   \* bound on the times a map is mapped anew
  Seed,            \* poses, by their signature
  RestoreQueue,    \* maxsize of the queue of restore requests
  NoSeed

Files == [chart : Chart, generation : 1..MaxGeneration, seed : Seed]
Identities ==
  [chart : Chart, mode : {"mapping", "localization"}, generation : 1..MaxGeneration]

ASSUME SeedAssumption == NoSeed \notin Seed \cup Files \cup Identities

ASSUME QueueAssumption == MaxGeneration \in Nat \ {0} /\ RestoreQueue \in Nat

VARIABLES
  auto_restore,    \* initial_pose_auto_restore
  artifact,        \* artifact[m]: the generation in the saved map's directory
  live,            \* the identity the mapping service last published
  sample,          \* the sample of it the executor has yet to take
  store_identity,  \* _identity of the store
  sidecar,         \* sidecar[m]: the active seed file of map m
  archived,        \* the seed files renamed or copied aside
  restore,         \* a pose the web thread has confirmed but not yet queued
  requests,        \* _initial_pose_requests
  pose_in,         \* the pose on /initialpose the executor has yet to take
  last_publish,    \* _last_initial_pose_publish, while younger than 2 s
  auto_done,       \* _last_auto_restore_identity
  given            \* history: every seed that was saved

disk == <<artifact, sidecar, archived>>
bus == <<live, sample, pose_in>>
volatile == <<store_identity, restore, requests, last_publish, auto_done>>
seed_vars == <<auto_restore, disk, bus, volatile, given>>

-----------------------------------------------------------------------------
(* The store.  What it shows as "saved" is whether the sidecar of a known    *)
(* identity is there, and needs no variable.                                 *)

Identity(m, mode, generation) == [chart |-> m, mode |-> mode, generation |-> generation]
File(m, generation, seed) == [chart |-> m, generation |-> generation, seed |-> seed]

\* _verify_artifact
Genuine(id) == artifact[id.chart] = id.generation

\* _read_sidecar finds a seed of this very generation.
Saved(id) == sidecar[id.chart] # NoSeed /\ sidecar[id.chart].generation = id.generation

\* observe_lifecycle: a sidecar of another generation is an error too, and an
\* error leaves no identity.
Observed(id) ==
  IF Genuine(id) /\ (sidecar[id.chart] = NoSeed \/ Saved(id)) THEN id ELSE NoSeed

\* _require_localization_identity
Localizing ==
  /\ store_identity # NoSeed /\ Genuine(store_identity)
  /\ store_identity.mode = "localization"

\* Mutant of Aside: a sidecar of an equal seed is not worth an archive.
AsideUnlessRestored(m) ==
  IF sidecar[m] \in {NoSeed, last_publish} THEN archived ELSE archived \cup {sidecar[m]}

\* The archive once the sidecar of map m is copied or renamed aside.
Aside(m) == IF sidecar[m] = NoSeed THEN archived ELSE archived \cup {sidecar[m]}

-----------------------------------------------------------------------------
(* The mapping service and the operator                                      *)

SeedsInit ==
  /\ auto_restore \in BOOLEAN
  /\ artifact = [m \in Chart |-> 1]
  /\ \E m \in Chart : live = Identity(m, "localization", 1)
  /\ sample = live
  /\ sidecar = [m \in Chart |-> NoSeed] /\ archived = {}
  /\ store_identity = NoSeed /\ restore = NoSeed /\ requests = <<>>
  /\ pose_in = NoSeed /\ last_publish = NoSeed /\ auto_done = NoSeed
  /\ given = {}

\* The service loads a map, or announces the generation it has saved.
Announce(m, mode) ==
  /\ live' = Identity(m, mode, artifact[m]) /\ live' # live
  /\ sample' = live'
  /\ UNCHANGED <<auto_restore, disk, pose_in, volatile, given>>

\* A mapping session saves its map anew.
SaveMap ==
  /\ live.mode = "mapping" /\ artifact[live.chart] < MaxGeneration
  /\ artifact' = [artifact EXCEPT ![live.chart] = @ + 1]
  /\ UNCHANGED <<auto_restore, sidecar, archived, bus, volatile, given>>

\* The operator places the robot on the map.
PlaceRobot(seed) ==
  /\ pose_in' = seed
  /\ UNCHANGED <<auto_restore, disk, live, sample, volatile, given>>

-----------------------------------------------------------------------------
(* The ROS executor                                                          *)

\* _publish_initial_pose; the publication comes back on the dashboard's own
\* subscription, which keeps one message.
Publish(file) ==
  /\ last_publish' = file
  /\ pose_in' = file.seed

\* _on_map_lifecycle
OnMapLifecycle ==
  /\ sample # NoSeed
  /\ sample' = NoSeed
  /\ store_identity' = Observed(sample)
  /\ IF /\ auto_restore /\ store_identity' # NoSeed /\ sample.mode = "localization"
        /\ Saved(sample) /\ auto_done # <<sample.chart, sample.generation>>
     THEN /\ Publish(sidecar[sample.chart])
          /\ auto_done' = <<sample.chart, sample.generation>>
     ELSE UNCHANGED <<last_publish, pose_in, auto_done>>
  /\ UNCHANGED <<auto_restore, disk, live, restore, requests, given>>

\* The signature of the last publication.
Echo == last_publish # NoSeed /\ pose_in = last_publish.seed

\* _on_initial_pose: the echo of a publication is dropped for two seconds.  Of
\* a save that fails, the archive copy may be what is left.
OnInitialPose ==
  /\ pose_in # NoSeed
  /\ pose_in' = NoSeed
  /\ IF Echo \/ ~Localizing
     THEN UNCHANGED <<disk, given>>
     ELSE LET m == store_identity.chart
              file == File(m, store_identity.generation, pose_in)
          IN  \/ /\ archived' = Aside(m)
                 /\ sidecar' = [sidecar EXCEPT ![m] = file]
                 /\ given' = given \cup {file}
                 /\ UNCHANGED artifact
              \/ archived' = Aside(m) /\ UNCHANGED <<artifact, sidecar, given>>
  /\ UNCHANGED <<auto_restore, live, sample, volatile>>

\* _drain_initial_pose_requests
Drain ==
  /\ requests # <<>>
  /\ Publish(Head(requests)) /\ requests' = Tail(requests)
  /\ UNCHANGED <<auto_restore, disk, live, sample, store_identity, restore, auto_done, given>>

\* Two seconds pass since the last publication.
EchoWindowEnds ==
  /\ last_publish # NoSeed /\ last_publish' = NoSeed
  /\ UNCHANGED <<auto_restore, disk, bus, store_identity, restore, requests, auto_done,
                 given>>

-----------------------------------------------------------------------------
(* The web server                                                            *)

\* request_initial_pose_restore: restore_pose confirms the map and generation
\* under the lock ...
ConfirmRestore(m, generation) ==
  /\ restore = NoSeed
  /\ Localizing /\ store_identity.chart = m /\ store_identity.generation = generation
  /\ Saved(store_identity)
  /\ restore' = sidecar[m]
  /\ UNCHANGED <<auto_restore, disk, bus, store_identity, requests, last_publish, auto_done,
                 given>>

\* ... and the pose is queued after it, if there is room.
QueueRestore ==
  /\ restore # NoSeed /\ restore' = NoSeed
  /\ requests' = IF Len(requests) < RestoreQueue THEN Append(requests, restore) ELSE requests
  /\ UNCHANGED <<auto_restore, disk, bus, store_identity, last_publish, auto_done, given>>

\* reset_initial_pose: the sidecar is renamed.
ResetSeed(m, generation) ==
  /\ restore = NoSeed
  /\ store_identity # NoSeed /\ Genuine(store_identity)
  /\ store_identity.chart = m /\ store_identity.generation = generation
  /\ sidecar[m] # NoSeed
  /\ archived' = Aside(m)
  /\ sidecar' = [sidecar EXCEPT ![m] = NoSeed]
  /\ UNCHANGED <<auto_restore, artifact, bus, volatile, given>>

\* The dashboard dies and is started again; the life cycle is latched.
Restart ==
  /\ store_identity' = NoSeed /\ restore' = NoSeed /\ requests' = <<>>
  /\ last_publish' = NoSeed /\ auto_done' = NoSeed
  /\ pose_in' = NoSeed /\ sample' = live
  /\ UNCHANGED <<auto_restore, disk, live, given>>

SeedsNext ==
  \/ \E m \in Chart, mode \in {"mapping", "localization"} : Announce(m, mode)
  \/ SaveMap \/ OnMapLifecycle \/ OnInitialPose \/ Drain \/ EchoWindowEnds
  \/ QueueRestore \/ Restart
  \/ \E seed \in Seed : PlaceRobot(seed)
  \/ \E m \in Chart, generation \in 1..MaxGeneration :
       ConfirmRestore(m, generation) \/ ResetSeed(m, generation)

SeedsSpec == SeedsInit /\ [][SeedsNext]_seed_vars

-----------------------------------------------------------------------------
(* Properties *)

SeedsTypeOK ==
  /\ auto_restore \in BOOLEAN
  /\ artifact \in [Chart -> 1..MaxGeneration]
  /\ sidecar \in [Chart -> Files \cup {NoSeed}] /\ archived \subseteq Files
  /\ live \in Identities /\ sample \in Identities \cup {NoSeed}
  /\ store_identity \in Identities \cup {NoSeed}
  /\ restore \in Files \cup {NoSeed} /\ requests \in Seq(Files)
  /\ pose_in \in Seed \cup {NoSeed} /\ last_publish \in Files \cup {NoSeed}
  /\ auto_done \in (Chart \X (1..MaxGeneration)) \cup {NoSeed}
  /\ given \subseteq Files

\* A seed that was saved is never lost: whatever is saved over it, reset, fails
\* half-way or dies, it is the active sidecar of its map or a file beside it
\* (CAPABILITY.md: "Existing sidecars are archived before replacement; reset is
\* a recoverable rename").
SeedsAreRecoverable ==
  given \subseteq archived \cup {sidecar[m] : m \in Chart}

=============================================================================
