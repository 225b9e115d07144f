---------------------------- MODULE NomotionLaunch ----------------------------
(* A no-motion session of the workstation: the script that starts the writer   *)
(* identity monitor, the timestamp process, the cloud relay and the stack one  *)
(* after the other, each once the one before is READY, watches them, and takes *)
(* everything down at its end.  The relay is CloudRelay; its parents move here.*)
(*                                                                             *)
(* A round of a waiting loop is one step: it reads the fault files and the     *)
(* processes before READY.  A deadline may pass at any round.  The timestamp   *)
(* process is reduced to its READY file, its fault file and its end.           *)
EXTENDS CloudRelay, Sequences

CONSTANT IdentitySamples   \* STABLE_DISCOVERY_SAMPLES

ASSUME LaunchAssumption == IdentitySamples \in Nat \ {0}

VARIABLES
  launch_step,   \* where the script is
  recorded,      \* the children whose PID the script holds
  terminated,    \* the children that were sent SIGTERM
  identity,       \* the identity monitor: writers, how often seen, bound writers
  container,     \* the navigation container of this session
  pointer,       \* the session is the registered one
  killed,        \* the script died without its cleanup
  unrecorded         \* history: the child forked in the moment a signal came

launch_own == <<launch_step, recorded, terminated, container, pointer, killed, unrecorded>>
launch_vars == <<cloud_vars, launch_own, identity>>
relay_own == <<rewritten, cloud_profile, cloud_faulted, cloud_gates, cloud_history>>

Children == {"identity", "stamp", "relay", "stack"}

\* stop_owned_children, in its order, the registration last.
TakeDown == <<"stack", "container", "relay", "stamp", "identity", "pointer">>

Fork(c) == [at |-> "fork", child |-> c]
Record(c) == [at |-> "record", child |-> c]
Wait(c) == [at |-> "wait", child |-> c]
Supervising == [at |-> "supervise", child |-> "none"]
Clean(n) == [at |-> "clean", child |-> TakeDown[n]]
Gone == [at |-> "gone", child |-> "none"]

InCleanup == launch_step.at = "clean"
CleaningUp(what) == InCleanup /\ launch_step.child = what

NoWriters == [seen |-> "none", stable |-> 0, bound |-> "none"]

LaunchTypeOK ==
  /\ CloudTypeOK
  /\ service_alive \subseteq Children /\ recorded \subseteq Children
  /\ ready_files \subseteq Children /\ fault_files \subseteq Children
  /\ terminated \subseteq Children
  /\ launch_step.at \in {"fork", "record", "wait", "boundary", "supervise", "clean", "gone"}
  /\ identity.stable \in 0..IdentitySamples
  /\ container \in {"none", "ours", "kept"}
  /\ pointer \in BOOLEAN /\ killed \in BOOLEAN /\ unrecorded \subseteq Children

\* The lock is held, the session registered, stale containers are gone.
LaunchInit ==
  /\ CloudInit
  /\ launch_step = Fork("identity")
  /\ recorded = {} /\ terminated = {} /\ identity = NoWriters
  /\ container = "none" /\ pointer = TRUE /\ killed = FALSE /\ unrecorded = {}

-----------------------------------------------------------------------------
(* The script *)

KeepsSession ==
  UNCHANGED <<relay_own, terminated, identity, container, pointer, killed, unrecorded>>

\* ( ... ) &
ForkChild ==
  /\ launch_step.at = "fork"
  /\ LET c == launch_step.child
     IN  /\ service_alive' = service_alive \cup {c}
         /\ launch_step' = Record(c)
         /\ cloud_step' = IF c = "relay" THEN "loading" ELSE cloud_step
         /\ container' = IF c = "stack" THEN "ours" ELSE container
  /\ UNCHANGED <<relay_own, status_files, cloud_stop, recorded, terminated, identity,
                 pointer, killed, unrecorded>>

\* X_PID=$!: a trap may run before this.
RecordChild ==
  /\ launch_step.at = "record"
  /\ recorded' = recorded \cup {launch_step.child}
  /\ launch_step' = IF launch_step.child = "stack" THEN Supervising
                    ELSE Wait(launch_step.child)
  /\ UNCHANGED <<service_alive, status_files, cloud_step, cloud_stop>> /\ KeepsSession

\* What is looked at while the script waits for a child.
Watched(c) ==
  CASE c = "identity" -> {"identity"}
    [] c = "stamp" -> {"identity", "stamp"}
    [] OTHER -> {"identity", "stamp", "relay"}

NextChild(c) ==
  CASE c = "identity" -> "stamp" [] c = "stamp" -> "relay" [] OTHER -> "stack"

Unhealthy(c) ==
  Watched(c) \cap fault_files # {} \/ ~(Watched(c) \subseteq service_alive)

Leave == launch_step' = Clean(1)

\* A round of a waiting loop: exit 7, READY, or another round.
WaitRound ==
  /\ launch_step.at = "wait"
  /\ LET c == launch_step.child
     IN  \/ Leave                                          \* the deadline
         \/ ~Unhealthy(c) /\ c \in ready_files
              /\ launch_step' = [at |-> "boundary", child |-> NextChild(c)]
  /\ UNCHANGED <<service_alive, status_files, cloud_step, cloud_stop, recorded>>
  /\ KeepsSession

\* The fault files that are read once more before the next child.
FinalLook(c) ==
  CASE c = "relay" -> {"stamp", "identity"} [] c = "stack" -> {"relay"} [] OTHER -> {}

Boundary ==
  /\ launch_step.at = "boundary"
  /\ IF FinalLook(launch_step.child) \cap fault_files # {} THEN Leave
     ELSE launch_step' = Fork(launch_step.child)
  /\ UNCHANGED <<service_alive, status_files, cloud_step, cloud_stop, recorded>>
  /\ KeepsSession

\* The relay's end is taken for that of all three services.
ForgetsServices(c) == recorded' = recorded \ {"identity", "stamp", c}

Forgets(c) == recorded' = recorded \ {c}

\* wait -n: the stack ends the session, a service leaves it degraded.
ReapChild(c) ==
  /\ launch_step.at = "supervise"
  /\ c \in recorded /\ c \notin service_alive
  /\ \/ c = "stack" /\ Leave /\ UNCHANGED recorded
     \/ c # "stack" /\ Forgets(c) /\ UNCHANGED launch_step
  /\ UNCHANGED <<service_alive, status_files, cloud_step, cloud_stop>> /\ KeepsSession

\* on_signal; the traps are reset, and a second signal ends the script.
TakeSignal ==
  /\ launch_step # Gone
  /\ \/ ~InCleanup /\ Leave /\ UNCHANGED killed
     \/ InCleanup /\ launch_step' = Gone /\ killed' = TRUE
  /\ unrecorded' = IF launch_step.at = "record" THEN {launch_step.child} ELSE unrecorded
  /\ UNCHANGED <<cloud_vars, recorded, terminated, identity, container, pointer>>

\* SIGKILL
KillLaunch ==
  /\ launch_step # Gone /\ launch_step' = Gone /\ killed' = TRUE
  /\ UNCHANGED <<cloud_vars, recorded, terminated, identity, container, pointer, unrecorded>>

Index(what) == CHOOSE n \in 1..Len(TakeDown) : TakeDown[n] = what
CleanNext ==
  launch_step' = IF launch_step.child = "pointer" THEN Gone
                 ELSE Clean(Index(launch_step.child) + 1)

\* stop_owned_children: TERM, and wait for the end.
TerminateChild(c) ==
  /\ CleaningUp(c) /\ c \in recorded \cap service_alive /\ c \notin terminated
  /\ terminated' = terminated \cup {c}
  /\ cloud_stop' = (cloud_stop \/ c = "relay")
  /\ UNCHANGED <<relay_own, service_alive, status_files, cloud_step, launch_step,
                 recorded, identity, container, pointer, killed, unrecorded>>

CleanedChild(c) ==
  /\ CleaningUp(c) /\ ~(c \in recorded /\ c \in service_alive)
  /\ CleanNext
  /\ UNCHANGED <<service_alive, status_files, cloud_step, cloud_stop, recorded>>
  /\ KeepsSession

\* cleanup_nomotion_nav2_container: the exact container goes, or it is kept and
\* the status says so.
CleanContainer ==
  /\ CleaningUp("container")
  /\ \/ container' = "none"
     \/ container = "ours" /\ container' = "kept"
  /\ CleanNext
  /\ UNCHANGED <<relay_own, service_alive, status_files, cloud_step, cloud_stop, recorded,
                 terminated, identity, pointer, killed, unrecorded>>

\* A registration that cannot be removed stays; its failure is not told.
CleanPointer ==
  /\ CleaningUp("pointer") /\ pointer' \in {pointer, FALSE} /\ CleanNext
  /\ UNCHANGED <<relay_own, service_alive, status_files, cloud_step, cloud_stop, recorded,
                 terminated, identity, container, killed, unrecorded>>

-----------------------------------------------------------------------------
(* The children *)

KeepsScript == UNCHANGED launch_own

\* A child ends: TERM, its own end, or a crash.
ChildEnds(c) ==
  /\ c \in service_alive /\ service_alive' = service_alive \ {c}
  /\ \/ c = "relay" /\ RelayIsGone /\ UNCHANGED <<cloud_profile, cloud_faulted, late_clouds>>
     \/ c # "relay" /\ UNCHANGED <<cloud_step, relay_own>>
  /\ UNCHANGED <<status_files, cloud_stop, identity>> /\ KeepsScript

\* A parent latches its fault: the file is best effort, the process ends.
ParentFaults(c) ==
  /\ c \in service_alive \cap Parents
  /\ fault_files' \in {fault_files, fault_files \cup {c}}
  /\ service_alive' = service_alive \ {c}
  /\ UNCHANGED <<ready_files, cloud_step, cloud_stop, relay_own, identity>> /\ KeepsScript

\* The fault file is there before the process has ended.
ParentFaultShows(c) ==
  /\ c \in service_alive \cap Parents /\ c \notin fault_files
  /\ fault_files' = fault_files \cup {c}
  /\ UNCHANGED <<service_alive, ready_files, cloud_step, cloud_stop, relay_own, identity>>
  /\ KeepsScript

\* The timestamp process has locked its model.
StampLocks ==
  /\ "stamp" \in service_alive \ (ready_files \cup fault_files)
  /\ ready_files' = ready_files \cup {"stamp"}
  /\ UNCHANGED <<service_alive, fault_files, cloud_step, cloud_stop, relay_own, identity>>
  /\ KeepsScript

\* IdentityMonitor._check on one graph: a complete set of writers, none, or
\* one that cannot be taken.
Graphs == {"first", "second", "absent", "conflict"}
CheckIdentity(graph) ==
  /\ "identity" \in service_alive \ fault_files
  /\ LET complete == graph \in {"first", "second"}
         ready == identity.bound # "none"
         count == IF graph = identity.seen THEN identity.stable + 1 ELSE 1
     IN  \/ /\ ~ready /\ complete /\ count < IdentitySamples
            /\ identity' = [identity EXCEPT !.seen = graph, !.stable = count]
            /\ UNCHANGED ready_files
         \/ /\ ~ready /\ complete /\ count = IdentitySamples
            /\ identity' = [seen |-> graph, stable |-> count, bound |-> graph]
            /\ ready_files' = ready_files \cup {"identity"}
         \/ /\ ~complete /\ (ready => graph = "absent")
            /\ identity' = [identity EXCEPT !.seen = "none", !.stable = 0]
            /\ UNCHANGED ready_files
         \/ ready /\ graph = identity.bound /\ UNCHANGED <<identity, ready_files>>
  /\ UNCHANGED <<service_alive, fault_files, cloud_step, cloud_stop, relay_own>>
  /\ KeepsScript

\* The relay's steps, and what happens to the files it is bound to.
CloudStep ==
  /\ CloudRelayStep \/ ContractChanges
  /\ UNCHANGED identity /\ KeepsScript

\* Nothing runs and nobody will start anything.
SessionOver ==
  launch_step = Gone /\ service_alive = {} /\ UNCHANGED launch_vars

LaunchNext ==
  \/ ForkChild \/ RecordChild \/ WaitRound \/ Boundary \/ TakeSignal \/ KillLaunch
  \/ CleanContainer \/ CleanPointer \/ StampLocks \/ CloudStep \/ SessionOver
  \/ \E c \in Children :
       \/ ReapChild(c) \/ TerminateChild(c) \/ CleanedChild(c)
       \/ ChildEnds(c) \/ ParentFaults(c) \/ ParentFaultShows(c)
  \/ \E graph \in Graphs : CheckIdentity(graph)

LaunchSpec == LaunchInit /\ [][LaunchNext]_launch_vars

-----------------------------------------------------------------------------
(* Properties *)

\* When the script has ended by its own cleanup, or the session is no longer
\* registered, no child of it runs, whatever ended before and however the script
\* did.  Only a child forked in the moment a signal comes is not known to the
\* cleanup.  (The registration itself may stay: its removal may fail.)
NothingIsLeft ==
  (launch_step = Gone /\ ~killed) \/ ~pointer => service_alive \subseteq unrecorded

=============================================================================
