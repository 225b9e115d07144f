---------------------------- MODULE TrackLifecycle ----------------------------
(***************************************************************************)
(* The lifecycle provider of RobotTrack, go2_robottrack/provider.py: an    *)
(* activation, a deactivation or shutdown, and the threads that run the    *)
(* ROS node, each between any two steps of the others.  A runtime goes     *)
(* from starting to running (ready_event), exited (exited_event), settled  *)
(* (its finalizer has had the lock) and dead.                              *)
(***************************************************************************)
EXTENDS Naturals, FiniteSets

CONSTANTS
  Runtime,        \* the threads that may be started
  NoRuntime

ASSUME LifecycleAssumption == NoRuntime \notin Runtime

VARIABLES
  active,         \* _active
  following,      \* the _active of FollowDistanceRuntime
  handle,         \* _runtime_thread and _runtime_exited
  stage, told,    \* the threads, and their stop_event
  broken,         \* errors of a runner
  activation, starting,   \* the handler of activate and the thread it has made
  stop, stopping_it       \* _stop_runtime and the thread it has read

runtime_vars == <<stage, told, broken>>
activation_vars == <<activation, starting>>
stop_vars == <<stop, stopping_it>>
lifecycle_vars ==
  <<active, following, handle, runtime_vars, activation_vars, stop_vars>>

Alive(t) == stage[t] \notin {"new", "dead"}

Enter(t, s) == stage' = [stage EXCEPT ![t] = s]

-----------------------------------------------------------------------------
(* activate *)

ByActivation == UNCHANGED <<told, broken, stop_vars>>

\* The handle is a reservation before the thread is started.
ReserveTrack ==
  /\ activation = "idle"
  /\ ~active /\ handle = NoRuntime
  /\ \E t \in Runtime :
       /\ stage[t] = "new"
       /\ handle' = t /\ starting' = t
  /\ activation' = "reserved"
  /\ ByActivation /\ UNCHANGED <<active, following, stage>>

Launch ==
  /\ activation = "reserved"
  /\ \/ activation' = "waiting" /\ Enter(starting, "starting")
     \/ activation' = "abandoned" /\ UNCHANGED stage
  /\ ByActivation /\ UNCHANGED <<active, following, handle, starting>>

\* ready_event, or 5 s without it.
Ready ==
  /\ activation = "waiting"
  /\ \/ stage[starting] # "starting" /\ activation' = "ready" /\ UNCHANGED told
     \/ stage[starting] = "starting" /\ activation' = "joining"
        /\ told' = [told EXCEPT ![starting] = TRUE]
  /\ UNCHANGED <<active, following, handle, stage, broken, starting, stop_vars>>

\* Mutant of Commit: a live thread is enough.
CommitIfAlive ==
  /\ activation = "ready"
  /\ IF handle = starting /\ ~broken[starting] /\ Alive(starting)
     THEN /\ active' = TRUE /\ following' = TRUE /\ activation' = "idle"
          /\ UNCHANGED told
     ELSE /\ active' = (active /\ handle # starting)
          /\ following' = (following /\ handle # starting)
          /\ activation' = "joining"
          /\ told' = [told EXCEPT ![starting] = TRUE]
  /\ UNCHANGED <<handle, stage, broken, starting, stop_vars>>

\* Under the lock: own the runtime, no errors, not exited.
Commit ==
  /\ activation = "ready"
  /\ IF handle = starting /\ ~broken[starting] /\ stage[starting] = "running"
     THEN /\ active' = TRUE /\ following' = TRUE /\ activation' = "idle"
          /\ UNCHANGED told
     ELSE /\ active' = (active /\ handle # starting)
          /\ following' = (following /\ handle # starting)
          /\ activation' = "joining"
          /\ told' = [told EXCEPT ![starting] = TRUE]
  /\ UNCHANGED <<handle, stage, broken, starting, stop_vars>>

\* The join of 1 s, or the thread that could not be started.
GiveUp ==
  /\ activation \in {"joining", "abandoned"}
  /\ activation' = "idle"
  /\ handle' = IF ~Alive(starting) /\ handle = starting THEN NoRuntime ELSE handle
  /\ ByActivation /\ UNCHANGED <<active, following, stage, starting>>

-----------------------------------------------------------------------------
(* _ros_runner_entry *)

ByRuntime == UNCHANGED <<handle, told, activation_vars, stop_vars>>

\* The node is up, or its start fails, which sets ready_event as well.
RunRuntime(t) ==
  /\ stage[t] = "starting"
  /\ Enter(t, "running")
  /\ broken' \in {broken, [broken EXCEPT ![t] = TRUE]}
  /\ ByRuntime /\ UNCHANGED <<active, following>>

\* The runner returns: told to, broken, or of its own accord.
Exit(t) ==
  /\ stage[t] = "running"
  /\ Enter(t, "exited")
  /\ ByRuntime /\ UNCHANGED <<active, following, broken>>

Finalize(t) ==
  /\ stage[t] = "exited"
  /\ Enter(t, "settled")
  /\ active' = (active /\ handle # t)
  /\ following' = (following /\ handle # t)
  /\ ByRuntime /\ UNCHANGED broken

Die(t) ==
  /\ stage[t] = "settled"
  /\ Enter(t, "dead")
  /\ ByRuntime /\ UNCHANGED <<active, following, broken>>

-----------------------------------------------------------------------------
(* _stop_runtime *)

ByStop == UNCHANGED <<stage, broken, activation_vars>>

BeginStop ==
  /\ stop = "idle"
  /\ stop' = "begun"
  /\ stopping_it' = handle
  /\ active' = FALSE
  /\ ByStop /\ UNCHANGED <<following, handle, told>>

TellRuntime ==
  /\ stop = "begun"
  /\ stop' = "joining"
  /\ following' = FALSE
  /\ told' = [t \in Runtime |-> told[t] \/ t = stopping_it]
  /\ ByStop /\ UNCHANGED <<active, handle, stopping_it>>

\* The join of 4 s: the handle is kept when it times out, and when the thread
\* has not been started, which join refuses.
EndStop ==
  /\ stop = "joining"
  /\ stop' = "idle"
  /\ handle' = IF handle = stopping_it /\ stopping_it # NoRuntime => stage[stopping_it] # "dead"
               THEN handle ELSE NoRuntime
  /\ ByStop /\ UNCHANGED <<active, following, told, stopping_it>>

-----------------------------------------------------------------------------

LifecycleInit ==
  /\ active = FALSE /\ following = FALSE /\ handle = NoRuntime
  /\ stage = [t \in Runtime |-> "new"]
  /\ told = [t \in Runtime |-> FALSE] /\ broken = [t \in Runtime |-> FALSE]
  /\ activation = "idle" /\ starting = NoRuntime
  /\ stop = "idle" /\ stopping_it = NoRuntime

LifecycleNext ==
  \/ ReserveTrack \/ Launch \/ Ready \/ Commit \/ GiveUp
  \/ \E t \in Runtime : RunRuntime(t) \/ Exit(t) \/ Finalize(t) \/ Die(t)
  \/ BeginStop \/ TellRuntime \/ EndStop

LifecycleSpec == LifecycleInit /\ [][LifecycleNext]_lifecycle_vars

-----------------------------------------------------------------------------
(* Properties *)

\* There is never a second set of ROS publishers, whatever timed out, and an
\* active provider has a runtime whose finalizer is still to come, so that an
\* exit the activation did not see is not lost.
RuntimeIsOwned ==
  /\ Cardinality({t \in Runtime : Alive(t)}) <= 1
  /\ active => handle # NoRuntime /\ stage[handle] \in {"running", "exited"}

=============================================================================
