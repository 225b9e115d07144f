-------------------------- MODULE SemanticNavigation --------------------------
(***************************************************************************)
(* The skill that turns a landmark name into one goal of the navigation    *)
(* service: packages/semantic_navigation/semantic_navigation, service.py   *)
(* with run_state.py (LifecycleBoundRunRegistry), map_lifecycle.py         *)
(* (LifecycleGuard, LifecycleAdmission) and cancel_policy.py.              *)
(*                                                                         *)
(* The skill is multi-threaded: tool calls (navigate, status, cancel), the *)
(* subscriber of the map's life cycle, a status monitor and a cancel       *)
(* worker per run, and the framework's activate and deactivate.  A step is *)
(* what one thread does under the service lock or the registry's lock, or  *)
(* one call to the navigation provider.  The provider is external: it may  *)
(* refuse, answer late, lose the answer, and forget a run.                 *)
(***************************************************************************)
EXTENDS Integers, FiniteSets

CONSTANTS
  Run,           \* semantic run ids, one for each call of navigate_landmark
  MaxBindings,   \* bound on the activations
  MaxRevision,   \* bound on the life cycle changes of one activation
  None           \* no holder of the service lock

ASSUME RunAssumption == None \notin Run /\ "executor" \notin Run

ASSUME BoundsAssumption == MaxBindings \in Nat /\ MaxRevision \in Nat

VARIABLES
  phase,       \* where activate / deactivate is
  binding,     \* number of the current guard and subscriber, 0 for none
  bindings,    \* number of bindings made so far
  accepting,   \* _accepting_goals
  halt,        \* the current _nav_monitor_stop event is set
  guard,       \* LifecycleGuard: what it says of the map, and its revision
  alive,       \* subscriber.is_alive
  notifying,   \* threads that changed the guard and have yet to run
               \* _on_lifecycle_transition
  lock,        \* the navigate call that holds _lock for validate and reserve
  nav,         \* nav[r]: where the call of navigate_landmark is
  admission,   \* admission[r]: LifecycleAdmission, binding and revision
  run,         \* run[r]: the registry's _Run
  monitor,     \* monitor[r]: the status monitor, or the answer it holds
  marked,      \* monitors whose stop event is set
  asker,       \* asker[r]: a landmark_status call, or the answer it holds
  canceller,   \* canceller[r]: the cancel worker
  caller,      \* caller[r]: a landmark_cancel call
  goal,        \* goal[r]: the truth about the goal, at the provider
  attempted    \* history: runs the provider was asked to cancel

lifecycle == <<phase, binding, bindings, accepting, halt>>
map == <<guard, alive, notifying>>
calls == <<lock, nav, admission>>
workers == <<monitor, marked, asker, canceller, caller>>
provider == <<goal, attempted>>
nav_vars == <<lifecycle, map, calls, run, workers, provider>>

-----------------------------------------------------------------------------
(* Data *)

\* What the provider reports of a run: "over" stands for the terminal states
\* SUCCEEDED, CANCELED and FAILED, "empty" for a run it knows and gives no state
\* of, "open" for every other state and for a run it does not know (UNKNOWN).
\* The state a caller is shown is FAILED once the run is invalidated, and the
\* provider's otherwise.
Report == {"open", "empty", "over"}

\* remote_state is kept as remote_terminal, all that the code decides by;
\* unstated is history: the run ended for the registry on an empty state.
NoRun == [registered |-> FALSE, attached |-> FALSE, invalidated |-> FALSE,
          cancel_started |-> FALSE, remote_terminal |-> FALSE, unstated |-> FALSE]

Reserved == [NoRun EXCEPT !.registered = TRUE]

Over(r) == run[r].remote_terminal

\* A run that keeps the single-flight latch closed.
Busy(r) == run[r].registered /\ ~Over(r)

\* Mutant of UpdateRemote: the last report counts, also over a terminal one.
UpdateRemoteToLast(u, report) ==
  [u EXCEPT !.remote_terminal = report \in {"empty", "over"},
            !.unstated = @ \/ (report = "empty" /\ ~u.remote_terminal)]

\* update_remote: provider-terminal evidence is never overwritten, and an empty
\* state is taken for FAILED, which is terminal.
UpdateRemote(u, report) ==
  [u EXCEPT !.remote_terminal = @ \/ report \in {"empty", "over"},
            !.unstated = @ \/ (report = "empty" /\ ~u.remote_terminal)]

\* What GetNavigationStatus may answer about run r.  Before a run is attached the
\* provider is asked about the empty id, and is taken to know no such run.
Answer(r) ==
  {"open"} \cup (IF run[r].attached THEN {"empty"} ELSE {})
    \cup (IF run[r].attached /\ goal[r] = "over" THEN {"over"} ELSE {})

-----------------------------------------------------------------------------
(* The registry's invalidate_nonterminal, with the cancel workers it starts *)

Claimed(r) == Busy(r) /\ run[r].attached /\ ~run[r].cancel_started

InvalidateRuns ==
  /\ run' = [r \in Run |->
               IF Busy(r)
               THEN [run[r] EXCEPT !.invalidated = TRUE,
                                   !.cancel_started = @ \/ run[r].attached]
               ELSE run[r]]
  /\ canceller' = [r \in Run |-> IF Claimed(r) THEN "status" ELSE canceller[r]]

-----------------------------------------------------------------------------
(* The map's life cycle.  "ready" is the expected map, generation and mode;  *)
(* "other" any other valid sample; "none" no sample or an error.             *)

\* The guard takes a new state on behalf of a thread.  Only the first sample
\* after none brings no notification.
ChangeGuard(state, thread) ==
  /\ guard.revision < MaxRevision
  /\ guard' = [state |-> state, revision |-> guard.revision + 1]
  /\ notifying' = IF guard.state = "none" /\ state # "none"
                  THEN notifying ELSE notifying \cup {thread}

\* A sample that differs from the last one.
Observe ==
  /\ alive /\ "executor" \notin notifying
  /\ \E state \in {"ready", "other"} :
       /\ state = "ready" => guard.state # "ready"
       /\ ChangeGuard(state, "executor")
  /\ UNCHANGED <<lifecycle, alive, calls, run, workers, provider>>

\* A malformed sample, or the end of the subscriber's thread.
SubscriberFails ==
  /\ alive /\ "executor" \notin notifying
  /\ ChangeGuard("none", "executor")
  /\ alive' \in BOOLEAN
  /\ UNCHANGED <<lifecycle, calls, run, workers, provider>>

\* _on_lifecycle_transition, which takes the service lock.
Notify(thread) ==
  /\ thread \in notifying /\ lock = None
  /\ notifying' = notifying \ {thread}
  /\ InvalidateRuns
  /\ UNCHANGED <<lifecycle, guard, alive, calls, monitor, marked, asker, caller,
                 provider>>

-----------------------------------------------------------------------------
(* activate and deactivate *)

Activate ==
  /\ phase = "inactive" /\ bindings < MaxBindings /\ lock = None
  /\ phase' = "waiting"
  /\ bindings' = bindings + 1
  /\ binding' = bindings + 1
  /\ guard' = [state |-> "none", revision |-> 0]
  /\ alive' = TRUE
  /\ accepting' = FALSE
  /\ halt' = FALSE
  /\ UNCHANGED <<notifying, calls, run, workers, provider>>

\* activate's require_ready, and after a look at the mapping provider ...
FindReady ==
  /\ phase = "waiting" /\ guard.state = "ready"
  /\ phase' = "ready"
  /\ UNCHANGED <<binding, bindings, accepting, halt, map, calls, run, workers,
                 provider>>

\* ... the flag: the map may have changed again.
AcceptGoals ==
  /\ phase = "ready" /\ lock = None
  /\ phase' = "active"
  /\ accepting' = TRUE
  /\ UNCHANGED <<binding, bindings, halt, map, calls, run, workers, provider>>

\* _stop_lifecycle_binding, for a failed activation, a deactivation or a
\* shutdown: first the binding goes, under the lock, ...
StopBinding ==
  /\ phase \in {"waiting", "ready", "active", "inactive"} /\ lock = None
  /\ phase' = "unbound"
  /\ accepting' = FALSE
  /\ binding' = 0
  /\ UNCHANGED <<bindings, halt, map, calls, run, workers, provider>>

\* ... then the runs, ...
StopRuns ==
  /\ phase = "unbound"
  /\ phase' = "stopping"
  /\ InvalidateRuns
  /\ UNCHANGED <<binding, bindings, accepting, halt, map, calls, monitor, marked,
                 asker, caller, provider>>

\* ... then the subscriber is joined (in the time given it), ...
StopSubscriber ==
  /\ phase = "stopping" /\ "executor" \notin notifying
  /\ phase' = "draining"
  /\ alive' = FALSE
  /\ UNCHANGED <<binding, bindings, accepting, halt, guard, notifying, calls, run,
                 workers, provider>>

\* ... and after a bounded wait for dispatches and cancel workers, which may
\* time out, the monitors are told to stop.
StopMonitors ==
  /\ phase = "draining"
  /\ phase' = "inactive"
  /\ halt' = TRUE
  /\ marked' = {r \in Run : monitor[r] # "off"}
  /\ UNCHANGED <<binding, bindings, accepting, map, calls, run, monitor, asker,
                 canceller, caller, provider>>

-----------------------------------------------------------------------------
(* navigate_landmark.  Its first half takes no lock between its steps but    *)
(* the one around validate_current and reserve.                              *)

At(r, step) == nav[r] = step
Goto(r, step) == nav' = [nav EXCEPT ![r] = step]

OnItsMap(r) ==
  /\ admission[r].binding = binding
  /\ guard = [state |-> "ready", revision |-> admission[r].revision]

\* _require_lifecycle_ready finds the subscriber dead and fails its guard.
FailGuard(r) == ~alive /\ ChangeGuard("none", r)

\* _require_lifecycle_ready.  The call may always end here: the name is no
\* landmark, or the mapping provider is not live.
Admit(r) ==
  /\ At(r, "new") /\ lock = None
  /\ \/ /\ accepting /\ alive /\ guard.state = "ready"
        /\ Goto(r, "admitted")
        /\ admission' = [admission EXCEPT
             ![r] = [binding |-> binding, revision |-> guard.revision]]
        /\ UNCHANGED <<guard, notifying>>
     \/ /\ Goto(r, "failed")
        /\ (accepting /\ FailGuard(r)) \/ UNCHANGED <<guard, notifying>>
        /\ UNCHANGED admission
  /\ UNCHANGED <<lifecycle, alive, lock, run, workers, provider>>

\* Mutant of Validate: the map is compared, not its revision.
ValidateState(r) ==
  /\ At(r, "admitted") /\ lock = None
  /\ IF accepting /\ alive /\ guard.state = "ready"
     THEN Goto(r, "validated") /\ lock' = r
     ELSE Goto(r, "failed") /\ UNCHANGED lock
  /\ UNCHANGED <<lifecycle, map, admission, run, workers, provider>>

\* validate_current, which leaves the lock held.
Validate(r) ==
  /\ At(r, "admitted") /\ lock = None
  /\ IF accepting /\ alive /\ OnItsMap(r)
     THEN Goto(r, "validated") /\ lock' = r
     ELSE Goto(r, "failed") /\ UNCHANGED lock
  /\ UNCHANGED <<lifecycle, map, admission, run, workers, provider>>

\* reserve, and with the lock released _call_navigate: from here on the request
\* is on its way to the provider, or lost.
Reserve(r) ==
  /\ At(r, "validated")
  /\ lock' = None
  /\ IF \E s \in Run : Busy(s)
     THEN Goto(r, "failed") /\ UNCHANGED <<run, goal>>
     ELSE /\ Goto(r, "calling")
          /\ run' = [run EXCEPT ![r] = Reserved]
          /\ goal' = [goal EXCEPT ![r] = "requested"]
  /\ UNCHANGED <<lifecycle, map, admission, workers, attempted>>

\* Mutant of NavigateFails: a call that failed is taken for a refusal.
NavigateFailsCleanly(r) ==
  /\ At(r, "calling")
  /\ Goto(r, "failed")
  /\ run' = [run EXCEPT ![r] = NoRun]
  /\ UNCHANGED <<lifecycle, map, lock, admission, workers, provider>>

\* The call failed, timed out, or brought no run id: the goal may be there.
NavigateFails(r) ==
  /\ At(r, "calling")
  /\ Goto(r, "failed")
  /\ run' = [run EXCEPT ![r] = UpdateRemote(@, "open")]
  /\ UNCHANGED <<lifecycle, map, lock, admission, workers, provider>>

NavigateRefused(r) ==
  /\ At(r, "calling") /\ goal[r] = "refused"
  /\ Goto(r, "failed")
  /\ run' = [run EXCEPT ![r] = NoRun]
  /\ UNCHANGED <<lifecycle, map, lock, admission, workers, provider>>

\* Mutant of AttachNavigation: an id that comes late is not cancelled.
AttachOnly(r) ==
  /\ At(r, "calling") /\ goal[r] \in {"active", "over"}
  /\ Goto(r, "attached")
  /\ run' = [run EXCEPT ![r].attached = TRUE,
                        ![r].remote_terminal = FALSE]
  /\ UNCHANGED <<lifecycle, map, lock, admission, monitor, marked, asker,
                 canceller, caller, provider>>

\* attach_navigation: a run invalidated meanwhile gets its cancel worker now.
AttachNavigation(r) ==
  /\ At(r, "calling") /\ goal[r] \in {"active", "over"}
  /\ run' = [run EXCEPT ![r].attached = TRUE,
                        ![r].remote_terminal = FALSE,
                        ![r].cancel_started = run[r].invalidated]
  /\ IF run[r].invalidated
     THEN /\ canceller' = [canceller EXCEPT ![r] = "status"]
          /\ Goto(r, "accepted")
     ELSE Goto(r, "attached") /\ UNCHANGED canceller
  /\ UNCHANGED <<lifecycle, map, lock, admission, monitor, marked, asker, caller,
                 provider>>

\* The second _require_lifecycle_ready.  An error that is not a
\* LifecycleBindingError leaves the call without a monitor.
Recheck(r) ==
  /\ At(r, "attached") /\ lock = None
  /\ \/ /\ accepting /\ alive /\ guard.state = "ready"
        /\ guard.revision = admission[r].revision
        /\ Goto(r, "accepted")
        /\ UNCHANGED <<guard, notifying, run, canceller>>
     \/ /\ Goto(r, "accepted")
        /\ InvalidateRuns
        /\ (accepting /\ FailGuard(r)) \/ UNCHANGED <<guard, notifying>>
     \/ Goto(r, "failed") /\ UNCHANGED <<guard, notifying, run, canceller>>
  /\ UNCHANGED <<lifecycle, alive, lock, admission, monitor, marked, asker,
                 caller, provider>>

\* _schedule_navigation_monitor, with the current stop event.
ScheduleMonitor(r) ==
  /\ At(r, "accepted")
  /\ Goto(r, "done")
  /\ monitor' = [monitor EXCEPT ![r] = "idle"]
  /\ marked' = IF halt THEN marked \cup {r} ELSE marked \ {r}
  /\ UNCHANGED <<lifecycle, map, lock, admission, run, asker, canceller, caller,
                 provider>>

-----------------------------------------------------------------------------
(* Status: the monitor of a run, and landmark_status.  An answer is held     *)
(* between the call's return and the registry's update.                      *)

\* One pass of _monitor_navigation_status, up to the answer.  A failed call
\* changes nothing.
MonitorAsks(r) ==
  /\ monitor[r] = "idle"
  /\ IF r \in marked \/ Over(r)
     THEN /\ monitor' = [monitor EXCEPT ![r] = "off"]
          /\ marked' = marked \ {r}
     ELSE /\ \E report \in Answer(r) : monitor' = [monitor EXCEPT ![r] = report]
          /\ UNCHANGED marked
  /\ UNCHANGED <<lifecycle, map, calls, run, asker, canceller, caller, provider>>

MonitorReports(r) ==
  /\ monitor[r] \notin {"off", "idle"}
  /\ run' = [run EXCEPT ![r] = UpdateRemote(@, monitor[r])]
  /\ monitor' = [monitor EXCEPT ![r] = "idle"]
  /\ UNCHANGED <<lifecycle, map, calls, marked, asker, canceller, caller, provider>>

AskStatus(r) ==
  /\ asker[r] = "off" /\ Busy(r)
  /\ \E report \in Answer(r) : asker' = [asker EXCEPT ![r] = report]
  /\ UNCHANGED <<lifecycle, map, calls, run, monitor, marked, canceller, caller,
                 provider>>

\* The run may have been removed meanwhile.
ReportStatus(r) ==
  /\ asker[r] # "off"
  /\ run' = [run EXCEPT ![r] = IF @.registered THEN UpdateRemote(@, asker[r])
                                ELSE @]
  /\ asker' = [asker EXCEPT ![r] = "off"]
  /\ UNCHANGED <<lifecycle, map, calls, monitor, marked, canceller, caller,
                 provider>>

-----------------------------------------------------------------------------
(* Cancelling: landmark_cancel, and the worker around cancel_until_terminal. *)

\* landmark_cancel looks at a snapshot ...
AskCancel(r) ==
  /\ caller[r] = "off"
  /\ Busy(r) /\ run[r].attached /\ ~run[r].cancel_started
  /\ caller' = [caller EXCEPT ![r] = "claiming"]
  /\ UNCHANGED <<lifecycle, map, calls, run, monitor, marked, asker, canceller,
                 provider>>

\* ... then claims the cancellation, ...
ClaimCancel(r) ==
  /\ caller[r] = "claiming"
  /\ IF run[r].cancel_started
     THEN caller' = [caller EXCEPT ![r] = "off"] /\ UNCHANGED run
     ELSE /\ run' = [run EXCEPT ![r].cancel_started = TRUE]
          /\ caller' = [caller EXCEPT ![r] = "calling"]
  /\ UNCHANGED <<lifecycle, map, calls, monitor, marked, asker, canceller, provider>>

\* ... makes the call, and whatever came of it starts a worker.
CallCancel(r) ==
  /\ caller[r] = "calling"
  /\ caller' = [caller EXCEPT ![r] = "off"]
  /\ canceller' = [canceller EXCEPT ![r] = "status"]
  /\ attempted' = attempted \cup {r}
  /\ UNCHANGED <<lifecycle, map, calls, run, monitor, marked, asker, goal>>

\* The worker asks first: a confirmed end is all that ends it, and an empty state
\* is none for cancel_until_terminal.
CancellerAsks(r) ==
  /\ canceller[r] = "status"
  /\ \E report \in Answer(r) :
       canceller' = [canceller EXCEPT
         ![r] = IF report = "over" THEN "over" ELSE "cancel"]
  /\ UNCHANGED <<lifecycle, map, calls, run, monitor, marked, asker, caller,
                 provider>>

\* Then it cancels, and goes on until its window is over.
CancellerCancels(r) ==
  /\ canceller[r] = "cancel"
  /\ attempted' = attempted \cup {r}
  /\ \E step \in {"status", "expired"} :
       canceller' = [canceller EXCEPT ![r] = step]
  /\ UNCHANGED <<lifecycle, map, calls, run, monitor, marked, asker, caller, goal>>

\* _cancel_run_until_terminal, the outcome: the claim is kept when the end of
\* the run is confirmed, by this worker or by another one, ...
Conclude(r) ==
  /\ canceller[r] \in {"over", "expired"}
  /\ run' = [run EXCEPT ![r] = UpdateRemote(@, canceller[r])]
  /\ canceller' = [canceller EXCEPT
       ![r] = IF canceller[r] = "over" \/ Over(r) THEN "keep" ELSE "reopen"]
  /\ UNCHANGED <<lifecycle, map, calls, monitor, marked, asker, caller, provider>>

\* ... and opened again when it is not.
MarkCancelResult(r) ==
  /\ canceller[r] \in {"keep", "reopen"}
  /\ run' = [run EXCEPT ![r].cancel_started = (canceller[r] = "keep")]
  /\ canceller' = [canceller EXCEPT ![r] = "off"]
  /\ UNCHANGED <<lifecycle, map, calls, monitor, marked, asker, caller, provider>>

-----------------------------------------------------------------------------
(* The navigation provider *)

ProviderDecides(r) ==
  /\ goal[r] = "requested"
  /\ \E answer \in {"active", "refused"} : goal' = [goal EXCEPT ![r] = answer]
  /\ UNCHANGED <<lifecycle, map, calls, run, workers, attempted>>

\* A goal is reached, aborted or canceled, at the provider's own time.
ProviderEnds(r) ==
  /\ goal[r] = "active"
  /\ goal' = [goal EXCEPT ![r] = "over"]
  /\ UNCHANGED <<lifecycle, map, calls, run, workers, attempted>>

-----------------------------------------------------------------------------

NavInit ==
  /\ phase = "inactive" /\ binding = 0 /\ bindings = 0
  /\ accepting = FALSE /\ halt = FALSE
  /\ guard = [state |-> "none", revision |-> 0]
  /\ alive = FALSE /\ notifying = {}
  /\ lock = None
  /\ nav = [r \in Run |-> "new"]
  /\ admission = [r \in Run |-> [binding |-> 0, revision |-> 0]]
  /\ run = [r \in Run |-> NoRun]
  /\ monitor = [r \in Run |-> "off"] /\ marked = {}
  /\ asker = [r \in Run |-> "off"]
  /\ canceller = [r \in Run |-> "off"]
  /\ caller = [r \in Run |-> "off"]
  /\ goal = [r \in Run |-> "none"]
  /\ attempted = {}

Lifecycle ==
  \/ Activate \/ FindReady \/ AcceptGoals
  \/ StopBinding \/ StopRuns \/ StopSubscriber \/ StopMonitors

Map ==
  \/ Observe \/ SubscriberFails
  \/ \E thread \in Run \cup {"executor"} : Notify(thread)

Navigate(r) ==
  \/ Admit(r) \/ Validate(r) \/ Reserve(r)
  \/ NavigateFails(r) \/ NavigateRefused(r) \/ AttachNavigation(r)
  \/ Recheck(r) \/ ScheduleMonitor(r)

Status(r) ==
  MonitorAsks(r) \/ MonitorReports(r) \/ AskStatus(r) \/ ReportStatus(r)

Canceller(r) ==
  \/ CancellerAsks(r) \/ CancellerCancels(r) \/ Conclude(r)
  \/ MarkCancelResult(r)

Cancel(r) == AskCancel(r) \/ ClaimCancel(r) \/ CallCancel(r) \/ Canceller(r)

Provider(r) == ProviderDecides(r) \/ ProviderEnds(r)

NavNext ==
  \/ Lifecycle
  \/ Map
  \/ \E r \in Run : Navigate(r) \/ Status(r) \/ Cancel(r) \/ Provider(r)

NavSpec == NavInit /\ [][NavNext]_nav_vars

\* Threads that are not waiting for anything run: those that notify, those in
\* the locked half of navigate_landmark, cancel workers, and a deactivation
\* once begun.  Every call to the provider has a deadline, so it returns; what
\* the provider answers, and when the map or the operator act, is free.
NavFairness ==
  /\ \A thread \in Run \cup {"executor"} : WF_nav_vars(Notify(thread))
  /\ WF_nav_vars(StopRuns \/ StopSubscriber \/ StopMonitors)
  /\ \A r \in Run : /\ WF_nav_vars(Reserve(r))
                     /\ WF_nav_vars(Canceller(r))
                     /\ WF_nav_vars(ClaimCancel(r) \/ CallCancel(r))

FairNavSpec == NavSpec /\ NavFairness

-----------------------------------------------------------------------------
(* Properties *)

\* Types of the registry, the guard and the threads.
NavTypeOK ==
  /\ phase \in {"inactive", "waiting", "ready", "active", "unbound", "stopping",
                "draining"}
  /\ binding \in 0..MaxBindings /\ bindings \in 0..MaxBindings
  /\ accepting \in BOOLEAN /\ halt \in BOOLEAN /\ alive \in BOOLEAN
  /\ guard \in [state: {"none", "ready", "other"}, revision: 0..MaxRevision]
  /\ notifying \subseteq Run \cup {"executor"}
  /\ lock \in Run \cup {None}
  /\ nav \in [Run -> {"new", "admitted", "validated", "calling", "attached",
                     "accepted", "done", "failed"}]
  /\ admission \in [Run -> [binding: 0..MaxBindings, revision: 0..MaxRevision]]
  /\ run \in [Run -> [registered: BOOLEAN, attached: BOOLEAN,
                      invalidated: BOOLEAN, cancel_started: BOOLEAN,
                      remote_terminal: BOOLEAN, unstated: BOOLEAN]]
  /\ monitor \in [Run -> {"off", "idle"} \cup Report]
  /\ asker \in [Run -> {"off"} \cup Report]
  /\ canceller \in [Run -> {"off", "status", "cancel", "expired", "keep",
                            "reopen", "over"}]
  /\ caller \in [Run -> {"off", "claiming", "calling"}]
  /\ goal \in [Run -> {"none", "requested", "refused", "active", "over"}]
  /\ marked \subseteq Run /\ attempted \subseteq Run

\* A goal the provider may be pursuing, now or when it gets the request.
Outstanding(r) == goal[r] \in {"requested", "active"}

\* packages/semantic_navigation/CAPABILITY.md: a later goal is rejected until the
\* provider itself reports SUCCEEDED, CANCELED or FAILED for the earlier run.  An
\* answer without a state is taken for FAILED, and the next goal is admitted.
SingleFlight ==
  \A r, s \in Run : Outstanding(r) /\ Outstanding(s) => r = s

\* Nothing but such an answer puts two goals at the provider: no call, poll or
\* cancellation that is lost, refused, late or invalidated before the second one.
OverlapNeedsEmptyState ==
  \A r, s \in Run :
    Outstanding(r) /\ Outstanding(s) /\ r # s => run[r].unstated \/ run[s].unstated

\* A run that is live for its caller stands on the map it was validated on:
\* any change of the map or of the binding since is about to invalidate it.
RunsAreOnTheirMap ==
  \A r \in Run :
    Busy(r) /\ ~run[r].invalidated
      => OnItsMap(r) \/ notifying # {} \/ phase = "unbound"

\* Once a deactivation has dealt with the runs, none is live, the ones that
\* were just being reserved included.
NoLiveRunWhenUnbound ==
  binding = 0 /\ phase # "unbound"
    => \A r \in Run : Busy(r) => run[r].invalidated

\* The claim of a cancellation is exclusive: whoever cancels a run holds it,
\* and there is never a second one at work.
CancelIsExclusive ==
  \A r \in Run :
    /\ canceller[r] # "off" \/ caller[r] = "calling" => run[r].cancel_started
    /\ canceller[r] = "off" \/ caller[r] # "calling"

\* The latch opens when the goal is over or was refused, or on an answer of the
\* provider that knows the run and gives no state; a slower poll closes it no more.
LatchOpensOnEvidence ==
  [][\A r \in Run :
       /\ Busy(r) /\ ~Busy(r)'
            => goal[r] \in {"over", "refused"} \/ run'[r].unstated
       /\ Over(r) => Over(r)']_nav_vars

\* A run the provider has acknowledged and whose map or binding is gone is
\* canceled, or its goal is over, or the provider gave no state for it.
LostMapCancels ==
  \A r \in Run :
    Busy(r) /\ run[r].attached /\ ~OnItsMap(r)
      ~> r \in attempted \/ goal[r] = "over" \/ run[r].unstated

=============================================================================
