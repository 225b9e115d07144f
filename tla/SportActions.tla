----------------------------- MODULE SportActions -----------------------------
(***************************************************************************)
(* The sport action runtime, packages/go2_sport_actions/runtime_service:   *)
(* ActionManager with its one worker (runtime.py), DaemonClient (ipc.py)   *)
(* and the daemon it starts (provider.py), a MotionSupervisor.             *)
(*                                                                         *)
(* The client numbers its commands and reads one reply per call.  After a  *)
(* timeout the reply stays in the socket, where the next call finds it and *)
(* refuses it for its number.  A run is named by its request_id.           *)
(***************************************************************************)
EXTENDS Integers, Sequences

CONSTANTS
  Request,        \* request_id
  Plans           \* PLANS: the steps of each action, see Step

\* The posture a step leaves the robot in; "same": in the one it was in.
Step == [op : {"Action", "Move", "Stop"}, posture : {"same", "up", "handstand", "crouched"}]

ASSUME SportAssumption ==
  /\ "none" \notin Request
  /\ \A name \in DOMAIN Plans : Plans[name] \in Seq(Step) /\ Plans[name] # <<>>

VARIABLES
  job,            \* _runs
  active_job,     \* _active_run_id
  at,             \* what the worker is doing
  step,           \* the step of the plan it is at
  calling,        \* it waits for a reply
  posture,        \* handstand_entered and crouched
  stop_ok, failed, cancelled,
  inbox, outbox,  \* the commands and replies in the worker's socket
  attached,       \* whose connection the daemon serves
  abandoned,      \* the unread commands of a connection that was closed
  process,        \* the daemon runs
  stopping,       \* shutdown of the provider
  arm_owner, mover, fault_latched,    \* the daemon
  stance          \* history: the last posture the run has got accepted

worker_vars == <<at, step, calling, posture, stop_ok, failed, cancelled>>
socket_vars == <<inbox, outbox, attached, abandoned>>
chassis == <<arm_owner, mover, fault_latched>>
sport_vars ==
  <<job, active_job, worker_vars, socket_vars, process, stopping, chassis, stance>>

Daemon == INSTANCE MotionSupervisor
             WITH Operator <- {"worker"}, Nothing <- "nobody",
                  owner <- arm_owner, driver <- mover, latched <- fault_latched

NoJob == [name |-> "none", state |-> "none", cancel |-> FALSE, stopped |-> FALSE]

EndStates == {"FAILED", "CANCELLED", "SDK_ACCEPTED"}

Plan == Plans[job[active_job].name]

Cancelled == job[active_job].cancel

-----------------------------------------------------------------------------
(* The service calls *)

ServiceOnly == UNCHANGED <<worker_vars, socket_vars, chassis, stance>>

\* execute, with _ensure_managed_daemon before it: a known request_id gets its
\* run again, another one a run of its own if there is none in progress.
Execute(r, name) ==
  /\ process' = TRUE
  /\ job[r] = NoJob /\ active_job = "none"
  /\ job' = [job EXCEPT ![r] = [NoJob EXCEPT !.name = name, !.state = "QUEUED"]]
  /\ active_job' = r
  /\ at' = "connecting" /\ step' = 1 /\ calling' = FALSE
  /\ posture' = "up" /\ stop_ok' = FALSE /\ failed' = FALSE /\ cancelled' = FALSE
  /\ stance' = "up"
  /\ UNCHANGED <<socket_vars, chassis, stopping>>

\* cancel and cancel_active: as long as the run is the active one.
CancelRequest(r) ==
  /\ active_job = r
  /\ job' = [job EXCEPT ![r].cancel = TRUE]
  /\ ServiceOnly /\ UNCHANGED <<active_job, process, stopping>>

\* ActionManager.shutdown waits three seconds at most, then the daemon goes.
Shutdown ==
  /\ ~stopping /\ stopping' = TRUE
  /\ job' = IF active_job = "none" THEN job
            ELSE [job EXCEPT ![active_job].cancel = TRUE]
  /\ ServiceOnly /\ UNCHANGED <<active_job, process>>

\* _stop_managed_daemon: SIGINT, and the daemon's own clean-up, which may fail
\* to stop the robot.
StopManagedDaemon ==
  /\ stopping /\ stopping' = FALSE
  /\ process' = FALSE
  /\ arm_owner' = "nobody" /\ fault_latched' = FALSE
  /\ mover' \in {"nobody", mover}
  /\ attached' = "nobody" /\ inbox' = <<>> /\ outbox' = <<>> /\ abandoned' = <<>>
  /\ UNCHANGED <<job, active_job, worker_vars, stance>>

-----------------------------------------------------------------------------
(* The worker *)

ByWorker == UNCHANGED <<active_job, process, stopping, chassis, stance>>

Goes(place) == at' = place /\ calling' = FALSE

\* The state of the run is written under the lock.
Reports(state) == job' = [job EXCEPT ![active_job].state = state]

ConnectSocket ==
  /\ at = "connecting"
  /\ \/ process /\ Goes("arm") /\ Reports("CONNECTING") /\ UNCHANGED failed
     \/ Goes("closed") /\ failed' = TRUE /\ UNCHANGED job
  /\ inbox' = <<>> /\ outbox' = <<>>
  /\ UNCHANGED <<attached, abandoned, step, posture, stop_ok, cancelled>>
  /\ ByWorker

Waiting == {"arm", "step", "hold", "stop", "exit", "standup", "disarm"}

Command ==
  CASE at = "arm" -> [op |-> "Arm", posture |-> "same"]
    [] at = "step" -> Plan[step]
    [] at = "hold" -> IF Plan[step].op = "Move" THEN Plan[step]
                      ELSE [op |-> "Ping", posture |-> "same"]
    [] at = "stop" -> [op |-> "Stop", posture |-> "same"]
    [] at \in {"exit", "standup"} -> [op |-> "Action", posture |-> "up"]
    [] at = "disarm" -> [op |-> "Disarm", posture |-> "same"]

\* A worker looks at the cancellation before each step and around each sleep.
CallDaemon ==
  /\ at \in Waiting /\ ~calling
  /\ at \in {"step", "hold"} => ~Cancelled
  /\ calling' = TRUE
  /\ inbox' = IF process THEN Append(inbox, Command) ELSE inbox
  /\ UNCHANGED <<outbox, attached, abandoned, at, step, posture, stop_ok, failed,
                 cancelled, job>>
  /\ ByWorker

NoticeCancel ==
  /\ at \in {"step", "hold"} /\ ~calling /\ Cancelled
  /\ cancelled' = TRUE
  /\ Goes("stop")
  /\ UNCHANGED <<socket_vars, step, posture, stop_ok, failed, job>>
  /\ ByWorker

\* The supervision window of the step is over.
EndHold ==
  /\ at = "hold" /\ ~calling
  /\ IF step < Len(Plan) THEN Goes("step") /\ step' = step + 1
     ELSE Goes("stop") /\ UNCHANGED step
  /\ UNCHANGED <<socket_vars, posture, stop_ok, failed, cancelled, job>>
  /\ ByWorker

\* Mutant of AfterCleanup: a posture is undone by its plan only.
AfterCleanupAtOnce(place) == IF place = "disarm" THEN "closing" ELSE "disarm"

\* Where the clean-up goes on after place, whether or not its call succeeded.
AfterCleanup(place) ==
  CASE place = "stop" /\ posture = "handstand" -> "exit"
    [] place = "stop" /\ posture = "crouched" -> "standup"
    [] place = "disarm" -> "closing"
    [] OTHER -> "disarm"

\* The call has returned, or raised.  STOP, the way out of the posture and
\* DISARM follow each other whatever became of them.
Return(ok) ==
  /\ calling
  /\ stop_ok' = (stop_ok \/ (at = "stop" /\ ok))
  /\ failed' = (failed \/ ~ok)
  /\ posture' = IF at = "step" /\ ok /\ Command.posture # "same" THEN Command.posture
                ELSE posture
  /\ CASE at = "arm" /\ ok -> Goes("step") /\ Reports("RUNNING")
       [] at \in {"step", "hold"} /\ ok -> Goes("hold") /\ UNCHANGED job
       [] at \in {"arm", "step", "hold"} /\ ~ok -> Goes("stop") /\ UNCHANGED job
       [] OTHER -> Goes(AfterCleanup(at)) /\ UNCHANGED job
  /\ UNCHANGED <<step, cancelled>>

\* A reply is the answer to this call if no other one is due after it.
ReadReply ==
  /\ outbox # <<>>
  /\ outbox' = Tail(outbox)
  /\ Return(Head(outbox) /\ Len(outbox) = 1 /\ inbox = <<>>)
  /\ UNCHANGED <<inbox, attached, abandoned>> /\ ByWorker

\* A timeout, or a peer that has gone.
CallFails ==
  /\ Return(FALSE)
  /\ UNCHANGED socket_vars /\ ByWorker

CloseSocket ==
  /\ at = "closing"
  /\ Goes("closed")
  /\ attached' = IF attached = "worker" THEN "gone" ELSE attached
  /\ abandoned' = IF attached = "worker" THEN inbox ELSE abandoned
  /\ inbox' = <<>> /\ outbox' = <<>>
  /\ UNCHANGED <<step, posture, stop_ok, failed, cancelled, job>>
  /\ ByWorker

EndRun ==
  /\ at = "closed"
  /\ job' = [job EXCEPT ![active_job].stopped = stop_ok,
                        ![active_job].state =
               IF failed THEN "FAILED" ELSE IF cancelled THEN "CANCELLED"
               ELSE "SDK_ACCEPTED"]
  /\ active_job' = "none"
  /\ at' = "idle" /\ step' = 1 /\ posture' = "up"
  /\ stop_ok' = FALSE /\ failed' = FALSE /\ cancelled' = FALSE
  /\ UNCHANGED <<calling, socket_vars, process, stopping, chassis, stance>>

-----------------------------------------------------------------------------
(* The daemon *)

ByDaemon == UNCHANGED <<job, active_job, worker_vars, process, stopping>>

AttachWorker ==
  /\ process /\ attached = "nobody" /\ at \in Waiting
  /\ attached' = "worker"
  /\ ByDaemon /\ UNCHANGED <<inbox, outbox, abandoned, chassis, stance>>

FailStop == Daemon!Fault /\ mover' \in {"nobody", mover}

\* What the command c does, and whether it is answered with kOk.
Perform(c, ok) ==
  CASE c.op = "Arm" ->
         IF ok THEN Daemon!Arm("worker") ELSE FailStop \/ UNCHANGED chassis
    [] c.op = "Disarm" -> IF ok THEN Daemon!Release ELSE FailStop
    [] c.op = "Stop" ->
         IF arm_owner = "nobody" THEN ~ok /\ UNCHANGED chassis
         ELSE IF ok THEN Daemon!Halt ELSE FailStop
    [] c.op \in {"Move", "Action"} ->
         IF arm_owner = "nobody" THEN ~ok /\ UNCHANGED chassis
         ELSE IF ok THEN Daemon!Drive("worker") ELSE Daemon!Fault
    [] c.op = "Ping" -> (ok <=> arm_owner # "nobody") /\ UNCHANGED chassis

HandleCommand ==
  /\ attached = "worker" /\ inbox # <<>>
  /\ \E ok \in BOOLEAN :
       /\ Perform(Head(inbox), ok)
       /\ outbox' = Append(outbox, ok)
       /\ stance' = IF ok /\ Head(inbox).posture # "same" THEN Head(inbox).posture
                    ELSE stance
  /\ inbox' = Tail(inbox)
  /\ ByDaemon /\ UNCHANGED <<attached, abandoned>>

\* A command that was read before the hang-up was seen; its reply is lost.
HandleAbandoned ==
  /\ attached = "gone" /\ abandoned # <<>>
  /\ \E ok \in BOOLEAN : Perform(Head(abandoned), ok)
  /\ abandoned' = Tail(abandoned)
  /\ ByDaemon /\ UNCHANGED <<inbox, outbox, attached, stance>>

DetachWorker ==
  /\ attached = "gone"
  /\ attached' = "nobody" /\ abandoned' = <<>>
  /\ Daemon!Disarm \/ FailStop
  /\ ByDaemon /\ UNCHANGED <<inbox, outbox, stance>>

Watchdog ==
  /\ arm_owner # "nobody" \/ (fault_latched /\ mover # "nobody")
  /\ IF arm_owner # "nobody" THEN FailStop ELSE Daemon!Halt
  /\ ByDaemon /\ UNCHANGED <<socket_vars, stance>>

-----------------------------------------------------------------------------

SportInit ==
  /\ job = [r \in Request |-> NoJob] /\ active_job = "none"
  /\ at = "idle" /\ step = 1 /\ calling = FALSE /\ posture = "up"
  /\ stop_ok = FALSE /\ failed = FALSE /\ cancelled = FALSE
  /\ inbox = <<>> /\ outbox = <<>> /\ attached = "nobody" /\ abandoned = <<>>
  /\ process = FALSE /\ stopping = FALSE
  /\ Daemon!Init
  /\ stance = "up"

Worker ==
  \/ ConnectSocket \/ CallDaemon \/ NoticeCancel \/ EndHold \/ ReadReply
  \/ CallFails \/ CloseSocket \/ EndRun

ChassisLoop ==
  \/ AttachWorker \/ HandleCommand \/ HandleAbandoned \/ DetachWorker \/ Watchdog

SportNext ==
  \/ \E r \in Request : (\E name \in DOMAIN Plans : Execute(r, name)) \/ CancelRequest(r)
  \/ Shutdown \/ StopManagedDaemon
  \/ Worker \/ ChassisLoop

SportSpec == SportInit /\ [][SportNext]_sport_vars

-----------------------------------------------------------------------------
(* Properties *)

\* A run that is reported as anything but FAILED has left the daemon disarmed,
\* the robot without a motion request, and every posture of its own undone: late
\* replies, a cancellation at any step, a watchdog or a fault in between would
\* have made it FAILED.
CleanEndIsSafe ==
  [][\A r \in Request :
       job[r].state \notin EndStates /\ job'[r].state \in EndStates \ {"FAILED"}
         => arm_owner = "nobody" /\ mover = "nobody" /\ stance = "up"]_sport_vars

=============================================================================
