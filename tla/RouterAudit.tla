----------------------------- MODULE RouterAudit -----------------------------
(* The audit of the router as the gateway of the workstation: the saved private *)
(* Wi-Fi profile is cloned into a temporary one that takes its default route    *)
(* from the router, the clone is activated and validated for a while, and then, *)
(* or when anything fails or a signal arrives, the clone is deleted and the     *)
(* campus network restored.                                                     *)
(*                                                                              *)
(* NetworkManager is the environment: a request is carried out, refused, or     *)
(* outlives the client that timed out on it and is completed later.  The clone  *)
(* is found by its UUID or, when the answer that told it was lost, by its name: *)
(* either way it is found exactly if it is there.  Addresses, routes, DNS and   *)
(* probes are one verdict, which is good only while the clone is up.            *)
EXTENDS Naturals

CONSTANTS
  AuditAttempts,     \* rounds of the rollback; 3
  AuditSteady,       \* valid samples in a row that prove the campus network; 4
  AuditSamples       \* samples of one round; 12

ASSUME AuditAssumption ==
  /\ AuditAttempts \in Nat \ {0}
  /\ AuditSteady \in Nat \ {0} /\ AuditSamples \in Nat /\ AuditSteady <= AuditSamples

VARIABLES
  audit,           \* the workflow
  audit_signal,    \* SignalLatch.pending
  nm,              \* the Wi-Fi connection, the clone, and requests that outlived their client
  altered          \* history: NetworkManager changed something since the last sample

router_vars == <<audit, audit_signal, nm, altered>>

-----------------------------------------------------------------------------
(* Requests to NetworkManager *)

\* What a request makes of the connection and the clone.
Performed(request) ==
  CASE request = "campus" -> [nm EXCEPT !.link = "campus", !.late_link = "none"]
    [] request = "up" -> [nm EXCEPT !.link = IF nm.clone THEN "audit" ELSE @,
                                    !.late_link = "none"]
    [] request = "down" -> [nm EXCEPT !.link = IF @ = "audit" THEN "none" ELSE @,
                                      !.late_link = "none"]
    [] request = "clone" -> [nm EXCEPT !.clone = TRUE, !.late_clone = "none"]
    [] request = "delete" -> [nm EXCEPT !.clone = FALSE, !.late_clone = "none",
                                        !.link = IF @ = "audit" THEN "none" ELSE @]

Outlived(request) ==
  IF request \in {"clone", "delete"} THEN [nm EXCEPT !.late_clone = request]
                                     ELSE [nm EXCEPT !.late_link = request]

Demand(request, how) ==
  nm' = CASE how = "done" -> Performed(request)
          [] how = "timed_out" -> Outlived(request)
          [] how = "failed" -> nm

Answers == {"done", "failed", "timed_out"}

-----------------------------------------------------------------------------
(* execute() *)

\* What leaves execute's try block; the rollback is armed before anything is
\* changed.
RaiseAudit(error) ==
  audit' = [audit EXCEPT !.error = error, !.step = "campus",
                         !.stage = IF audit.armed THEN "rollback" ELSE "main"]

\* Runner.run looks for a signal before and after its command.
Interrupted == audit_signal /\ RaiseAudit("interrupted") /\ UNCHANGED nm

\* The listeners, the saved profile, and who owns the host address.
ProfileVerdict == BOOLEAN

AuditPreflight ==
  /\ audit.stage = "preflight"
  /\ \/ Interrupted
     \/ ~audit_signal /\ (\E valid \in ProfileVerdict : ~valid /\ RaiseAudit("failed"))
          /\ UNCHANGED nm
     \/ /\ ~audit_signal
        /\ audit' = IF audit.mode = "execute"
                      THEN [audit EXCEPT !.stage = "execute", !.step = "list", !.armed = TRUE]
                      ELSE [audit EXCEPT !.stage = "main"]
        /\ UNCHANGED nm
  /\ UNCHANGED <<audit_signal, altered>>

Following ==
  [list |-> "clone", clone |-> "locate", locate |-> "modify", modify |-> "inspect",
   inspect |-> "up", up |-> "validate", validate |-> "hold", hold |-> "hold"]

\* A command that was refused is told after the look for a signal, one that
\* timed out at once.
Proceed(how) ==
  CASE how = "done" -> audit' = [audit EXCEPT !.step = Following[@]]
    [] how = "failed" -> audit' = [audit EXCEPT !.step = "refused"]
    [] how = "timed_out" -> RaiseAudit("failed")

\* The clone and its activation.
AuditCommand ==
  /\ audit.stage = "execute" /\ audit.step \in {"clone", "up"}
  /\ \/ Interrupted
     \/ ~audit_signal /\ \E how \in Answers : Demand(audit.step, how) /\ Proceed(how)
  /\ UNCHANGED <<audit_signal, altered>>

\* The looks and the verdicts: a look at the clone succeeds only if it is there,
\* a validation only while it is up.
ConfirmedClone == nm.clone
ConfirmedUp == nm.link = "audit"
Established(step) ==
  CASE step = "list" -> TRUE
    [] step \in {"locate", "modify", "inspect"} -> ConfirmedClone
    [] step \in {"validate", "hold"} -> ConfirmedUp

AuditLook ==
  /\ audit.stage = "execute"
  /\ audit.step \in {"list", "locate", "modify", "inspect", "validate", "hold"}
  /\ \/ Interrupted
     \/ /\ ~audit_signal /\ UNCHANGED nm
        /\ \E how \in Answers : (how = "done" => Established(audit.step)) /\ Proceed(how)
  /\ UNCHANGED <<audit_signal, altered>>

AuditRefused ==
  /\ audit.stage = "execute" /\ audit.step = "refused"
  /\ Interrupted \/ (~audit_signal /\ RaiseAudit("failed") /\ UNCHANGED nm)
  /\ UNCHANGED <<audit_signal, altered>>

\* The hold is over and the last validation succeeded.
AuditHeld ==
  /\ audit.stage = "execute" /\ audit.step = "hold" /\ ~audit_signal
  /\ Established("validate")
  /\ RaiseAudit("none")
  /\ UNCHANGED <<audit_signal, nm, altered>>

-----------------------------------------------------------------------------
(* rollback(): signals are deferred, and the errors of a round only counted.   *)

NextAttempt ==
  audit' = IF audit.attempt = AuditAttempts
             THEN [audit EXCEPT !.stage = "main", !.error = "incomplete"]
             ELSE [audit EXCEPT !.step = "campus", !.attempt = @ + 1,
                                !.steady = 0, !.taken = 0]

Goto(step) == audit' = [audit EXCEPT !.step = step]

\* _activate_campus, at three places of a round; at the last one a failure ends
\* the round.
RestoreCampus ==
  /\ audit.stage = "rollback" /\ audit.step \in {"campus", "campus_again", "campus_last"}
  /\ \E how \in Answers :
       /\ Demand("campus", how)
       /\ CASE audit.step = "campus" -> Goto("recover")
            [] audit.step = "campus_again" -> Goto("delete")
            [] audit.step = "campus_last" -> IF how = "done" THEN Goto("look")
                                                             ELSE NextAttempt
  /\ UNCHANGED <<audit_signal, altered>>

\* _recover_audit_uuid: a query may fail.
Recover ==
  /\ audit.stage = "rollback" /\ audit.step = "recover"
  /\ \/ nm.clone /\ Goto("down")
     \/ Goto("campus_last")
  /\ UNCHANGED <<audit_signal, nm, altered>>

\* The clone is taken down if the look at the device still shows it.
TakeDown ==
  /\ audit.stage = "rollback" /\ audit.step = "down"
  /\ Goto("campus_again")
  /\ \/ nm.link = "audit" /\ \E how \in Answers : Demand("down", how)
     \/ UNCHANGED nm
  /\ UNCHANGED <<audit_signal, altered>>

\* Whether the deletion worked is looked up; the samples below look again.
DeleteClone ==
  /\ audit.stage = "rollback" /\ audit.step = "delete"
  /\ Goto("campus_last")
  /\ \E how \in Answers : Demand("delete", how)
  /\ UNCHANGED <<audit_signal, altered>>

\* Mutant of RestoredSample: the clone is not looked for.
RestoredWithClone == nm.link = "campus"

\* _campus_restored_sample
RestoredSample == nm.link = "campus" /\ ~nm.clone

\* _wait_for_campus_stability: a query that fails makes a sample invalid.
AuditSample ==
  /\ audit.stage = "rollback" /\ audit.step = "look"
  /\ audit.steady < AuditSteady /\ audit.taken < AuditSamples
  /\ \E valid \in BOOLEAN :
       /\ valid => RestoredSample
       /\ audit' = [audit EXCEPT !.steady = IF valid THEN @ + 1 ELSE 0, !.taken = @ + 1]
  /\ altered' = FALSE
  /\ UNCHANGED <<audit_signal, nm>>

RoundEnds ==
  /\ audit.stage = "rollback" /\ audit.step = "look"
  /\ \/ /\ audit.steady = AuditSteady
        /\ audit' = [audit EXCEPT !.stage = "main", !.armed = FALSE]
     \/ audit.steady < AuditSteady /\ audit.taken = AuditSamples /\ NextAttempt
  /\ UNCHANGED <<audit_signal, nm, altered>>

\* main(): its own rollback after an interruption finds nothing armed.
AuditTells ==
  /\ audit.stage = "main" /\ audit.told = "none"
  /\ audit' = [audit EXCEPT !.told =
                 CASE audit.error = "none" -> IF audit_signal /\ audit.mode = "execute"
                                                THEN "interrupted" ELSE "pass"
                   [] OTHER -> audit.error]
  /\ UNCHANGED <<audit_signal, nm, altered>>

-----------------------------------------------------------------------------

AuditSignal ==
  /\ ~audit_signal /\ audit.told = "none"
  /\ audit_signal' = TRUE
  /\ UNCHANGED <<audit, nm, altered>>

\* A request that outlived its client is completed or given up; the Wi-Fi may be
\* lost at any time.
ManagerActs ==
  /\ \/ \E request \in {nm.late_link, nm.late_clone} \ {"none"} : nm' = Performed(request)
     \/ nm.late_link # "none" /\ nm' = [nm EXCEPT !.late_link = "none"]
     \/ nm.late_clone # "none" /\ nm' = [nm EXCEPT !.late_clone = "none"]
     \/ nm.link # "none" /\ nm' = [nm EXCEPT !.link = "none"]
  /\ altered' = TRUE
  /\ UNCHANGED <<audit, audit_signal>>

RouterInit ==
  /\ audit \in [mode : {"preflight", "execute"}, stage : {"preflight"}, step : {"list"},
                attempt : {1}, armed : {FALSE}, error : {"none"}, steady : {0},
                taken : {0}, told : {"none"}]
  /\ audit_signal = FALSE
  /\ nm = [link |-> "campus", clone |-> FALSE, late_link |-> "none", late_clone |-> "none"]
  /\ altered = FALSE

RouterNext ==
  \/ AuditPreflight \/ AuditCommand \/ AuditLook \/ AuditRefused \/ AuditHeld
  \/ RestoreCampus \/ Recover \/ TakeDown \/ DeleteClone \/ AuditSample \/ RoundEnds
  \/ AuditTells \/ AuditSignal \/ ManagerActs

RouterSpec == RouterInit /\ [][RouterNext]_router_vars

-----------------------------------------------------------------------------

\* An audit that is over, and does not say that its rollback is incomplete, has
\* left the campus network on the Wi-Fi and no temporary profile behind, also
\* when the clone's answer was lost or a signal came at any point, unless
\* NetworkManager changed something by itself after the last look.
AuditLeavesNothing ==
  audit.told \in {"pass", "interrupted", "failed"}
    => altered \/ (nm.link = "campus" /\ ~nm.clone)
=============================================================================
