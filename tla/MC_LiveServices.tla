--------------------------- MODULE MC_LiveServices ---------------------------
(* The daemon process and semantic navigation in one run, for what must happen *)
(* in them eventually: they share no state, a behaviour is one of the two, and *)
(* the other keeps its initial state.                                          *)
EXTENDS MC_SportDaemon, SemanticNavigation

VARIABLE part   \* the component this behaviour runs

ServicesInit ==
  /\ part \in {"daemon", "navigation"}
  /\ DaemonInit
  /\ NavInit

DaemonPart ==
  /\ part = "daemon"
  /\ DaemonNext
  /\ UNCHANGED <<part, nav_vars>>

NavPart ==
  /\ part = "navigation"
  /\ NavNext
  /\ UNCHANGED <<part, daemon_vars>>

ServicesNext == DaemonPart \/ NavPart

\* DaemonFairness and NavFairness, each in the behaviours of its component.
ServicesFairness ==
  /\ WF_daemon_vars(part = "daemon" /\ Iterate)
  /\ WF_daemon_vars(part = "daemon" /\ TimePasses)
  /\ SF_daemon_vars(part = "daemon" /\ RunWatchdog /\ ~stop_unconfirmed')
  /\ \A thread \in Run \cup {"executor"} :
       WF_nav_vars(part = "navigation" /\ Notify(thread))
  /\ WF_nav_vars(part = "navigation" /\ (StopRuns \/ StopSubscriber \/ StopMonitors))
  /\ \A r \in Run :
       /\ WF_nav_vars(part = "navigation" /\ Reserve(r))
       /\ WF_nav_vars(part = "navigation" /\ Canceller(r))
       /\ WF_nav_vars(part = "navigation" /\ (ClaimCancel(r) \/ CallCancel(r)))

services_vars == <<part, daemon_vars, nav_vars>>

ServicesSpec ==
  ServicesInit /\ [][ServicesNext]_services_vars /\ ServicesFairness

==============================================================================
