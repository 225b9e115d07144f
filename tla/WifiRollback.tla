----------------------------- MODULE WifiRollback -----------------------------
(* The temporary switch of the workstation to the robot's private Wi-Fi: the   *)
(* wired profile that owns the host address is taken down, the private network *)
(* is brought up in place of the campus network and validated for a while, and *)
(* then, or when anything fails or a signal arrives, everything is put back.   *)
(*                                                                             *)
(* NetworkManager is the environment: a request is carried out, refused, or    *)
(* outlives the client that timed out on it and is completed later; a request  *)
(* for a device replaces one that is still pending for it.  A profile owns the *)
(* host address while it is up: the private network on Wi-Fi, the robot's      *)
(* network on the wire.  The routes, addresses and profiles that the           *)
(* validation compares with their expected values are one verdict.             *)
EXTENDS Naturals, Sequences

CONSTANTS
  RollbackAttempts,     \* ROLLBACK_ATTEMPTS
  StableObservations,   \* STABLE_OBSERVATIONS
  SampleLimit           \* STABILITY_SAMPLE_LIMIT

ASSUME RollbackAssumption ==
  /\ RollbackAttempts \in Nat \ {0}
  /\ StableObservations \in Nat \ {0} /\ SampleLimit \in Nat
  /\ StableObservations <= SampleLimit

VARIABLES
  stage,              \* what the workflow is about
  step,               \* the step of it that is next
  round,              \* round of the rollback; the last one is the fallback
  command_result,     \* outcome of the command that ran last
  pending_signum,     \* a signal is latched
  rollback_armed,
  rollback_started,
  primary_error,      \* what ended the validation
  restored,           \* the original network was seen restored
  consecutive,        \* valid samples in a row
  samples,            \* samples taken
  result,             \* what main() tells
  wifi,               \* the profile that is up on Wi-Fi
  wired,              \* the wired profile is up
  requested,          \* per device, the request that outlived its client
  disturbed           \* history: the network changed by itself since a look at it

wifi_vars == <<stage, step, round, command_result, pending_signum, rollback_armed,
               rollback_started, primary_error, restored, consecutive, samples, result,
               wifi, wired, requested, disturbed>>
network == <<wifi, wired, requested>>
looks == <<consecutive, samples>>
outcome == <<primary_error, restored, result>>

Forward == <<"wired_off", "target", "validate", "hold">>
Rounds == RollbackAttempts + 1
Fallback == round = Rounds

HostOnWifi == wifi = "target"
HostOnWire == wired
NoHostOwner == ~HostOnWifi /\ ~HostOnWire

-----------------------------------------------------------------------------
(* Requests to NetworkManager *)

\* What a request makes of its device.
WifiAfter(request) ==
  CASE request = "campus" -> "campus"
    [] request = "target" -> "target"
    [] request = "target_off" -> IF wifi = "target" THEN "none" ELSE wifi
    [] OTHER -> wifi

WiredAfter(request) ==
  CASE request = "wired" -> TRUE
    [] request = "wired_off" -> FALSE
    [] OTHER -> wired

Device(request) == IF request \in {"wired", "wired_off"} THEN "wired" ELSE "wifi"

\* CommandRunner.run of an activation or a deactivation.
Request(request, how) ==
  \/ /\ how = "done"
     /\ wifi' = WifiAfter(request) /\ wired' = WiredAfter(request)
     /\ requested' = [requested EXCEPT ![Device(request)] = "none"]
  \/ how = "failed" /\ UNCHANGED network
  \/ /\ how = "timed_out"
     /\ requested' = [requested EXCEPT ![Device(request)] = request]
     /\ UNCHANGED <<wifi, wired>>

Outcomes == {"done", "failed", "timed_out"}

-----------------------------------------------------------------------------
(* execute(): a pending signal is raised before and after every command.       *)

\* The exception that leaves the validation starts the rollback.
Raise(error) ==
  /\ primary_error' = error
  /\ stage' = IF rollback_armed THEN "rollback" ELSE "main"
  /\ rollback_started' = rollback_armed
  /\ step' = "campus" /\ round' = 1
  /\ UNCHANGED <<command_result, pending_signum, rollback_armed, restored, result, looks,
                 network, disturbed>>

RaisePending == pending_signum /\ Raise("interrupted")

\* The profiles, and the owner of the host address before anything is changed.
ProfileVerdicts == BOOLEAN

\* _validate_route_isolation: no route leaves the private network.
IsolationVerdicts == BOOLEAN

\* _validate_policy_rules, _allowed_ipv6_route_key: the rules and the IPv6 routes are
\* those of a host without other networks.
RuleVerdicts == BOOLEAN

Preflight ==
  /\ stage = "preflight"
  /\ \/ RaisePending
     \/ ~pending_signum /\ \E valid \in ProfileVerdicts : ~valid /\ Raise("failed")
     \/ /\ ~pending_signum
        /\ stage' = "forward" /\ step' = "wired_off"
        /\ rollback_armed' = TRUE
        /\ UNCHANGED <<round, command_result, pending_signum, rollback_started, outcome,
                       looks, network, disturbed>>

\* _deactivate of the wired profile, _activate of the private one.
RunCommand ==
  /\ stage = "forward" /\ step \in {"wired_off", "target"} /\ command_result = "none"
  /\ \/ RaisePending
     \/ /\ ~pending_signum
        /\ \E how \in Outcomes : Request(step, how) /\ command_result' = how
        /\ UNCHANGED <<stage, step, round, pending_signum, rollback_armed,
                       rollback_started, outcome, looks, disturbed>>

CommandReturns ==
  /\ stage = "forward" /\ command_result # "none"
  /\ \/ RaisePending
     \/ /\ ~pending_signum
        /\ IF command_result = "done"
           THEN /\ step' = IF step = "wired_off" THEN "target" ELSE "validate"
                /\ command_result' = "none"
                /\ UNCHANGED <<stage, round, pending_signum, rollback_armed,
                               rollback_started, outcome, looks, network, disturbed>>
           ELSE Raise("failed")

\* _validate_private_state: the private profile alone owns the host address.
PrivateState == HostOnWifi /\ ~HostOnWire

\* _validate_private_runtime once, then its state every second until the
\* deadline has passed; the queries may fail.
ValidatePrivate ==
  /\ stage = "forward" /\ step \in {"validate", "hold"}
  /\ \/ RaisePending
     \/ /\ ~pending_signum
        /\ \E isolated \in IsolationVerdicts, ruled \in RuleVerdicts :
             IF PrivateState /\ isolated /\ ruled
             THEN /\ step' = "hold"
                  /\ UNCHANGED <<stage, round, command_result, pending_signum,
                                 rollback_armed, rollback_started, outcome, looks,
                                 network, disturbed>>
             ELSE Raise("failed")
     \/ step = "hold" /\ Raise("none")   \* the hold is over

-----------------------------------------------------------------------------
(* rollback(): signals are deferred, failures of commands are ignored.         *)

\* Mutant of Deferred: a signal interrupts the rollback, too.
NotDeferred == ~pending_signum

Deferred == TRUE

Ends ==
  /\ stage' = "main" /\ rollback_armed' = FALSE
  /\ UNCHANGED <<step, round, samples, consecutive>>

NextRound == round' = round + 1 /\ step' = "campus" /\ UNCHANGED <<stage, rollback_armed>>

StepAfter(s) ==
  CASE s = "campus" -> "target_off"
    [] s = "target_off" -> "campus_again"
    [] s = "campus_again" -> "look"
    [] s = "wired" -> "look_again"

RequestOf(s) == IF s = "campus_again" THEN "campus" ELSE s

\* _best_effort(): one request of a round; an exception that is not an error of
\* the command would leave the rollback, which would not be started again.
RollbackCommand ==
  /\ stage = "rollback"
  /\ step \in {"campus", "target_off", "campus_again", "wired"}
  /\ IF Deferred
     THEN /\ \E how \in Outcomes : Request(RequestOf(step), how)
          /\ step' = StepAfter(step)
          /\ UNCHANGED <<stage, primary_error>>
     ELSE /\ stage' = "main" /\ primary_error' = "interrupted"
          /\ UNCHANGED <<step, network>>
  /\ consecutive' = 0 /\ samples' = 0
  /\ UNCHANGED <<round, command_result, pending_signum, rollback_armed, rollback_started,
                 restored, result, disturbed>>

\* What a look waits for: the first one for a network without the host address,
\* the second one for the original network; of the fallback, for the wired
\* profile as its only owner.
Wanted ==
  IF step = "look"
  THEN NoHostOwner /\ (Fallback \/ wifi = "campus")
  ELSE wired /\ ~HostOnWifi /\ (Fallback \/ wifi = "campus")

\* _wait_for_stable(): an error of a query is an invalid sample.
Sample(valid) ==
  /\ stage = "rollback" /\ step \in {"look", "look_again"}
  /\ consecutive < StableObservations /\ samples < SampleLimit
  /\ valid => Wanted
  /\ consecutive' = IF valid THEN consecutive + 1 ELSE 0
  /\ samples' = samples + 1
  /\ disturbed' = FALSE
  /\ UNCHANGED <<stage, step, round, command_result, pending_signum, rollback_armed,
                 rollback_started, outcome, network>>

Stable ==
  /\ stage = "rollback" /\ consecutive = StableObservations
  /\ \/ /\ step = "look"
        /\ step' = "wired"
        /\ UNCHANGED <<stage, round, rollback_armed, restored, looks>>
     \/ /\ step = "look_again"
        /\ restored' = ~Fallback
        /\ Ends
  /\ UNCHANGED <<command_result, pending_signum, rollback_started, primary_error, result,
                 network, disturbed>>

Unstable ==
  /\ stage = "rollback" /\ step \in {"look", "look_again"}
  /\ samples = SampleLimit /\ consecutive < StableObservations
  /\ IF step = "look" /\ ~Fallback THEN NextRound
     ELSE step' = "wired_off" /\ UNCHANGED <<stage, round, rollback_armed>>
  /\ UNCHANGED <<command_result, pending_signum, rollback_started, outcome, looks,
                 network, disturbed>>

\* A wired address that is not proved to be the only one is removed.
RemoveWired ==
  /\ stage = "rollback" /\ step = "wired_off"
  /\ \E how \in Outcomes : Request("wired_off", how)
  /\ IF Fallback THEN Ends ELSE NextRound /\ UNCHANGED looks
  /\ UNCHANGED <<command_result, pending_signum, rollback_started, outcome, disturbed>>

\* main() tells how it ended; its own call of rollback() after an interruption
\* finds it started, or nothing to roll back.
Tell ==
  /\ stage = "main" /\ result = "none"
  /\ result' = IF rollback_started /\ ~rollback_armed /\ ~restored THEN "error"
               ELSE IF primary_error = "interrupted" THEN "interrupted"
               ELSE IF primary_error = "failed" THEN "error"
               ELSE IF pending_signum THEN "interrupted" ELSE "pass"
  /\ UNCHANGED <<stage, step, round, command_result, pending_signum, rollback_armed,
                 rollback_started, primary_error, restored, looks, network, disturbed>>

-----------------------------------------------------------------------------
Signal ==
  /\ pending_signum' = TRUE
  /\ UNCHANGED <<stage, step, round, command_result, rollback_armed, rollback_started,
                 outcome, looks, network, disturbed>>

\* NetworkManager completes or gives up what a client timed out on; the Wi-Fi
\* may be lost at any time.
NetworkChanges ==
  /\ \/ \E device \in {"wifi", "wired"} :
          /\ requested[device] # "none"
          /\ requested' = [requested EXCEPT ![device] = "none"]
          /\ \/ /\ wifi' = WifiAfter(requested[device])
                /\ wired' = WiredAfter(requested[device])
             \/ UNCHANGED <<wifi, wired>>
     \/ wifi' = "none" /\ UNCHANGED <<wired, requested>>
  /\ disturbed' = TRUE
  /\ UNCHANGED <<stage, step, round, command_result, pending_signum, rollback_armed,
                 rollback_started, outcome, looks>>

WifiInit ==
  /\ stage = "preflight" /\ step = "wired_off" /\ round = 1
  /\ command_result = "none" /\ pending_signum = FALSE
  /\ rollback_armed = FALSE /\ rollback_started = FALSE
  /\ primary_error = "none" /\ restored = FALSE /\ result = "none"
  /\ consecutive = 0 /\ samples = 0
  /\ wifi = "campus" /\ wired = TRUE
  /\ requested = [device \in {"wifi", "wired"} |-> "none"]
  /\ disturbed = FALSE

WifiNext ==
  \/ Preflight
  \/ RunCommand
  \/ CommandReturns
  \/ ValidatePrivate
  \/ RollbackCommand
  \/ \E valid \in BOOLEAN : Sample(valid)
  \/ Stable
  \/ Unstable
  \/ RemoveWired
  \/ Tell
  \/ Signal
  \/ NetworkChanges

WifiSpec == WifiInit /\ [][WifiNext]_wifi_vars

-----------------------------------------------------------------------------
\* A switch that is told to be over with the original network restored, by a
\* PASS or after an interruption, left the campus network on the Wi-Fi and the
\* wired profile as the only owner of the host address, unless the network
\* changed by itself after the last look at it; and whatever the exit, a switch
\* that was begun has been through its rollback.
RestorationIsTrue ==
  /\ result \in {"pass", "interrupted"}
       => disturbed \/ (wifi = "campus" /\ wired)
  /\ result # "none" => ~rollback_armed

\* No request of the workflow makes the wire and the private Wi-Fi own the host
\* address together: when they do, the network changed by itself, with a late
\* answer to an older request, since the rollback looked at it last.
NoOwnDuplicate ==
  [][HostOnWifi' /\ HostOnWire' /\ ~(HostOnWifi /\ HostOnWire) => disturbed']_wifi_vars

=============================================================================
