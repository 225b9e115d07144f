--------------------------- MODULE MC_Commissioning ---------------------------
(* The daemon as it is commissioned, and the programs around a commissioning:   *)
(* the clock discipline, the probe of the first motion, the switches of the     *)
(* network, the acceptance test of hands-free mode and the voice entry of the   *)
(* dashboard.  They do not share state here: a behaviour is one of them, and    *)
(* the others keep their initial state.                                         *)
EXTENDS MC_DaemonCore, StampDiscipline, FirstMotionProbe, WifiRollback,
        RouterAudit, HandsfreeObserver, VoiceSession

VARIABLE part   \* the component this behaviour runs

\* The observer: a verdict is not looked into again, and once one is ruled out
\* nobody reads the samples that led there or come yet.
ObserverView ==
  CASE run_stage \in {"summary", "done", "aborted"} -> <<run_stage, report, witnessed>>
    [] run_stage = "observing" /\ failing ->
         <<"failing", elapsed, socket, {e \in EndPoints : polls[e].phase = "asked"}>>
    [] OTHER -> observer_vars

CommissioningView ==
  CASE part = "handsfree" -> <<part, ObserverView>>
    [] OTHER -> <<part, vars, stamp_vars, probe_vars, wifi_vars, router_vars, voice_vars>>

Parts == {"core", "stamp", "probe", "wifi", "router", "handsfree", "voice"}

AllInit ==
  /\ part \in Parts
  /\ Init
  /\ StampInit
  /\ ProbeInit
  /\ WifiInit
  /\ RouterInit
  /\ ObserverInit
  /\ VoiceInit
  /\ part # "stamp" => stamp_profile = "motion"
  /\ part # "probe" => adapter.spent = FALSE
  /\ part # "probe" => probe = "acquire"
  /\ part # "router" => audit.mode = "execute"
  /\ part # "handsfree" => client.enabled = FALSE
  /\ part # "voice" => execution_mode = "preview"

CorePart ==
  /\ part = "core"
  /\ Next
  /\ UNCHANGED <<part, stamp_vars, probe_vars, wifi_vars, router_vars, observer_vars,
                 voice_vars>>

StampPart ==
  /\ part = "stamp"
  /\ StampNext
  /\ UNCHANGED <<part, vars, probe_vars, wifi_vars, router_vars, observer_vars, voice_vars>>

ProbePart ==
  /\ part = "probe"
  /\ ProbeNext
  /\ UNCHANGED <<part, vars, stamp_vars, wifi_vars, router_vars, observer_vars, voice_vars>>

WifiPart ==
  /\ part = "wifi"
  /\ WifiNext
  /\ UNCHANGED <<part, vars, stamp_vars, probe_vars, router_vars, observer_vars,
                 voice_vars>>

RouterPart ==
  /\ part = "router"
  /\ RouterNext
  /\ UNCHANGED <<part, vars, stamp_vars, probe_vars, wifi_vars, observer_vars, voice_vars>>

ObserverPart ==
  /\ part = "handsfree"
  /\ ObserverNext
  /\ UNCHANGED <<part, vars, stamp_vars, probe_vars, wifi_vars, router_vars, voice_vars>>

VoicePart ==
  /\ part = "voice"
  /\ VoiceNext
  /\ UNCHANGED <<part, vars, stamp_vars, probe_vars, wifi_vars, router_vars, observer_vars>>

AllNext ==
  \/ CorePart
  \/ StampPart
  \/ ProbePart
  \/ WifiPart
  \/ RouterPart
  \/ ObserverPart
  \/ VoicePart

all_vars == <<part, vars, stamp_vars, probe_vars, wifi_vars, router_vars, observer_vars,
              voice_vars>>

AllSpec ==
  /\ AllInit /\ [][AllNext]_all_vars
  /\ WF_vars(part = "core" /\ Tick)
  /\ WF_vars(part = "core" /\ CheckWatchdog)
  /\ SF_vars(part = "core" /\ CheckWatchdog /\ ~stop_unconfirmed')

==============================================================================
