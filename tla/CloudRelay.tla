------------------------------ MODULE CloudRelay ------------------------------
(* The process that republishes the corrected point cloud.  It is bound to a   *)
(* contract it loads once: the approval and the READY file of the timestamp    *)
(* process as they were then, no fault file of its two parents, and both       *)
(* parent processes alive.  It looks at the contract every 50 ms and twice per *)
(* cloud, and publishes nothing once it is broken.                             *)
(*                                                                             *)
(* A cloud is the verdict of the clock on its corrected stamp.  The parents    *)
(* and the files are the environment here; NomotionLaunch says how they move.  *)
(* The facts of the contract only ever break, and so the six reads of one look *)
(* are one step: what they tell is true at the first of them.                  *)
EXTENDS Naturals, FiniteSets

CONSTANT FreshSamples    \* required_fresh_samples

ASSUME CloudRelayAssumption == FreshSamples \in Nat /\ FreshSamples >= 2

Parents == {"stamp", "identity"}

VARIABLES
  service_alive,   \* the processes of the session that run
  ready_files,      \* the processes whose READY file is there
  fault_files,      \* the processes whose fault file is there
  rewritten,       \* a file of the contract changed after it was loaded
  cloud_profile,   \* the relay's --profile
  cloud_step,      \* where the relay is
  cloud_faulted,   \* _Runtime.fault_reason is set
  cloud_stop,      \* stop_requested: the relay was sent SIGTERM
  limited,         \* the rate limiter has let a cloud pass
  recovery,        \* _FreshCloudRecoveryGate
  fresh_run,       \* history: clouds in a row that were never found stale
  late_clouds      \* history: clouds published over a broken contract

status_files == <<ready_files, fault_files>>
cloud_gates == <<limited, recovery>>
cloud_history == <<fresh_run, late_clouds>>
cloud_vars == <<service_alive, status_files, rewritten, cloud_profile, cloud_step,
                cloud_faulted, cloud_stop, cloud_gates, cloud_history>>

OpenGate == [active |-> FALSE, fresh |-> 0]

CloudTypeOK ==
  /\ rewritten \in BOOLEAN
  /\ cloud_profile \in {"nomotion", "motion"}
  /\ cloud_step \in {"off", "loading", "starting", "spinning", "looking",
                     "rechecking", "releasing"}
  /\ cloud_faulted \in BOOLEAN /\ cloud_stop \in BOOLEAN /\ limited \in BOOLEAN
  /\ recovery \in [active : BOOLEAN, fresh : 0..FreshSamples - 1]
  /\ fresh_run \in 0..FreshSamples /\ late_clouds \in 0..2

CloudInit ==
  /\ service_alive = {} /\ ready_files = {} /\ fault_files = {} /\ rewritten = FALSE
  /\ cloud_profile \in {"nomotion", "motion"}
  /\ cloud_step = "off" /\ cloud_faulted = FALSE /\ cloud_stop = FALSE
  /\ limited = FALSE /\ recovery = OpenGate
  /\ fresh_run = FreshSamples /\ late_clouds = 0

-----------------------------------------------------------------------------
(* The contract and the two gates *)

\* A parent that ended without a fault file is taken for a live one.
TrustsDeadParents == fault_files \cap Parents = {}

ParentsLive == Parents \subseteq service_alive /\ fault_files \cap Parents = {}

\* ParentContractGuard.check
ContractHolds == ~rewritten /\ ParentsLive

\* What the contract is about, whatever the relay looks at.
ContractIsBroken ==
  rewritten \/ \E p \in Parents : p \in fault_files \/ p \notin service_alive

\* The verdicts of CloudCorrectionContract.corrected_stamp_ns.
CloudVerdicts == {"fresh", "stale", "over the ceiling", "ahead"}
Transient(verdict) ==
  \/ verdict = "stale"
  \/ verdict = "over the ceiling" /\ cloud_profile = "motion"

\* _FreshCloudRecoveryGate: a stale cloud closes it, FreshSamples fresh ones in
\* a row open it.
ObserveStale ==
  /\ recovery' = IF cloud_profile = "nomotion" THEN [active |-> TRUE, fresh |-> 0]
                                               ELSE recovery
  /\ fresh_run' = 0

\* The second look drops the cloud and leaves the gate as it was.
ForgetsLateStale == fresh_run' = 0 /\ UNCHANGED recovery

LateStale == ObserveStale   \* at the second look

GateOpens == ~recovery.active \/ recovery.fresh + 1 = FreshSamples
AllowFresh ==
  recovery' = IF cloud_profile = "motion" \/ GateOpens THEN OpenGate
              ELSE [recovery EXCEPT !.fresh = @ + 1]

-----------------------------------------------------------------------------
(* The process *)

\* What the process held goes with it.
RelayIsGone ==
  /\ cloud_step' = "off" /\ rewritten' = FALSE
  /\ limited' = FALSE /\ recovery' = OpenGate /\ fresh_run' = FreshSamples

RelayEnds ==
  /\ service_alive' = service_alive \ {"relay"} /\ RelayIsGone
  /\ UNCHANGED <<ready_files, cloud_profile, cloud_stop, late_clouds>>

\* _Runtime.latch_fault: the file is best effort, the process ends in any case.
LatchCloudFault ==
  /\ cloud_faulted' = TRUE
  /\ fault_files' \in {fault_files, fault_files \cup {"relay"}}
  /\ RelayEnds

CloudGoes(step) ==
  /\ cloud_step' = step
  /\ UNCHANGED <<service_alive, status_files, rewritten, cloud_profile, cloud_faulted,
                 cloud_stop>>

\* validate_stamp_ready: READY belongs to the approval and to the profile.
ContractFound == "stamp" \in ready_files

\* main: the contract is what is found now; without it the process exits and
\* leaves no file.
LoadContract ==
  /\ cloud_step = "loading"
  /\ \/ /\ ContractFound /\ ParentsLive
        /\ cloud_step' = "starting" /\ rewritten' = FALSE
        /\ UNCHANGED <<service_alive, status_files, cloud_profile, cloud_faulted,
                       cloud_stop, cloud_gates, cloud_history>>
     \/ RelayEnds /\ UNCHANGED <<fault_files, cloud_faulted>>

\* run_ros up to the executor: one more look, and READY.
StartRelay ==
  /\ cloud_step = "starting"
  /\ \/ ContractHolds /\ cloud_step' = "spinning"
        /\ ready_files' = ready_files \cup {"relay"}
        /\ UNCHANGED <<service_alive, fault_files, rewritten, cloud_profile,
                       cloud_faulted, cloud_stop, cloud_gates, cloud_history>>
     \/ ~ContractHolds /\ LatchCloudFault

\* _poll_guard.
PollGuard ==
  /\ cloud_step = "spinning"
  /\ \/ cloud_stop /\ RelayEnds /\ UNCHANGED <<fault_files, cloud_faulted>>
     \/ ~cloud_stop /\ ~ContractHolds /\ LatchCloudFault

\* _cloud: the contract, then the clocks and the stamp.
ReceiveCloud ==
  /\ cloud_step = "spinning"
  /\ \/ ContractHolds /\ CloudGoes("looking") /\ UNCHANGED <<cloud_gates, cloud_history>>
     \/ ~ContractHolds /\ LatchCloudFault

Dropped(verdict) ==
  /\ Transient(verdict) /\ ObserveStale
  /\ CloudGoes("spinning") /\ UNCHANGED <<limited, late_clouds>>

\* A fresh cloud passes the gate, the sequence check of the motion profile and
\* the limiter, which marks its time here.
LookAtCloud(verdict) ==
  /\ cloud_step = "looking"
  /\ \/ Dropped(verdict)
     \/ /\ verdict = "fresh"
        /\ fresh_run' = IF fresh_run = FreshSamples THEN fresh_run ELSE fresh_run + 1
        /\ AllowFresh /\ UNCHANGED late_clouds
        /\ \/ cloud_profile = "nomotion" /\ ~GateOpens
              /\ CloudGoes("spinning") /\ UNCHANGED limited
           \/ /\ cloud_profile = "motion" \/ GateOpens
              /\ \/ CloudGoes("rechecking") /\ limited' = TRUE
                 \/ limited /\ CloudGoes("spinning") /\ UNCHANGED limited
     \/ verdict # "fresh" /\ ~Transient(verdict) /\ LatchCloudFault
     \/ verdict = "fresh" /\ cloud_profile = "motion" /\ LatchCloudFault  \* no advance

ClocksFail ==
  /\ cloud_step \in {"looking", "releasing"} /\ LatchCloudFault

RecheckContract ==
  /\ cloud_step = "rechecking"
  /\ \/ ContractHolds /\ CloudGoes("releasing")
        /\ UNCHANGED <<cloud_gates, cloud_history>>
     \/ ~ContractHolds /\ LatchCloudFault

\* The same cloud is looked at once more; it can only have grown older.
ReleaseCloud(verdict) ==
  /\ cloud_step = "releasing" /\ verdict # "ahead"
  /\ \/ /\ Transient(verdict) /\ LateStale
        /\ CloudGoes("spinning") /\ UNCHANGED <<limited, late_clouds>>
     \/ /\ verdict = "fresh" /\ CloudGoes("spinning")
        /\ late_clouds' = IF ContractIsBroken /\ late_clouds < 2 THEN late_clouds + 1
                          ELSE late_clouds
        /\ UNCHANGED <<cloud_gates, fresh_run>>
     \/ verdict # "fresh" /\ ~Transient(verdict) /\ LatchCloudFault

CloudRelayStep ==
  \/ LoadContract \/ StartRelay \/ PollGuard \/ ReceiveCloud \/ ClocksFail
  \/ RecheckContract
  \/ \E verdict \in CloudVerdicts : LookAtCloud(verdict) \/ ReleaseCloud(verdict)

\* A file of the contract is written again, or goes.
ContractChanges ==
  /\ cloud_step \notin {"off", "loading"} /\ ~rewritten /\ rewritten' = TRUE
  /\ UNCHANGED <<service_alive, status_files, cloud_profile, cloud_step, cloud_faulted,
                 cloud_stop, cloud_gates, cloud_history>>

-----------------------------------------------------------------------------
(* Properties *)

\* When the contract breaks, the cloud in hand may still go out, the next one
\* does not: whatever parent died or faulted, and whatever file was touched.
AtMostTheCloudInHand == late_clouds <= 1

\* Without motion, a cloud found stale at either look is followed by two fresh
\* ones in a row before anything is published.
RecoveryIsEarned ==
  [][ReleaseCloud("fresh") /\ cloud_profile = "nomotion" => fresh_run = FreshSamples]_cloud_vars

=============================================================================
