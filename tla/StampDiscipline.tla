--------------------------- MODULE StampDiscipline ---------------------------
(* The affine time discipline of the workstation's stamp node: raw stamps of   *)
(* several sensor streams are observed, one clock model is qualified and       *)
(* frozen, and from then on accepted samples are published with a corrected    *)
(* stamp.  A silent stream or a suspect sample pauses the output of every      *)
(* stream; the pause ends on fresh evidence from all of them.  A regression of *)
(* a stamp, a stamp in the future and a broken model are faults, for good.     *)
(* The fixed-offset discipline it replaces, which a reviewed session may still  *)
(* ask for, retries its qualification and faults on all of this.               *)
(*                                                                             *)
(* Stamps are abstracted to how a sample compares with the stream's baseline   *)
(* (delta) and with the frozen model (corrected); the quantiles, envelopes and *)
(* drift fits to whether the windows pass (statistics).                        *)
EXTENDS Naturals

CONSTANTS
  Core,        \* streams that witness the clock rate, in every profile
  Noncore,     \* streams of the no-motion profile only (the point cloud)
  Stale,       \* stale_receipt_timeout_ns, in ticks
  Window,      \* ticks from the start of the qualification to its deadline
  RequiredSamples   \* LOCKED_RECEIPT_RECOVERY_REQUIRED_SAMPLES

\* DisciplineConfig.validate: the streams are there, only non-core ones may drop a
\* sample, and the limits are in their ranges.
ConfigurationIsValid ==
  /\ Core # {} /\ Core \cap Noncore = {}
  /\ Stale \in Nat /\ Window \in Nat \ {0}

\* "none" stands for no stream.
ASSUME DisciplineAssumption ==
  /\ ConfigurationIsValid /\ "none" \notin Core \cup Noncore
  /\ RequiredSamples \in Nat /\ RequiredSamples >= 2

VARIABLES
  stamp_profile,   \* "motion" or "nomotion", or the no-motion profile with a "fixed" offset
  discipline,      \* DisciplineState
  receipt_age,     \* age of each stream's last-good receipt
  sampled,         \* retained samples of each stream, counted to two
  straddles,       \* the two last retained samples lie around a silence
  window,          \* ticks since the qualification started, or NotStarted
  recovering,      \* _receipt_recovery_active
  recovered,       \* _receipt_recovery_sample_counts
  output,          \* the stream whose corrected sample this step published
  paused,          \* history: the locked output has been interrupted
  fresh            \* history: samples accepted since the interruption

stamp_vars == <<stamp_profile, discipline, receipt_age, sampled, straddles, window,
                recovering, recovered, output, paused, fresh>>

NotStarted == Window + 1
Fixed == stamp_profile = "fixed"
Streams == IF stamp_profile = "motion" THEN Core ELSE Core \cup Noncore
Silent(s) == sampled[s] > 0 /\ receipt_age[s] > Stale
Live(s) == sampled[s] > 0 /\ receipt_age[s] <= Stale
AllLive == \A s \in Streams : Live(s)

\* What a fit of the locked streams can find: their common window is not covered,
\* or a rate, a corrected age or a lag left its limits.
CoverageVerdicts == {"incomplete"}
BreakerVerdicts == {"broken"}

\* locked_statistics_enabled: only the no-motion profile evaluates the fit again.
Verdicts == IF stamp_profile = "motion" THEN {"skipped"}
            ELSE {"skipped", "healthy"} \cup CoverageVerdicts \cup BreakerVerdicts
FixedVerdicts == {"skipped", "healthy", "broken"}

\* Whether a discontinuity can be within hard_age_ceiling_ns: in the motion
\* profile the ceiling is the limit whose excess makes it one.
Bounded == IF stamp_profile = "motion" THEN {FALSE} ELSE BOOLEAN

-----------------------------------------------------------------------------
(* How the history sees a step: an interruption begins when a stream of the    *)
(* locked discipline falls silent, noticed or not, or a recovery is entered;   *)
(* it ends with the recovery or with a published sample.                       *)

Interruption(s, accepts) ==
  LET begins == ~paused /\ (recovering' \/ (discipline = "LOCKED" /\ ~AllLive))
  IN  /\ fresh' = [t \in Core \cup Noncore |->
                     LET before == IF begins THEN 0 ELSE fresh[t]
                     IN  IF accepts /\ t = s /\ before < RequiredSamples
                         THEN before + 1 ELSE before]
      /\ paused' = /\ paused \/ begins
                   /\ output' = "none"
                   /\ ~(recovering /\ ~recovering')

-----------------------------------------------------------------------------
(* Parts of observe() and poll().                                              *)

\* What the counters would be if a recovery did not start them anew.
CountsKept == recovered

\* A stream whose first sample after its silence is already retained keeps it.
CountsOnEntry ==
  [s \in Core \cup Noncore |-> IF s \in Streams /\ straddles[s] THEN 1 ELSE 0]

\* _enter_locked_receipt_recovery: entering again changes nothing.
EnterRecovery ==
  /\ recovering' = TRUE
  /\ recovered' = IF recovering THEN recovered ELSE CountsOnEntry

Notices == ~Fixed /\ discipline = "LOCKED" /\ ~recovering /\ ~AllLive
InRecovery == recovering \/ Notices
CountsHere == IF Notices THEN CountsOnEntry ELSE recovered

\* The node latches the fault, writes it down and shuts down, whether or not it
\* could be written: nothing is published any more.
LatchFault == discipline' = "FAULTED" /\ output' = "none"

Fault ==
  /\ LatchFault
  /\ UNCHANGED <<receipt_age, sampled, straddles, window, recovering, recovered, paused,
                 fresh>>

\* The sample moves the structural baseline only, or nothing at all.
Discard ==
  /\ recovering' = InRecovery /\ recovered' = CountsHere /\ output' = "none"
  /\ UNCHANGED <<discipline, receipt_age, sampled, straddles, window>>

\* _restart_qualification_after_core_delivery_pause: only this sample is kept.
Restart(s) ==
  /\ receipt_age' = [receipt_age EXCEPT ![s] = 0]
  /\ sampled' = [t \in Core \cup Noncore |-> IF t = s THEN 1 ELSE 0]
  /\ straddles' = [t \in Core \cup Noncore |-> FALSE]
  /\ window' = NotStarted /\ output' = "none"
  /\ UNCHANGED <<discipline, recovering, recovered>>

\* _record_locked_receipt_recovery_sample
CountSample(s) ==
  [CountsHere EXCEPT ![s] = IF @ < RequiredSamples THEN @ + 1 ELSE @]

\* _locked_receipt_recovery_health: every stream is live and has delivered
\* enough, and the statistics, where they are enabled, have been passed.
Recovers(alive, counts, verdict) ==
  /\ alive
  /\ \A s \in Streams : counts[s] >= RequiredSamples
  /\ stamp_profile = "nomotion" => verdict = "healthy"

\* The statistics are evaluated and are broken for another reason than the gap.
BreaksIn(alive, counts, verdict) ==
  /\ verdict = "broken"
  /\ alive
  /\ \A s \in Streams : counts[s] >= RequiredSamples

\* The sample is copied and leaves with its corrected stamp.
PublishCorrected(s) == output' = s

Retain(s) ==
  /\ receipt_age' = [receipt_age EXCEPT ![s] = 0]
  /\ sampled' = [sampled EXCEPT ![s] = IF @ < 2 THEN @ + 1 ELSE @]
  /\ straddles' = [straddles EXCEPT ![s] = Silent(s)]

\* A current sample of a qualifying discipline; the window starts with the
\* first sample of the last stream to be heard.
AcceptQualifying(s) ==
  /\ discipline = "QUALIFYING"
  /\ Retain(s)
  /\ window' = IF window = NotStarted /\ \A t \in Streams \ {s} : sampled[t] > 0
               THEN 0 ELSE window
  /\ output' = "none"
  /\ UNCHANGED <<discipline, recovering, recovered>>

\* A current sample while the output is paused.
AcceptRecovering(s, verdict) ==
  LET alive == \A t \in Streams \ {s} : Live(t)
      counts == CountSample(s)
  IN  /\ discipline = "LOCKED" /\ InRecovery
      /\ ~BreaksIn(alive, counts, verdict)
      /\ Retain(s)
      /\ recovered' = counts
      /\ recovering' = ~Recovers(alive, counts, verdict)
      /\ output' = IF recovering' THEN "none" ELSE s
      /\ UNCHANGED <<discipline, window>>

\* A current sample of a live discipline is published, unless the scheduled
\* statistics do not cover their window.
AcceptLive(s, verdict) ==
  /\ discipline = "LOCKED" /\ ~InRecovery
  /\ verdict # "broken"
  /\ Retain(s)
  /\ IF verdict = "incomplete"
     THEN EnterRecovery /\ output' = "none"
     ELSE PublishCorrected(s) /\ UNCHANGED <<recovering, recovered>>
  /\ UNCHANGED <<discipline, window>>

\* What breaks the discipline while it accepts a sample.
AcceptBreaks(s, verdict) ==
  /\ discipline = "LOCKED" /\ verdict = "broken"
  /\ InRecovery => BreaksIn(\A t \in Streams \ {s} : Live(t), CountSample(s), verdict)

-----------------------------------------------------------------------------
(* observe(): the first sample of a stream has no baseline to be compared with *)

\* A silence within the motion profile's qualification starts it anew.
QualificationPaused ==
  /\ discipline = "QUALIFYING" /\ stamp_profile = "motion"
  /\ window # NotStarted
  /\ \E t \in Streams : Silent(t)

ObserveAfterPause(s) ==
  /\ QualificationPaused
  /\ Restart(s) /\ Interruption(s, FALSE)

ObserveDuplicate(s) ==
  /\ ~QualificationPaused /\ sampled[s] > 0
  /\ Discard /\ Interruption(s, FALSE)

\* A stamp that goes back, or a receipt clock that does.
ObserveRegression(s) ==
  /\ ~QualificationPaused /\ sampled[s] > 0
  /\ Fault

\* A cloud that came in a burst is dropped, without a fault, as long as the
\* retained samples are healthy.
DropIsHealthy(verdict) == verdict \in {"skipped", "healthy"}
DropNoncore(s, verdict) ==
  /\ s \in Noncore /\ DropIsHealthy(verdict)
  /\ Discard /\ Interruption(s, FALSE)

\* The source advanced otherwise than the receipt clock; bounded says whether
\* the difference is within the ceiling of the stream.
ObserveDiscontinuity(s, bounded, verdict) ==
  /\ ~Fixed /\ ~QualificationPaused /\ sampled[s] > 0
  /\ \/ /\ discipline = "QUALIFYING"
        /\ \/ /\ stamp_profile = "motion" /\ s \in Core
              /\ Restart(s)
           \/ /\ stamp_profile = "nomotion" /\ s \in Noncore /\ bounded
              /\ Discard
        /\ Interruption(s, FALSE)
     \/ /\ discipline = "LOCKED" /\ InRecovery
        /\ Discard /\ Interruption(s, FALSE)
     \/ /\ discipline = "LOCKED" /\ ~InRecovery /\ s \in Core /\ bounded
        /\ EnterRecovery /\ output' = "none"
        /\ UNCHANGED <<discipline, receipt_age, sampled, straddles, window>>
        /\ Interruption(s, FALSE)
     \/ discipline = "LOCKED" /\ ~InRecovery /\ DropNoncore(s, verdict)
     \/ /\ discipline = "LOCKED" /\ ~InRecovery
        /\ IF s \in Core THEN ~bounded ELSE ~DropIsHealthy(verdict)
        /\ Fault
     \/ /\ discipline = "QUALIFYING" /\ stamp_profile = "nomotion"
        /\ ~(s \in Noncore /\ bounded)
        /\ Fault

\* A corrected stamp too far ahead, or with its margin used up.
ObserveFuture(s) ==
  /\ discipline = "LOCKED" /\ Fault

\* A queued sample that is already too old under the frozen model.
ObserveOld(s) ==
  /\ ~Fixed /\ discipline = "LOCKED"
  /\ Discard /\ Interruption(s, FALSE)

ObserveCurrent(s, verdict) ==
  /\ ~Fixed /\ ~QualificationPaused
  /\ \/ /\ \/ AcceptQualifying(s)
           \/ AcceptRecovering(s, verdict)
           \/ AcceptLive(s, verdict)
        /\ Interruption(s, TRUE)
     \/ AcceptBreaks(s, verdict) /\ Fault

-----------------------------------------------------------------------------
(* NavigationStampDiscipline: one fixed offset, and no way back from a fault.  *)

\* A discontinuity in either state, or a sample too old for the locked offset.
FixedRefuses(s) ==
  /\ Fixed
  /\ sampled[s] > 0 \/ discipline = "LOCKED"
  /\ Fault

FixedQualifying(s) ==
  /\ Fixed /\ discipline = "QUALIFYING"
  /\ Retain(s)
  /\ output' = "none"
  /\ UNCHANGED <<discipline, window, recovering, recovered>>
  /\ Interruption(s, TRUE)

\* The sample is published although another stream is silent.
PublishesFixedUnseen(s, verdict) ==
  /\ Fixed /\ discipline = "LOCKED" /\ verdict # "broken"
  /\ Retain(s) /\ PublishCorrected(s)
  /\ UNCHANGED <<discipline, window, recovering, recovered>>
  /\ Interruption(s, TRUE)

\* A current sample of the locked offset is published if every stream is live.
PublishesFixed(s, verdict) ==
  /\ Fixed /\ discipline = "LOCKED" /\ verdict # "broken"
  /\ \A t \in Streams \ {s} : Live(t)
  /\ Retain(s) /\ PublishCorrected(s)
  /\ UNCHANGED <<discipline, window, recovering, recovered>>
  /\ Interruption(s, TRUE)

FixedBreaks(s, verdict) ==
  /\ Fixed /\ discipline = "LOCKED"
  /\ verdict = "broken" \/ \E t \in Streams \ {s} : ~Live(t)
  /\ Fault

ObserveFixed(s) ==
  \/ FixedRefuses(s) \/ FixedQualifying(s)
  \/ \E verdict \in FixedVerdicts : PublishesFixed(s, verdict) \/ FixedBreaks(s, verdict)

\* qualification_reasons: enough samples of every stream, and all of them live.
FixedQualifies == AllLive /\ \A s \in Streams : sampled[s] = 2

\* The evaluation is repeated until nothing speaks against the lock; then the
\* approved offset must agree with the measured one.
LockFixed(agrees) ==
  /\ Fixed /\ discipline = "QUALIFYING" /\ FixedQualifies
  /\ IF agrees THEN discipline' = "LOCKED" /\ output' = "none" ELSE LatchFault
  /\ UNCHANGED <<receipt_age, sampled, straddles, window, recovering, recovered, paused,
                 fresh>>

PollFixed(verdict) ==
  /\ Fixed /\ discipline = "LOCKED"
  /\ ~AllLive \/ verdict = "broken"
  /\ Fault

ObserveStamp(s) ==
  /\ discipline # "FAULTED"
  /\ \/ ObserveAfterPause(s)
     \/ ObserveDuplicate(s)
     \/ ObserveRegression(s)
     \/ \E bounded \in Bounded, verdict \in Verdicts :
          ObserveDiscontinuity(s, bounded, verdict)
     \/ ObserveFuture(s)
     \/ ObserveOld(s)
     \/ \E verdict \in Verdicts : ObserveCurrent(s, verdict)
     \/ ObserveFixed(s)
  /\ UNCHANGED stamp_profile

-----------------------------------------------------------------------------
(* The timer of the node: maybe_lock() until the model is frozen, poll() then. *)

\* The fits took time: every stream must still be live when they are committed.
CommitGate == AllLive

\* The interval evidence of a stream: samples from end to end, and no gap.
Covers(s) == sampled[s] = 2 /\ ~straddles[s]

\* The motion profile binds an approved rate to a live second of every stream.
AnchorIsLive == \A s \in Streams : Covers(s)

\* What the evaluation can find in windows without a silence.
RateVerdicts == {"rates_differ"}
AgeVerdicts == {"ages_differ"}
Qualities == {"fits"} \cup RateVerdicts \cup AgeVerdicts
RatesAgree(quality) == quality \notin RateVerdicts
CandidateFits(quality) == quality \notin AgeVerdicts

\* The no-motion profile evaluates both windows, which have no silence in them.
WindowsPass(quality) ==
  /\ \A s \in Streams : Covers(s)
  /\ RatesAgree(quality) /\ CandidateFits(quality)

LocksAffine(quality) == CommitGate /\ WindowsPass(quality)
LocksApproved(quality) == CommitGate /\ AnchorIsLive /\ CandidateFits(quality)

\* The deadline of the window: what is evaluated is frozen now.
DeadlinePassed == window = Window

\* A rejected evaluation is not repeated.
RejectQualification == LatchFault

\* READY is written behind the lock; a node that cannot write it shuts down.
WriteReady(written) ==
  IF written THEN discipline' = "LOCKED" /\ output' = "none" ELSE LatchFault

\* The one evaluation, at the deadline of the window.
MaybeLock(quality, written) ==
  /\ discipline = "QUALIFYING" /\ DeadlinePassed
  /\ IF IF stamp_profile = "motion" THEN LocksApproved(quality) ELSE LocksAffine(quality)
       THEN WriteReady(written) ELSE RejectQualification
  /\ UNCHANGED <<receipt_age, sampled, straddles, window, recovering, recovered, paused,
                 fresh>>

PollRecovering(verdict) ==
  /\ discipline = "LOCKED" /\ recovering
  /\ \/ /\ ~BreaksIn(AllLive, recovered, verdict)
        /\ recovering' = ~Recovers(AllLive, recovered, verdict)
        /\ output' = "none"
        /\ UNCHANGED <<discipline, receipt_age, sampled, straddles, window, recovered>>
        /\ Interruption("none", FALSE)
     \/ BreaksIn(AllLive, recovered, verdict) /\ Fault

PollLive(verdict) ==
  /\ discipline = "LOCKED" /\ ~recovering
  /\ \/ /\ Notices \/ verdict = "incomplete"
        /\ EnterRecovery /\ output' = "none"
        /\ UNCHANGED <<discipline, receipt_age, sampled, straddles, window>>
        /\ Interruption("none", FALSE)
     \/ ~Notices /\ verdict = "broken" /\ Fault

\* Whether both clocks were read close together and a moment ago, within a bounded
\* number of attempts.
ClockPairs == {"fresh", "spread", "old"}

\* A clock domain, a clock pair or an approval that is not valid.
ClockFails == discipline # "FAULTED" /\ (\E pair \in ClockPairs : pair # "fresh" /\ Fault)

PollStamps ==
  /\ \/ \E quality \in Qualities, written \in BOOLEAN : MaybeLock(quality, written)
     \/ \E verdict \in Verdicts : ~Fixed /\ (PollRecovering(verdict) \/ PollLive(verdict))
     \/ \E agrees \in BOOLEAN : LockFixed(agrees)
     \/ \E verdict \in FixedVerdicts : PollFixed(verdict)
     \/ ClockFails
  /\ UNCHANGED stamp_profile

StampTime ==
  /\ discipline # "FAULTED"
  /\ receipt_age' = [s \in Core \cup Noncore |->
                       IF receipt_age[s] <= Stale THEN receipt_age[s] + 1
                       ELSE receipt_age[s]]
  /\ window' = IF window < Window THEN window + 1 ELSE window
  /\ output' = "none"
  /\ UNCHANGED <<stamp_profile, discipline, sampled, straddles, recovering, recovered,
                 paused, fresh>>

NoSamples == [s \in Core \cup Noncore |-> 0]

StampInit ==
  /\ stamp_profile \in {"motion", "nomotion", "fixed"}
  /\ discipline = "QUALIFYING"
  /\ receipt_age = [s \in Core \cup Noncore |-> 0]
  /\ sampled = NoSamples
  /\ straddles = [s \in Core \cup Noncore |-> FALSE]
  /\ window = NotStarted
  /\ recovering = FALSE
  /\ recovered = [s \in Core \cup Noncore |-> 0]
  /\ output = "none"
  /\ paused = FALSE
  /\ fresh = [s \in Core \cup Noncore |-> 0]

StampNext == (\E s \in Streams : ObserveStamp(s)) \/ PollStamps \/ StampTime

StampSpec == StampInit /\ [][StampNext]_stamp_vars

-----------------------------------------------------------------------------
\* Corrected output that was interrupted, by a stream that fell silent (whether
\* the timer saw it or not) or by a suspect sample, resumes only when every
\* stream has delivered a fresh accepted sample since: no single stream, no
\* duplicate, no old and no suspect sample brings the output back.  (The fixed
\* offset has no pause: it faults on a silence that it sees.)
ResumesOnEveryStream ==
  [][~Fixed /\ paused /\ ~paused' /\ discipline' = "LOCKED"
       => \A s \in Streams : fresh'[s] > 0]_stamp_vars

\* No corrected sample leaves the node while any of the profile's streams is
\* silent, be it the stream of the sample before or another, in every profile,
\* after a recovery and without one.
OutputIsLive == output # "none" => AllLive

\* What the docstring of the motion profile promises: interrupted output
\* resumes "after two fresh samples from every stream".  A stream that fell
\* silent twice in one recovery ends it with the second silence between its
\* last two samples, and the next recovery counts the later one as fresh.
ResumesOnRequiredSamples ==
  [][~Fixed /\ paused /\ ~paused' /\ discipline' = "LOCKED"
       => \A s \in Streams : fresh'[s] >= RequiredSamples]_stamp_vars

=============================================================================
