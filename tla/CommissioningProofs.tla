-------------------------- MODULE CommissioningProofs --------------------------
(***************************************************************************)
(* Theorems about the programs around a commissioning, for any number of   *)
(* streams, samples, profiles and attempts: the clock discipline of the    *)
(* workstation (StampDiscipline), the two network switches (WifiRollback   *)
(* and the audit of RouterAudit), the voice session of the dashboard       *)
(* (VoiceSession), the observer of a hands-free run (HandsfreeObserver)    *)
(* and the first-motion probe (FirstMotionProbe).                          *)
(***************************************************************************)
EXTENDS StampDiscipline, WifiRollback, RouterAudit, VoiceSession, HandsfreeObserver,
        FirstMotionProbe, TLAPS

-----------------------------------------------------------------------------
(* The clock discipline: types *)

Known == Core \cup Noncore

StampTypeOK ==
  /\ stamp_profile \in {"motion", "nomotion", "fixed"}
  /\ discipline \in {"QUALIFYING", "LOCKED", "FAULTED"}
  /\ receipt_age \in [Known -> Nat]
  /\ sampled \in [Known -> 0..2]
  /\ straddles \in [Known -> BOOLEAN]
  /\ recovering \in BOOLEAN /\ paused \in BOOLEAN
  /\ recovered \in [Known -> 0..RequiredSamples]
  /\ fresh \in [Known -> 0..RequiredSamples]

LEMMA StreamsKnown == Streams \subseteq Known
  BY DEF Streams, Known

LEMMA InterruptionTypes ==
  ASSUME StampTypeOK, NEW s, NEW accepts \in BOOLEAN, Interruption(s, accepts)
  PROVE  fresh' \in [Known -> 0..RequiredSamples] /\ paused' \in BOOLEAN
<1> DEFINE begins == ~paused /\ (recovering' \/ (discipline = "LOCKED" /\ ~AllLive))
           before(t) == IF begins THEN 0 ELSE fresh[t]
           next(t) == IF accepts /\ t = s /\ before(t) < RequiredSamples
                      THEN before(t) + 1 ELSE before(t)
<1>1. fresh' = [t \in Known |-> next(t)]
  BY DEF Interruption, Known
<1>2. ASSUME NEW t \in Known PROVE next(t) \in 0..RequiredSamples
  BY DisciplineAssumption DEF StampTypeOK
<1>3. paused' \in BOOLEAN
  BY DEF Interruption
<1> QED
  BY <1>1, <1>2, <1>3

\* The functions of the discipline keep to their ranges.
LEMMA RetainTypes ==
  ASSUME StampTypeOK, NEW s \in Known, Retain(s)
  PROVE  /\ receipt_age' \in [Known -> Nat] /\ sampled' \in [Known -> 0..2]
         /\ straddles' \in [Known -> BOOLEAN]
         /\ receipt_age'[s] = 0 /\ sampled'[s] > 0
         /\ \A t \in Known \ {s} : receipt_age'[t] = receipt_age[t] /\ sampled'[t] = sampled[t]
<1>1. sampled[s] \in 0..2
  BY DEF StampTypeOK
<1>2. (IF sampled[s] < 2 THEN sampled[s] + 1 ELSE sampled[s]) \in 1..2
  BY <1>1
<1>3. Silent(s) \in BOOLEAN
  BY DEF Silent
<1> QED
  BY <1>2, <1>3 DEF Retain, StampTypeOK

LEMMA CountTypes ==
  ASSUME StampTypeOK
  PROVE  /\ CountsOnEntry \in [Known -> 0..1]
         /\ CountsHere \in [Known -> 0..RequiredSamples]
         /\ \A s \in Known :
              /\ CountSample(s) \in [Known -> 0..RequiredSamples]
              /\ CountSample(s)[s] <= CountsHere[s] + 1
              /\ \A t \in Known \ {s} : CountSample(s)[t] = CountsHere[t]
<1>0. RequiredSamples \in Nat /\ RequiredSamples >= 2
  BY DisciplineAssumption
<1>1. CountsOnEntry \in [Known -> 0..1]
  BY DEF CountsOnEntry, Known
<1>2. CountsOnEntry \in [Known -> 0..RequiredSamples]
  BY <1>0, <1>1
<1>3. CountsHere \in [Known -> 0..RequiredSamples]
  BY <1>2 DEF CountsHere, StampTypeOK
<1>4. ASSUME NEW s \in Known
      PROVE  /\ CountSample(s) \in [Known -> 0..RequiredSamples]
             /\ CountSample(s)[s] <= CountsHere[s] + 1
             /\ \A t \in Known \ {s} : CountSample(s)[t] = CountsHere[t]
  <2>1. CountsHere[s] \in 0..RequiredSamples
    BY <1>3
  <2>2. (IF CountsHere[s] < RequiredSamples THEN CountsHere[s] + 1 ELSE CountsHere[s])
          \in 0..RequiredSamples
    BY <1>0, <2>1
  <2>3. CountSample(s) =
          [CountsHere EXCEPT ![s] = IF CountsHere[s] < RequiredSamples
                                    THEN CountsHere[s] + 1 ELSE CountsHere[s]]
    BY DEF CountSample
  <2> QED
    BY <1>0, <1>3, <2>1, <2>2, <2>3
<1> QED
  BY <1>1, <1>3, <1>4

-----------------------------------------------------------------------------
(* The clock discipline: its steps by what they do *)

\* A step that pauses the output, from the timer or with a suspect sample.
Enters ==
  /\ ~Fixed /\ discipline = "LOCKED" /\ ~recovering
  /\ EnterRecovery /\ output' = "none"
  /\ UNCHANGED <<discipline, receipt_age, sampled, straddles>>

Resumes(judged) ==
  /\ ~Fixed /\ discipline = "LOCKED" /\ recovering
  /\ recovering' = ~Recovers(AllLive, recovered, judged) /\ output' = "none"
  /\ UNCHANGED <<discipline, receipt_age, sampled, straddles, recovered>>

\* The qualification ends, with a lock or a fault.
Decides ==
  /\ discipline = "QUALIFYING" /\ discipline' \in {"LOCKED", "FAULTED"}
  /\ output' = "none"
  /\ UNCHANGED <<receipt_age, sampled, straddles, recovering, recovered, paused, fresh>>

Quiet(s) ==
  \/ Discard
  \/ discipline = "QUALIFYING" /\ Restart(s)
  \/ Enters

Accepts(s, judged) ==
  \/ AcceptQualifying(s)
  \/ ~Fixed /\ AcceptRecovering(s, judged)
  \/ ~Fixed /\ AcceptLive(s, judged)

AcceptsFixed(s) ==
  /\ Fixed /\ Retain(s)
  /\ \/ output' = "none"
     \/ discipline = "LOCKED" /\ \A t \in Streams \ {s} : Live(t)
  /\ UNCHANGED <<discipline, recovering, recovered>>

LEMMA ObserveSteps ==
  ASSUME NEW s \in Streams, ObserveStamp(s)
  PROVE  /\ discipline # "FAULTED" /\ stamp_profile' = stamp_profile
         /\ \/ Fault
            \/ Quiet(s) /\ Interruption(s, FALSE)
            \/ (\E judged : Accepts(s, judged)) /\ Interruption(s, TRUE)
            \/ AcceptsFixed(s) /\ Interruption(s, TRUE)
<1>1. discipline # "FAULTED" /\ stamp_profile' = stamp_profile
  BY DEF ObserveStamp
<1>2. ASSUME NEW bounded \in Bounded, NEW judged \in Verdicts,
             ObserveDiscontinuity(s, bounded, judged)
      PROVE  Fault \/ (Quiet(s) /\ Interruption(s, FALSE))
  <2>1. InRecovery \/ ~recovering
    BY DEF InRecovery
  <2> QED
    BY <1>2, <2>1 DEF ObserveDiscontinuity, DropNoncore, Quiet, Enters, Notices, InRecovery
<1>3. ASSUME NEW judged \in Verdicts, ObserveCurrent(s, judged)
      PROVE  Fault \/ (Accepts(s, judged) /\ Interruption(s, TRUE))
  BY <1>3 DEF ObserveCurrent, Accepts
<1>4. ObserveFixed(s) => Fault \/ (AcceptsFixed(s) /\ Interruption(s, TRUE))
  BY DEF ObserveFixed, FixedRefuses, FixedQualifying, PublishesFixed, FixedBreaks,
     AcceptsFixed
<1>5. ObserveAfterPause(s) \/ ObserveDuplicate(s) \/ ObserveOld(s)
        => Quiet(s) /\ Interruption(s, FALSE)
  BY DEF ObserveAfterPause, ObserveDuplicate, ObserveOld, QualificationPaused, Quiet
<1>6. ObserveRegression(s) \/ ObserveFuture(s) => Fault
  BY DEF ObserveRegression, ObserveFuture
<1> QED
  BY <1>1, <1>2, <1>3, <1>4, <1>5, <1>6 DEF ObserveStamp

LEMMA PollSteps ==
  ASSUME PollStamps
  PROVE  /\ stamp_profile' = stamp_profile
         /\ \/ Fault \/ Decides
            \/ Enters /\ Interruption("none", FALSE)
            \/ (\E judged : Resumes(judged)) /\ Interruption("none", FALSE)
<1>1. ASSUME NEW quality \in Qualities, NEW written \in BOOLEAN, MaybeLock(quality, written)
      PROVE  Decides
  BY <1>1 DEF MaybeLock, WriteReady, RejectQualification, LatchFault, Decides
<1>2. ASSUME NEW agrees \in BOOLEAN, LockFixed(agrees) PROVE Decides
  BY <1>2 DEF LockFixed, LatchFault, Decides
<1>3. ASSUME NEW judged \in Verdicts, ~Fixed, PollRecovering(judged)
      PROVE  Fault \/ (Resumes(judged) /\ Interruption("none", FALSE))
  BY <1>3 DEF PollRecovering, Resumes
<1>4. ASSUME NEW judged \in Verdicts, ~Fixed, PollLive(judged)
      PROVE  Fault \/ (Enters /\ Interruption("none", FALSE))
  BY <1>4 DEF PollLive, Enters
<1>5. ASSUME NEW judged \in FixedVerdicts, PollFixed(judged) PROVE Fault
  BY <1>5 DEF PollFixed
<1>6. ClockFails => Fault
  BY DEF ClockFails
<1> QED
  BY <1>1, <1>2, <1>3, <1>4, <1>5, <1>6 DEF PollStamps

LEMMA StampTypeInit == StampInit => StampTypeOK
<1> SUFFICES ASSUME StampInit PROVE StampTypeOK
  OBVIOUS
<1>1. /\ stamp_profile \in {"motion", "nomotion", "fixed"} /\ discipline = "QUALIFYING"
      /\ recovering = FALSE /\ paused = FALSE
  BY DEF StampInit
<1>2. /\ receipt_age = [s \in Known |-> 0] /\ sampled = [s \in Known |-> 0]
      /\ straddles = [s \in Known |-> FALSE] /\ recovered = [s \in Known |-> 0]
      /\ fresh = [s \in Known |-> 0]
  BY DEF StampInit, NoSamples, Known
<1>3. 0 \in 0..RequiredSamples /\ 0 \in 0..2 /\ 0 \in Nat
  BY DisciplineAssumption
<1>4. /\ receipt_age \in [Known -> Nat] /\ sampled \in [Known -> 0..2]
      /\ straddles \in [Known -> BOOLEAN]
  BY <1>2, <1>3
<1>5. recovered \in [Known -> 0..RequiredSamples] /\ fresh \in [Known -> 0..RequiredSamples]
  BY <1>2, <1>3
<1> QED
  BY <1>1, <1>4, <1>5 DEF StampTypeOK

LEMMA QuietTypes ==
  ASSUME StampTypeOK, NEW s \in Known,
         Quiet(s) \/ \E judged : Resumes(judged)
  PROVE  /\ discipline' = discipline
         /\ receipt_age' \in [Known -> Nat] /\ sampled' \in [Known -> 0..2]
         /\ straddles' \in [Known -> BOOLEAN] /\ recovering' \in BOOLEAN
         /\ recovered' \in [Known -> 0..RequiredSamples]
<1>1. CASE Discard
  <2>1. CountsHere \in [Known -> 0..RequiredSamples] /\ InRecovery \in BOOLEAN
    BY CountTypes DEF InRecovery, StampTypeOK
  <2> QED
    BY <1>1, <2>1 DEF Discard, StampTypeOK
<1>2. CASE Restart(s)
  BY <1>2 DEF Restart, StampTypeOK, Known
<1>3. CASE Enters
  <2>1. CountsOnEntry \in [Known -> 0..RequiredSamples]
    BY CountTypes, DisciplineAssumption
  <2> QED
    BY <1>3, <2>1 DEF Enters, EnterRecovery, StampTypeOK
<1>4. CASE \E judged : Resumes(judged)
  BY <1>4 DEF Resumes, StampTypeOK
<1> QED
  BY <1>1, <1>2, <1>3, <1>4 DEF Quiet

LEMMA AcceptTypes ==
  ASSUME StampTypeOK, NEW s \in Known, NEW judged,
         Accepts(s, judged) \/ AcceptsFixed(s)
  PROVE  /\ discipline' = discipline
         /\ receipt_age' \in [Known -> Nat] /\ sampled' \in [Known -> 0..2]
         /\ straddles' \in [Known -> BOOLEAN] /\ recovering' \in BOOLEAN
         /\ recovered' \in [Known -> 0..RequiredSamples]
<1>1. Retain(s) /\ discipline' = discipline
  BY DEF Accepts, AcceptsFixed, AcceptQualifying, AcceptRecovering, AcceptLive
<1>2. /\ receipt_age' \in [Known -> Nat] /\ sampled' \in [Known -> 0..2]
      /\ straddles' \in [Known -> BOOLEAN]
  BY <1>1, RetainTypes
<1>3. recovering' \in BOOLEAN /\ recovered' \in [Known -> 0..RequiredSamples]
  <2>1. /\ CountSample(s) \in [Known -> 0..RequiredSamples]
        /\ CountsOnEntry \in [Known -> 0..RequiredSamples]
    BY CountTypes, DisciplineAssumption
  <2>2. CASE AcceptQualifying(s) \/ AcceptsFixed(s)
    BY <2>2 DEF AcceptQualifying, AcceptsFixed, StampTypeOK
  <2>3. CASE AcceptRecovering(s, judged)
    BY <2>1, <2>3 DEF AcceptRecovering
  <2>4. CASE AcceptLive(s, judged)
    BY <2>1, <2>4 DEF AcceptLive, EnterRecovery, StampTypeOK
  <2> QED
    BY <2>2, <2>3, <2>4 DEF Accepts
<1> QED
  BY <1>1, <1>2, <1>3

LEMMA StampTypeNext == StampTypeOK /\ [StampNext]_stamp_vars => StampTypeOK'
<1> SUFFICES ASSUME StampTypeOK, [StampNext]_stamp_vars PROVE StampTypeOK'
  OBVIOUS
<1>1. ASSUME Fault, stamp_profile' = stamp_profile PROVE StampTypeOK'
  BY <1>1 DEF Fault, LatchFault, StampTypeOK
<1>2. ASSUME NEW s, NEW known \in Known, NEW accepts \in BOOLEAN, NEW judged,
             \/ Quiet(known) \/ Resumes(judged)
             \/ Accepts(known, judged) \/ AcceptsFixed(known),
             Interruption(s, accepts), stamp_profile' = stamp_profile
      PROVE  StampTypeOK'
  <2>1. fresh' \in [Known -> 0..RequiredSamples] /\ paused' \in BOOLEAN
    BY <1>2, InterruptionTypes
  <2>2. /\ discipline' = discipline
        /\ receipt_age' \in [Known -> Nat] /\ sampled' \in [Known -> 0..2]
        /\ straddles' \in [Known -> BOOLEAN] /\ recovering' \in BOOLEAN
        /\ recovered' \in [Known -> 0..RequiredSamples]
    BY <1>2, QuietTypes, AcceptTypes
  <2> QED
    BY <1>2, <2>1, <2>2 DEF StampTypeOK
<1>3. ASSUME NEW s \in Streams, ObserveStamp(s) PROVE StampTypeOK'
  BY <1>1, <1>2, <1>3, ObserveSteps, StreamsKnown
<1>4. ASSUME PollStamps PROVE StampTypeOK'
  <2>1. PICK known : known \in Known
    BY DisciplineAssumption DEF ConfigurationIsValid, Known
  <2>2. Decides => StampTypeOK'
    BY <1>4, PollSteps DEF Decides, StampTypeOK
  <2>3. Enters => Quiet(known)
    BY DEF Quiet
  <2> QED
    BY <1>1, <1>2, <1>4, <2>1, <2>2, <2>3, PollSteps
<1>5. ASSUME StampTime PROVE StampTypeOK'
  <2>1. receipt_age' \in [Known -> Nat]
    BY <1>5 DEF StampTime, StampTypeOK, Known
  <2> QED
    BY <1>5, <2>1 DEF StampTime, StampTypeOK
<1>6. ASSUME UNCHANGED stamp_vars PROVE StampTypeOK'
  BY <1>6 DEF stamp_vars, StampTypeOK
<1> QED
  BY <1>3, <1>4, <1>5, <1>6 DEF StampNext

\* For any set of streams: corrected output is live output.
THEOREM StampOutputIsLive == StampSpec => []OutputIsLive
<1>1. StampInit => StampTypeOK /\ OutputIsLive
  BY StampTypeInit DEF StampInit, OutputIsLive
<1>2. StampTypeOK /\ OutputIsLive /\ [StampNext]_stamp_vars
        => StampTypeOK' /\ OutputIsLive'
  <2> SUFFICES ASSUME StampTypeOK, OutputIsLive, [StampNext]_stamp_vars
               PROVE  OutputIsLive'
    BY StampTypeNext
  <2>1. ASSUME output' = "none" PROVE OutputIsLive'
    BY <2>1 DEF OutputIsLive
  <2>2. ASSUME NEW s \in Streams, stamp_profile' = stamp_profile, Retain(s),
               \A t \in Streams \ {s} : Live(t)
        PROVE  OutputIsLive'
    <3>1. /\ receipt_age'[s] = 0 /\ sampled'[s] > 0
          /\ \A t \in Known \ {s} : receipt_age'[t] = receipt_age[t]
                                    /\ sampled'[t] = sampled[t]
      BY <2>2, RetainTypes, StreamsKnown
    <3>2. Streams' = Streams
      BY <2>2 DEF Streams
    <3>3. ASSUME NEW t \in Streams PROVE Live(t)'
      BY <2>2, <3>1, <3>3, StreamsKnown, DisciplineAssumption
         DEF Live, ConfigurationIsValid
    <3> QED
      BY <3>2, <3>3 DEF OutputIsLive, AllLive
  <2>3. ASSUME NEW s \in Streams, ObserveStamp(s) PROVE OutputIsLive'
    <3>1. Fault \/ Quiet(s) => output' = "none"
      BY DEF Fault, LatchFault, Quiet, Discard, Restart, Enters
    <3>2. ASSUME NEW judged, Accepts(s, judged)
          PROVE  \/ output' = "none"
                 \/ Retain(s) /\ \A t \in Streams \ {s} : Live(t)
      BY <3>2 DEF Accepts, AcceptQualifying, AcceptRecovering, AcceptLive, Recovers,
         InRecovery, Notices, AllLive, PublishCorrected
    <3> QED
      BY <2>1, <2>2, <2>3, <3>1, <3>2, ObserveSteps DEF AcceptsFixed
  <2>4. PollStamps \/ StampTime => output' = "none"
    BY PollSteps DEF Fault, LatchFault, Decides, Enters, Resumes, StampTime
  <2>5. UNCHANGED stamp_vars => OutputIsLive'
    BY DEF stamp_vars, OutputIsLive, AllLive, Live, Streams
  <2> QED
    BY <2>1, <2>3, <2>4, <2>5 DEF StampNext
<1> QED
  BY <1>1, <1>2, PTL DEF StampSpec

-----------------------------------------------------------------------------
(* The clock discipline: an interruption and its end *)

\* A locked discipline is interrupted as long as it recovers, and has counted at most
\* one sample of a stream more than came since: the one that ended its silence.
PauseInv ==
  /\ Fixed \/ discipline = "QUALIFYING" => ~recovering
  /\ discipline = "QUALIFYING" => ~paused
  /\ ~Fixed /\ discipline = "LOCKED" => (paused <=> recovering)
  /\ recovering => \A s \in Known : recovered[s] <= fresh[s] + 1

\* What a step adds to the history.
LEMMA InterruptionCounts ==
  ASSUME StampTypeOK, NEW s, NEW accepts \in BOOLEAN, Interruption(s, accepts)
  PROVE  LET begins == ~paused /\ (recovering' \/ (discipline = "LOCKED" /\ ~AllLive))
         IN  /\ paused' <=> /\ paused \/ begins
                            /\ output' = "none"
                            /\ ~(recovering /\ ~recovering')
             /\ \A t \in Known :
                  /\ ~begins => fresh'[t] >= fresh[t]
                  /\ begins => fresh'[t] >= 0
                  /\ accepts /\ t = s =>
                       \/ fresh'[t] >= RequiredSamples
                       \/ begins /\ fresh'[t] >= 1
                       \/ ~begins /\ fresh'[t] >= fresh[t] + 1
<1> DEFINE begins == ~paused /\ (recovering' \/ (discipline = "LOCKED" /\ ~AllLive))
           before(t) == IF begins THEN 0 ELSE fresh[t]
           next(t) == IF accepts /\ t = s /\ before(t) < RequiredSamples
                      THEN before(t) + 1 ELSE before(t)
<1>1. fresh' = [t \in Known |-> next(t)]
  BY DEF Interruption, Known
<1>2. paused' <=> (paused \/ begins) /\ output' = "none" /\ ~(recovering /\ ~recovering')
  BY DEF Interruption
<1>3. ASSUME NEW t \in Known
      PROVE  /\ ~begins => fresh'[t] >= fresh[t]
             /\ begins => fresh'[t] >= 0
             /\ accepts /\ t = s => \/ fresh'[t] >= RequiredSamples
                                    \/ begins /\ fresh'[t] >= 1
                                    \/ ~begins /\ fresh'[t] >= fresh[t] + 1
  <2>1. fresh'[t] = next(t) /\ fresh[t] \in 0..RequiredSamples /\ RequiredSamples \in Nat
    BY <1>1, <1>3, DisciplineAssumption DEF StampTypeOK
  <2> HIDE DEF begins
  <2> QED
    BY <2>1
<1> QED
  BY <1>2, <1>3

\* While a recovery goes on or begins, the count stays with what came since.
LEMMA CountsBound ==
  ASSUME StampTypeOK, PauseInv, StampTypeOK', NEW s, NEW accepts \in BOOLEAN,
         Interruption(s, accepts), ~Fixed, discipline = "LOCKED",
         \A t \in Known : \/ recovered'[t] <= CountsHere[t]
                          \/ accepts /\ t = s /\ recovered'[t] <= CountsHere[t] + 1,
         Notices \/ recovering
  PROVE  \A t \in Known : recovered'[t] <= fresh'[t] + 1
<1> DEFINE begins == ~paused /\ (recovering' \/ (discipline = "LOCKED" /\ ~AllLive))
<1>1. begins <=> ~recovering
  BY DEF PauseInv, Notices
<1> SUFFICES ASSUME NEW t \in Known PROVE recovered'[t] <= fresh'[t] + 1
  OBVIOUS
<1>2. /\ recovered'[t] \in 0..RequiredSamples /\ fresh'[t] \in 0..RequiredSamples
      /\ fresh[t] \in 0..RequiredSamples /\ CountsOnEntry[t] \in 0..1
      /\ recovered[t] \in 0..RequiredSamples /\ RequiredSamples \in Nat
  BY CountTypes, DisciplineAssumption DEF StampTypeOK
<1>3. /\ ~begins => fresh'[t] >= fresh[t]
      /\ accepts /\ t = s => \/ fresh'[t] >= RequiredSamples
                             \/ begins /\ fresh'[t] >= 1
                             \/ ~begins /\ fresh'[t] >= fresh[t] + 1
  BY InterruptionCounts
<1> HIDE DEF begins
<1>4. CASE recovering
  <2>1. CountsHere[t] = recovered[t] /\ recovered[t] <= fresh[t] + 1
    BY <1>4 DEF CountsHere, Notices, PauseInv
  <2> QED
    BY <1>1, <1>2, <1>3, <1>4, <2>1
<1>5. CASE ~recovering /\ Notices
  <2>1. CountsHere[t] \in 0..1
    BY <1>2, <1>5 DEF CountsHere
  <2> QED
    BY <1>1, <1>2, <1>3, <1>5, <2>1
<1> QED
  BY <1>4, <1>5

\* A pause that is entered, or kept.
LEMMA PauseKept ==
  ASSUME StampTypeOK, PauseInv, NEW s, NEW accepts \in BOOLEAN,
         Interruption(s, accepts), ~Fixed, discipline = "LOCKED", discipline' = "LOCKED",
         stamp_profile' = stamp_profile, recovering', output' = "none",
         \A t \in Known : recovered'[t] <= fresh'[t] + 1
  PROVE  PauseInv'
<1>1. paused'
  BY InterruptionCounts
<1> QED
  BY <1>1 DEF PauseInv, Fixed

\* A step that leaves the recovery, or was not in one.
LEMMA PauseEnds ==
  ASSUME PauseInv, StampTypeOK, NEW s, NEW accepts \in BOOLEAN, Interruption(s, accepts),
         ~recovering', stamp_profile' = stamp_profile, discipline' = discipline,
         \/ discipline = "QUALIFYING" \/ Fixed
         \/ output' # "none" \/ recovering
         \/ AllLive /\ ~recovering
  PROVE  PauseInv'
<1>1. paused' <=> /\ paused \/ (~paused /\ discipline = "LOCKED" /\ ~AllLive)
                  /\ output' = "none" /\ ~recovering
  BY InterruptionCounts
<1> QED
  BY <1>1 DEF PauseInv, Fixed

LEMMA QuietPause ==
  ASSUME StampTypeOK, StampTypeOK', PauseInv, NEW s, NEW u \in Known, Quiet(u),
         Interruption(s, FALSE), stamp_profile' = stamp_profile, discipline # "FAULTED"
  PROVE  PauseInv' /\ (recovering => recovering') /\ output' = "none"
<1>1. CASE Discard
  <2>1. /\ recovering' = InRecovery /\ recovered' = CountsHere /\ output' = "none"
        /\ discipline' = discipline
    BY <1>1 DEF Discard
  <2>2. recovering => recovering'
    BY <2>1 DEF InRecovery
  <2>3. CASE InRecovery
    <3>1. ~Fixed /\ discipline = "LOCKED"
      BY <2>3 DEF InRecovery, Notices, PauseInv, StampTypeOK
    <3>2. Notices \/ recovering
      BY <2>3 DEF InRecovery
    <3>3. \A t \in Known : recovered'[t] <= CountsHere[t]
      BY <2>1, CountTypes, DisciplineAssumption
    <3>4. \A t \in Known : recovered'[t] <= fresh'[t] + 1
      BY <3>1, <3>2, <3>3, CountsBound
    <3> QED
      BY <2>1, <2>2, <2>3, <3>1, <3>4, PauseKept
  <2>4. CASE ~InRecovery
    <3>1. ~recovering /\ (discipline = "QUALIFYING" \/ Fixed \/ AllLive)
      BY <2>4 DEF InRecovery, Notices, StampTypeOK
    <3> QED
      BY <2>1, <2>2, <2>4, <3>1, PauseEnds
  <2> QED
    BY <2>3, <2>4
<1>2. CASE discipline = "QUALIFYING" /\ Restart(u)
  <2>1. ~recovering
    BY <1>2 DEF PauseInv
  <2> QED
    BY <1>2, <2>1, PauseEnds DEF Restart
<1>3. CASE Enters
  <2>1. /\ ~Fixed /\ discipline = "LOCKED" /\ discipline' = "LOCKED" /\ ~recovering
        /\ recovering' /\ output' = "none" /\ recovered' = CountsOnEntry
    BY <1>3 DEF Enters, EnterRecovery
  <2>2. \A t \in Known : recovered'[t] \in 0..1
    BY <2>1, CountTypes
  <2>3. \A t \in Known : recovered'[t] <= fresh'[t] + 1
    BY <2>2, DisciplineAssumption DEF StampTypeOK
  <2> QED
    BY <2>1, <2>3, PauseKept
<1> QED
  BY <1>1, <1>2, <1>3 DEF Quiet

LEMMA AcceptPause ==
  ASSUME StampTypeOK, StampTypeOK', PauseInv, NEW s \in Known, NEW judged,
         Accepts(s, judged), Interruption(s, TRUE), stamp_profile' = stamp_profile
  PROVE  /\ PauseInv'
         /\ recovering /\ ~recovering' => \A t \in Streams : fresh'[t] > 0
<1>1. CASE AcceptQualifying(s)
  BY <1>1, PauseEnds DEF AcceptQualifying, PauseInv
<1>2. CASE ~Fixed /\ AcceptRecovering(s, judged)
  <2>1. /\ discipline = "LOCKED" /\ discipline' = "LOCKED" /\ recovered' = CountSample(s)
        /\ InRecovery
        /\ recovering' \/ (output' = s /\ \A t \in Streams : CountSample(s)[t] >= RequiredSamples)
        /\ recovering' => output' = "none"
    BY <1>2 DEF AcceptRecovering, Recovers
  <2>2. \A t \in Known : \/ recovered'[t] <= CountsHere[t]
                         \/ t = s /\ recovered'[t] <= CountsHere[t] + 1
    BY <2>1, CountTypes, DisciplineAssumption
  <2>3. Notices \/ recovering
    BY <2>1 DEF InRecovery
  <2>4. \A t \in Known : recovered'[t] <= fresh'[t] + 1
    BY <1>2, <2>1, <2>2, <2>3, CountsBound
  <2>5. CASE recovering'
    <3>1. PauseInv'
      BY <1>2, <2>1, <2>4, <2>5, PauseKept
    <3> QED
      BY <2>5, <3>1
  <2>6. CASE ~recovering'
    <3>1. output' # "none"
      BY <2>1, <2>6, DisciplineAssumption DEF Known
    <3>2. PauseInv'
      BY <2>1, <2>6, <3>1, PauseEnds
    <3>3. ASSUME NEW t \in Streams PROVE fresh'[t] > 0
      <4>1. /\ recovered'[t] >= RequiredSamples /\ recovered'[t] <= fresh'[t] + 1
            /\ recovered'[t] \in Nat /\ fresh'[t] \in Nat
        BY <2>1, <2>4, <2>6, <3>3, StreamsKnown, DisciplineAssumption DEF StampTypeOK
      <4> QED
        BY <4>1, DisciplineAssumption
    <3> QED
      BY <3>2, <3>3
  <2> QED
    BY <2>5, <2>6
<1>3. CASE ~Fixed /\ AcceptLive(s, judged)
  <2>1. ~recovering /\ AllLive /\ discipline = "LOCKED" /\ discipline' = "LOCKED"
    BY <1>3 DEF AcceptLive, InRecovery, Notices
  <2>2. CASE judged = "incomplete"
    <3>1. recovering' /\ output' = "none" /\ recovered' = CountsOnEntry
      BY <1>3, <2>1, <2>2 DEF AcceptLive, EnterRecovery
    <3>2. \A t \in Known : recovered'[t] <= fresh'[t] + 1
      BY <3>1, CountTypes, DisciplineAssumption DEF StampTypeOK
    <3>3. PauseInv'
      BY <1>3, <2>1, <3>1, <3>2, PauseKept
    <3> QED
      BY <2>1, <3>3
  <2>3. CASE judged # "incomplete"
    <3>1. ~recovering'
      BY <1>3, <2>1, <2>3 DEF AcceptLive
    <3>2. PauseInv'
      BY <1>3, <2>1, <3>1, PauseEnds DEF AcceptLive
    <3> QED
      BY <2>1, <3>2
  <2> QED
    BY <2>2, <2>3
<1> QED
  BY <1>1, <1>2, <1>3 DEF Accepts

LEMMA ResumePause ==
  ASSUME StampTypeOK, PauseInv, NEW judged, Resumes(judged), Interruption("none", FALSE),
         stamp_profile' = stamp_profile
  PROVE  PauseInv' /\ (~recovering' => \A t \in Streams : fresh'[t] > 0)
<1>1. /\ ~Fixed /\ discipline = "LOCKED" /\ recovering /\ paused /\ discipline' = discipline
      /\ recovered' = recovered /\ output' = "none"
  BY DEF Resumes, PauseInv
<1>2. ASSUME NEW t \in Known
      PROVE  /\ recovered'[t] <= fresh'[t] + 1 /\ fresh'[t] >= fresh[t]
             /\ recovered[t] <= fresh[t] + 1
             /\ recovered[t] \in Nat /\ fresh[t] \in Nat
  <2>1. fresh'[t] >= fresh[t]
    BY <1>1, InterruptionCounts
  <2>2. recovered[t] <= fresh[t] + 1 /\ recovered[t] \in Nat /\ fresh[t] \in Nat
    BY <1>1, DisciplineAssumption DEF PauseInv, StampTypeOK
  <2>3. fresh'[t] \in 0..RequiredSamples
    BY InterruptionTypes
  <2> QED
    BY <1>1, <2>1, <2>2, <2>3, DisciplineAssumption
<1>3. CASE recovering'
  <2>1. PauseInv'
    BY <1>1, <1>2, <1>3, PauseKept
  <2> QED
    BY <1>3, <2>1
<1>4. CASE ~recovering'
  <2>1. PauseInv'
    BY <1>1, <1>4, PauseEnds
  <2>2. ASSUME NEW t \in Streams PROVE fresh'[t] > 0
    <3>1. recovered[t] >= RequiredSamples
      BY <1>4, <2>2 DEF Resumes, Recovers
    <3>2. fresh'[t] \in 0..RequiredSamples
      BY <2>2, InterruptionTypes, StreamsKnown
    <3> QED
      BY <1>2, <2>2, <3>1, <3>2, StreamsKnown, DisciplineAssumption
  <2> QED
    BY <2>1, <2>2
<1> QED
  BY <1>3, <1>4

\* For any set of streams: interrupted output comes back on evidence from all of them.
THEOREM OutputResumesOnEveryStream == StampSpec => ResumesOnEveryStream
<1> DEFINE Earned == ~Fixed /\ paused /\ ~paused' /\ discipline' = "LOCKED"
                       => \A s \in Streams : fresh'[s] > 0
<1>1. StampInit => StampTypeOK /\ PauseInv
  BY StampTypeInit DEF StampInit, PauseInv
<1>2. StampTypeOK /\ PauseInv /\ [StampNext]_stamp_vars
        => StampTypeOK' /\ PauseInv' /\ Earned
  <2> SUFFICES ASSUME StampTypeOK, PauseInv, [StampNext]_stamp_vars
               PROVE  PauseInv' /\ Earned
    BY StampTypeNext
  <2>0. StampTypeOK'
    BY StampTypeNext
  <2>1. ASSUME Fault, stamp_profile' = stamp_profile PROVE PauseInv' /\ Earned
    BY <2>1 DEF Fault, LatchFault, PauseInv, Fixed
  <2>2. ASSUME NEW s, NEW u \in Known, Quiet(u), Interruption(s, FALSE),
               stamp_profile' = stamp_profile, discipline # "FAULTED"
        PROVE  PauseInv' /\ Earned
    <3>1. PauseInv' /\ (recovering => recovering') /\ output' = "none"
      BY <2>0, <2>2, QuietPause
    <3>2. paused => paused' \/ Fixed
      BY <2>2, <3>1, InterruptionCounts DEF PauseInv, StampTypeOK
    <3> QED
      BY <3>1, <3>2
  <2>3. ASSUME NEW s \in Streams, NEW judged, Accepts(s, judged), Interruption(s, TRUE),
               stamp_profile' = stamp_profile, discipline # "FAULTED"
        PROVE  PauseInv' /\ Earned
    <3>1. PauseInv' /\ (recovering /\ ~recovering' => \A t \in Streams : fresh'[t] > 0)
      BY <2>0, <2>3, AcceptPause, StreamsKnown
    <3>2. ~Fixed /\ paused /\ ~paused' /\ discipline' = "LOCKED"
            => recovering /\ ~recovering'
      BY <2>3, <3>1 DEF PauseInv, StampTypeOK, Fixed
    <3> QED
      BY <3>1, <3>2
  <2>4. ASSUME NEW s \in Streams, AcceptsFixed(s), Interruption(s, TRUE),
               stamp_profile' = stamp_profile
        PROVE  PauseInv' /\ Earned
    <3>1. Fixed /\ ~recovering' /\ discipline' = discipline
      BY <2>4 DEF AcceptsFixed, PauseInv
    <3> QED
      BY <2>4, <3>1, PauseEnds
  <2>5. ASSUME NEW s \in Streams, ObserveStamp(s) PROVE PauseInv' /\ Earned
    BY <2>1, <2>2, <2>3, <2>4, <2>5, ObserveSteps, StreamsKnown
  <2>6. ASSUME PollStamps PROVE PauseInv' /\ Earned
    <3>1. stamp_profile' = stamp_profile
      BY <2>6, PollSteps
    <3>2. CASE Decides
      BY <3>1, <3>2 DEF Decides, PauseInv, Fixed
    <3>3. CASE Enters /\ Interruption("none", FALSE)
      <4>1. PICK u : u \in Known
        BY DisciplineAssumption DEF ConfigurationIsValid, Known
      <4>2. Quiet(u) /\ discipline # "FAULTED"
        BY <3>3 DEF Quiet, Enters
      <4> QED
        BY <2>2, <3>1, <3>3, <4>1, <4>2
    <3>4. ASSUME NEW judged, Resumes(judged), Interruption("none", FALSE)
          PROVE  PauseInv' /\ Earned
      <4>1. PauseInv' /\ (~recovering' => \A t \in Streams : fresh'[t] > 0)
        BY <3>1, <3>4, ResumePause
      <4>2. discipline' = "LOCKED" /\ ~Fixed /\ ~Fixed'
        BY <3>1, <3>4 DEF Resumes, Fixed
      <4> QED
        BY <4>1, <4>2 DEF PauseInv
    <3> QED
      BY <2>1, <2>6, <3>1, <3>2, <3>3, <3>4, PollSteps
  <2>7. ASSUME StampTime PROVE PauseInv' /\ Earned
    BY <2>7 DEF StampTime, PauseInv, Fixed
  <2>8. ASSUME UNCHANGED stamp_vars PROVE PauseInv' /\ Earned
    BY <2>8 DEF stamp_vars, PauseInv, Fixed
  <2> QED
    BY <2>5, <2>6, <2>7, <2>8 DEF StampNext
<1>3. StampTypeOK /\ PauseInv /\ [StampNext]_stamp_vars => [Earned]_stamp_vars
  BY <1>2
<1> QED
  BY <1>1, <1>2, <1>3, PTL DEF StampSpec, ResumesOnEveryStream

-----------------------------------------------------------------------------
(* The switch to the private Wi-Fi *)

\* The rollback is armed from the first change on until it is over.
Phases ==
  /\ stage \in {"preflight", "forward", "rollback", "main"}
  /\ rollback_armed <=> stage \in {"forward", "rollback"}
  /\ stage = "rollback" => rollback_started
  /\ rollback_started => stage \in {"rollback", "main"}
  /\ stage = "preflight" => command_result = "none"
  /\ result # "none" \/ restored => stage = "main"
  /\ result \in {"pass", "interrupted"} => ~rollback_started \/ restored

IsOriginal == wifi = "campus" /\ wired

\* What the workflow may assume of the network, if nothing has disturbed it since
\* it looked: a run of valid samples means what the look waits for.
Seen ==
  \/ disturbed
  \/ /\ restored \/ (~rollback_started /\ stage \in {"preflight", "main"}) => IsOriginal
     /\ stage = "forward" /\ step = "wired_off" /\ command_result = "done" => ~wired
     /\ stage = "forward" /\ step = "target" => ~wired
     /\ stage = "rollback" /\ step \in {"look", "look_again"} /\ consecutive # 0 => Wanted
     /\ stage = "rollback" /\ step = "wired" => NoHostOwner

WifiInv == Phases /\ Seen

\* A request changes its own device only, and as it asks.
LEMMA RequestEffect ==
  ASSUME NEW request, NEW how, Request(request, how)
  PROVE  /\ wifi' = wifi \/ wifi' = WifiAfter(request)
         /\ wired' = wired \/ wired' = WiredAfter(request)
         /\ how = "done" => wifi' = WifiAfter(request) /\ wired' = WiredAfter(request)
         /\ request \in {"wired", "wired_off"} => wifi' = wifi
         /\ request \in {"campus", "target", "target_off"} => wired' = wired
         /\ request = "wired_off" => ~wired' \/ wired' = wired
         /\ request \in {"campus", "target_off"} => wifi' # "target" \/ wifi' = wifi
<1>1. request \in {"wired", "wired_off"} => WifiAfter(request) = wifi
  BY DEF WifiAfter
<1>2. request \in {"campus", "target", "target_off"} => WiredAfter(request) = wired
  BY DEF WiredAfter
<1>3. request = "wired_off" => WiredAfter(request) = FALSE
  BY DEF WiredAfter
<1>4. request \in {"campus", "target_off"} => WifiAfter(request) # "target"
  BY DEF WifiAfter
<1> QED
  BY <1>1, <1>2, <1>3, <1>4 DEF Request, network

LEMMA WifiStep ==
  ASSUME WifiInv, [WifiNext]_wifi_vars
  PROVE  /\ WifiInv'
         /\ HostOnWifi' /\ HostOnWire' /\ ~(HostOnWifi /\ HostOnWire) => disturbed'
<1> DEFINE NoNew == HostOnWifi' /\ HostOnWire' /\ ~(HostOnWifi /\ HostOnWire) => disturbed'
<1>1. UNCHANGED network => NoNew
  BY DEF network, HostOnWifi, HostOnWire
<1>2. ASSUME NEW error, Raise(error), stage \in {"preflight", "forward"}
      PROVE  WifiInv' /\ NoNew
  <2>1. Phases'
    BY <1>2 DEF Raise, WifiInv, Phases
  <2>2. Seen'
    BY <1>2 DEF Raise, WifiInv, Phases, Seen, IsOriginal, network
  <2> QED
    BY <1>1, <1>2, <2>1, <2>2 DEF WifiInv, Raise
<1>3. ASSUME Preflight PROVE WifiInv' /\ NoNew
  <2>1. CASE \E error : Raise(error)
    BY <1>2, <1>3, <2>1 DEF Preflight
  <2>2. CASE /\ stage' = "forward" /\ step' = "wired_off" /\ rollback_armed' = TRUE
             /\ UNCHANGED <<round, command_result, pending_signum, rollback_started,
                            outcome, looks, network, disturbed>>
    BY <1>1, <1>3, <2>2
    DEF Preflight, WifiInv, Phases, Seen, IsOriginal, network, outcome
  <2> QED
    BY <1>3, <2>1, <2>2 DEF Preflight, RaisePending
<1>4. ASSUME RunCommand PROVE WifiInv' /\ NoNew
  <2>1. CASE RaisePending
    BY <1>2, <1>4, <2>1 DEF RunCommand, RaisePending
  <2>2. ASSUME NEW how \in Outcomes, Request(step, how), command_result' = how,
               UNCHANGED <<stage, step, round, pending_signum, rollback_armed,
                           rollback_started, outcome, looks, disturbed>>
        PROVE  WifiInv' /\ NoNew
    <3>1. stage = "forward" /\ step \in {"wired_off", "target"}
      BY <1>4 DEF RunCommand
    <3>2. Phases'
      BY <2>2, <3>1 DEF WifiInv, Phases, outcome
    <3>3. how = "done" /\ step = "wired_off" => ~wired'
      BY <2>2, RequestEffect DEF WiredAfter
    <3>4. step = "target" => wired' = wired
      BY <2>2, RequestEffect
    <3>5. Seen'
      BY <2>2, <3>1, <3>3, <3>4 DEF WifiInv, Phases, Seen, outcome
    <3>6. NoNew
      <4>1. CASE step = "wired_off"
        BY <2>2, <4>1, RequestEffect DEF HostOnWifi, HostOnWire
      <4>2. CASE step = "target"
        BY <2>2, <3>1, <3>4, <4>2 DEF HostOnWire, WifiInv, Seen
      <4> QED
        BY <3>1, <4>1, <4>2
    <3> QED
      BY <3>2, <3>5, <3>6 DEF WifiInv
  <2> QED
    BY <1>4, <2>1, <2>2 DEF RunCommand
<1>5. ASSUME CommandReturns PROVE WifiInv' /\ NoNew
  <2>1. CASE \E error : Raise(error)
    BY <1>2, <1>5, <2>1 DEF CommandReturns
  <2>2. CASE /\ command_result = "done"
             /\ step' = IF step = "wired_off" THEN "target" ELSE "validate"
             /\ command_result' = "none"
             /\ UNCHANGED <<stage, round, pending_signum, rollback_armed,
                            rollback_started, outcome, looks, network, disturbed>>
    BY <1>1, <1>5, <2>2
    DEF CommandReturns, WifiInv, Phases, Seen, IsOriginal, network, outcome
  <2> QED
    BY <1>5, <2>1, <2>2 DEF CommandReturns, RaisePending
<1>6. ASSUME ValidatePrivate PROVE WifiInv' /\ NoNew
  <2>1. CASE \E error : Raise(error)
    BY <1>2, <1>6, <2>1 DEF ValidatePrivate
  <2>2. CASE /\ step' = "hold"
             /\ UNCHANGED <<stage, round, command_result, pending_signum, rollback_armed,
                            rollback_started, outcome, looks, network, disturbed>>
    BY <1>1, <1>6, <2>2
    DEF ValidatePrivate, WifiInv, Phases, Seen, IsOriginal, network, outcome
  <2> QED
    BY <1>6, <2>1, <2>2 DEF ValidatePrivate, RaisePending
<1>7. ASSUME RollbackCommand PROVE WifiInv' /\ NoNew
  <2>1. PICK how \in Outcomes : Request(RequestOf(step), how)
    BY <1>7 DEF RollbackCommand, Deferred
  <2>2. /\ stage = "rollback" /\ stage' = stage /\ step' = StepAfter(step)
        /\ step \in {"campus", "target_off", "campus_again", "wired"}
        /\ consecutive' = 0
        /\ UNCHANGED <<round, command_result, rollback_armed, rollback_started, restored,
                       result, disturbed>>
    BY <1>7 DEF RollbackCommand, Deferred
  <2>3. Phases'
    BY <2>2 DEF WifiInv, Phases
  <2>4. step' # "wired"
    BY <2>2 DEF StepAfter
  <2>5. Seen'
    BY <2>2, <2>4 DEF WifiInv, Phases, Seen
  <2>6. NoNew
    <3>1. CASE step = "wired"
      BY <2>1, <2>2, <3>1, RequestEffect
      DEF RequestOf, HostOnWifi, WifiInv, Seen, NoHostOwner
    <3>2. CASE step # "wired"
      <4>1. RequestOf(step) \in {"campus", "target_off"}
        BY <2>2, <3>2 DEF RequestOf
      <4> QED
        BY <2>1, <4>1, RequestEffect DEF HostOnWifi, HostOnWire
    <3> QED
      BY <3>1, <3>2
  <2> QED
    BY <2>3, <2>5, <2>6 DEF WifiInv
<1>8. ASSUME NEW valid \in BOOLEAN, Sample(valid) PROVE WifiInv' /\ NoNew
  <2>1. Phases'
    BY <1>8 DEF Sample, WifiInv, Phases, outcome
  <2>2. Wanted' = Wanted
    BY <1>8 DEF Sample, Wanted, NoHostOwner, HostOnWifi, HostOnWire, Fallback, network
  <2>3. consecutive' # 0 => Wanted
    BY <1>8 DEF Sample
  <2>4. Seen'
    BY <1>8, <2>2, <2>3 DEF Sample, WifiInv, Phases, Seen, outcome
  <2> QED
    BY <1>1, <1>8, <2>1, <2>4 DEF WifiInv, Sample
<1>9. ASSUME Stable PROVE WifiInv' /\ NoNew
  <2>1. consecutive # 0
    BY <1>9, RollbackAssumption DEF Stable
  <2>2. CASE step = "look"
    <3>1. /\ stage = "rollback" /\ step' = "wired"
          /\ UNCHANGED <<stage, rollback_armed, restored, rollback_started, result, network,
                         disturbed>>
      BY <1>9, <2>2 DEF Stable
    <3>2. Phases'
      BY <3>1 DEF WifiInv, Phases
    <3>3. disturbed \/ NoHostOwner
      BY <2>1, <2>2, <3>1 DEF WifiInv, Seen, Wanted
    <3>4. Seen'
      BY <3>1, <3>3 DEF WifiInv, Phases, Seen, NoHostOwner, HostOnWifi, HostOnWire, network
    <3> QED
      BY <1>1, <3>1, <3>2, <3>4 DEF WifiInv
  <2>3. CASE step = "look_again"
    <3>1. /\ stage = "rollback" /\ restored' = ~Fallback /\ stage' = "main"
          /\ rollback_armed' = FALSE
          /\ UNCHANGED <<rollback_started, result, network, disturbed>>
      BY <1>9, <2>3 DEF Stable, Ends
    <3>2. Phases'
      BY <3>1 DEF WifiInv, Phases
    <3>3. disturbed \/ Fallback \/ IsOriginal
      BY <2>1, <2>3, <3>1 DEF WifiInv, Seen, Wanted, IsOriginal
    <3>4. Seen'
      BY <3>1, <3>3 DEF WifiInv, Phases, Seen, IsOriginal, network
    <3> QED
      BY <1>1, <3>1, <3>2, <3>4 DEF WifiInv
  <2> QED
    BY <1>9, <2>2, <2>3 DEF Stable
<1>10. ASSUME Unstable PROVE WifiInv' /\ NoNew
  <2>1. /\ stage = "rollback" /\ step' \in {"campus", "wired_off"}
        /\ UNCHANGED <<stage, rollback_armed, rollback_started, restored, result, network,
                       disturbed>>
    BY <1>10 DEF Unstable, NextRound, outcome
  <2>2. Phases' /\ Seen'
    BY <2>1 DEF WifiInv, Phases, Seen
  <2> QED
    BY <1>1, <2>1, <2>2 DEF WifiInv
<1>11. ASSUME RemoveWired PROVE WifiInv' /\ NoNew
  <2>1. /\ stage = "rollback"
        /\ \/ stage' = "main" /\ rollback_armed' = FALSE
           \/ step' = "campus" /\ UNCHANGED <<stage, rollback_armed>>
        /\ UNCHANGED <<rollback_started, restored, result, disturbed>>
    BY <1>11 DEF RemoveWired, Ends, NextRound, outcome
  <2>2. Phases' /\ Seen'
    BY <2>1 DEF WifiInv, Phases, Seen
  <2>3. NoNew
    BY <1>11, RequestEffect DEF RemoveWired, HostOnWifi, HostOnWire
  <2> QED
    BY <2>2, <2>3 DEF WifiInv
<1>12. ASSUME Tell PROVE WifiInv' /\ NoNew
  <2>1. /\ stage = "main" /\ result \in {"none"}
        /\ result' \in {"pass", "interrupted"}
             => ~rollback_started \/ rollback_armed \/ restored
        /\ UNCHANGED <<stage, step, round, command_result, rollback_armed,
                       rollback_started, restored, looks, network, disturbed>>
    BY <1>12 DEF Tell
  <2>2. Phases' /\ Seen'
    BY <2>1 DEF WifiInv, Phases, Seen, IsOriginal, network
  <2> QED
    BY <1>1, <2>1, <2>2 DEF WifiInv
<1>13. ASSUME Signal \/ UNCHANGED wifi_vars PROVE WifiInv' /\ NoNew
  <2>1. UNCHANGED <<stage, step, round, command_result, rollback_armed, rollback_started,
                    restored, result, consecutive, wifi, wired, disturbed>>
    BY <1>13 DEF Signal, wifi_vars, outcome, looks, network
  <2>2. Phases' /\ Seen'
    BY <2>1 DEF WifiInv, Phases, Seen, IsOriginal, Wanted, NoHostOwner, HostOnWifi,
       HostOnWire, Fallback
  <2> QED
    BY <1>1, <2>1, <2>2 DEF WifiInv, network, HostOnWifi, HostOnWire
<1>14. ASSUME NetworkChanges PROVE WifiInv' /\ NoNew
  BY <1>14 DEF NetworkChanges, WifiInv, Phases, Seen, outcome
<1> QED
  BY <1>3, <1>4, <1>5, <1>6, <1>7, <1>8, <1>9, <1>10, <1>11, <1>12, <1>13, <1>14
  DEF WifiNext

LEMMA WifiStart == WifiInit => WifiInv
  BY DEF WifiInit, WifiInv, Phases, Seen, IsOriginal

\* However often the rollback is tried and however long it looks: a switch that
\* is told to be restored has been, and every switch that was begun went through
\* its rollback.
THEOREM ToldIsRestored == WifiSpec => []RestorationIsTrue
<1>1. WifiInv => RestorationIsTrue
  BY DEF WifiInv, Phases, Seen, IsOriginal, RestorationIsTrue
<1> QED
  BY <1>1, WifiStart, WifiStep, PTL DEF WifiSpec

\* The workflow itself never gives the host address two owners.
THEOREM OneHostOwner == WifiSpec => NoOwnDuplicate
<1> DEFINE NoNew == HostOnWifi' /\ HostOnWire' /\ ~(HostOnWifi /\ HostOnWire) => disturbed'
<1>1. WifiInv /\ [WifiNext]_wifi_vars => WifiInv' /\ [NoNew]_wifi_vars
  BY WifiStep
<1> QED
  BY <1>1, WifiStart, PTL DEF WifiSpec, NoOwnDuplicate

-----------------------------------------------------------------------------
(* The audit of the router *)

AuditSteps ==
  {"list", "clone", "locate", "modify", "inspect", "up", "validate", "hold", "refused",
   "campus", "recover", "down", "campus_again", "delete", "campus_last", "look"}

AuditFields ==
  [mode : {"preflight", "execute"}, stage : {"preflight", "execute", "rollback", "main"},
   step : AuditSteps, attempt : Nat, armed : BOOLEAN,
   error : {"none", "failed", "interrupted", "incomplete"}, steady : Nat, taken : Nat,
   told : {"none", "pass", "failed", "interrupted", "incomplete"}]

Restored == altered \/ (nm.link = "campus" /\ ~nm.clone)

\* Until something is changed, and after a run of valid samples, the network is
\* the one the audit has found, if it was not altered since.
AuditInv ==
  /\ audit \in AuditFields
  /\ audit.stage = "preflight" => ~audit.armed
  /\ audit.stage = "execute" => audit.armed
  /\ audit.told # "none" => audit.stage = "main"
  /\ audit.told \in {"pass", "interrupted", "failed"} => audit.error # "incomplete"
  /\ audit.stage = "preflight" => Restored
  /\ audit.stage = "main" /\ audit.error # "incomplete" => Restored
  /\ audit.steady # 0 => audit.stage = "main" \/ (audit.step = "look" /\ Restored)
  /\ audit.stage \in {"preflight", "execute"} => audit.steady = 0

\* A step that raises, or goes on, within execute().
LEMMA AuditLeaves ==
  ASSUME AuditInv, audit.stage \in {"preflight", "execute"},
         NEW error \in {"none", "failed", "interrupted"}, RaiseAudit(error),
         altered' = altered, audit.stage = "preflight" => nm' = nm
  PROVE  AuditInv'
<1>1. /\ audit' \in AuditFields /\ audit'.error = error /\ audit'.steady = 0
      /\ audit'.stage = IF audit.armed THEN "rollback" ELSE "main"
      /\ audit'.told = audit.told /\ audit'.armed = audit.armed
  <2>1. (IF audit.armed THEN "rollback" ELSE "main")
          \in {"preflight", "execute", "rollback", "main"}
    OBVIOUS
  <2>2. "campus" \in AuditSteps
    BY DEF AuditSteps
  <2>3. audit \in AuditFields
    BY DEF AuditInv
  <2>4. error \in {"none", "failed", "interrupted", "incomplete"} /\ audit.steady = 0
    BY DEF AuditInv
  <2> QED
    BY <2>1, <2>2, <2>3, <2>4 DEF RaiseAudit, AuditFields
<1>2. audit'.stage = "main" => nm' = nm /\ Restored
  BY <1>1 DEF AuditInv
<1> QED
  BY <1>1, <1>2 DEF AuditInv, Restored

LEMMA AuditProceeds ==
  ASSUME AuditInv, audit.stage = "execute", NEW how \in Answers, Proceed(how),
         audit.step \in DOMAIN Following, altered' = altered
  PROVE  AuditInv'
<1>1. CASE how = "timed_out"
  BY <1>1, AuditLeaves DEF Proceed
<1>2. CASE how # "timed_out"
  <2>1. \E s \in AuditSteps : audit' = [audit EXCEPT !.step = s]
    <3>1. \A w \in DOMAIN Following : Following[w] \in AuditSteps
      BY DEF Following, AuditSteps
    <3>2. Following[audit.step] \in AuditSteps /\ "refused" \in AuditSteps
      BY <3>1 DEF AuditSteps
    <3>3. CASE how = "done"
      BY <3>2, <3>3 DEF Proceed
    <3>4. CASE how = "failed"
      BY <3>2, <3>4 DEF Proceed
    <3> QED
      BY <1>2, <3>3, <3>4 DEF Answers
  <2>2. /\ audit' \in AuditFields /\ audit'.stage = "execute" /\ audit'.steady = 0
        /\ audit'.armed = audit.armed /\ audit'.told = audit.told
    <3>1. PICK s \in AuditSteps : audit' = [audit EXCEPT !.step = s]
      BY <2>1
    <3>2. audit \in AuditFields /\ audit.steady = 0
      BY DEF AuditInv
    <3> QED
      BY <3>1, <3>2 DEF AuditFields
  <2> QED
    BY <2>2 DEF AuditInv
<1> QED
  BY <1>1, <1>2

\* A step of a round that only goes on; the look it may lead to has not begun.
LEMMA RoundGoesOn ==
  ASSUME AuditInv, audit.stage = "rollback", audit.step # "look",
         (\E s \in AuditSteps : Goto(s)) \/ NextAttempt, altered' = altered
  PROVE  AuditInv'
<1>1. audit.steady = 0
  BY DEF AuditInv
<1>2. CASE \E s \in AuditSteps : Goto(s)
  <2>1. /\ audit' \in AuditFields /\ audit'.stage = "rollback" /\ audit'.steady = 0
        /\ audit'.told = audit.told
    BY <1>1, <1>2 DEF Goto, AuditInv, AuditFields
  <2> QED
    BY <2>1 DEF AuditInv
<1>3. CASE NextAttempt
  <2>1. /\ audit' \in AuditFields /\ audit'.steady = 0 /\ audit'.told = audit.told
        /\ \/ audit'.stage = "rollback"
           \/ audit'.stage = "main" /\ audit'.error = "incomplete"
    <3>1. audit \in AuditFields /\ audit.attempt + 1 \in Nat /\ "campus" \in AuditSteps
      BY DEF AuditInv, AuditFields, AuditSteps
    <3> QED
      BY <1>1, <1>3, <3>1 DEF NextAttempt, AuditFields
  <2>2. audit.told = "none"
    BY DEF AuditInv, AuditFields
  <2> QED
    BY <2>1, <2>2 DEF AuditInv
<1> QED
  BY <1>2, <1>3

LEMMA AuditStep == AuditInv /\ [RouterNext]_router_vars => AuditInv'
<1> SUFFICES ASSUME AuditInv, [RouterNext]_router_vars PROVE AuditInv'
  OBVIOUS
<1>1. ASSUME AuditPreflight PROVE AuditInv'
  <2>1. CASE \E error \in {"failed", "interrupted"} : RaiseAudit(error) /\ UNCHANGED nm
    BY <1>1, <2>1, AuditLeaves DEF AuditPreflight
  <2>2. CASE /\ audit' = IF audit.mode = "execute"
                           THEN [audit EXCEPT !.stage = "execute", !.step = "list",
                                              !.armed = TRUE]
                           ELSE [audit EXCEPT !.stage = "main"]
             /\ UNCHANGED nm
    <3>1. /\ audit' \in AuditFields /\ audit'.steady = 0 /\ audit'.told = audit.told
          /\ \/ audit'.stage = "execute" /\ audit'.armed
             \/ audit'.stage = "main" /\ audit'.error = audit.error
      <4>1. audit \in AuditFields /\ audit.steady = 0 /\ "list" \in AuditSteps
        BY <1>1 DEF AuditPreflight, AuditInv, AuditSteps
      <4> QED
        BY <2>2, <4>1 DEF AuditFields
    <3>2. altered' = altered /\ Restored /\ audit.told = "none"
      BY <1>1 DEF AuditPreflight, AuditInv, AuditFields
    <3> QED
      BY <2>2, <3>1, <3>2 DEF AuditInv, Restored
  <2> QED
    BY <1>1, <2>1, <2>2 DEF AuditPreflight, Interrupted
<1>2. ASSUME AuditCommand PROVE AuditInv'
  <2>1. /\ audit.stage = "execute" /\ audit.step \in DOMAIN Following /\ altered' = altered
    BY <1>2 DEF AuditCommand, Following
  <2> QED
    BY <1>2, <2>1, AuditLeaves, AuditProceeds DEF AuditCommand, Interrupted
<1>3. ASSUME AuditLook PROVE AuditInv'
  <2>1. /\ audit.stage = "execute" /\ audit.step \in DOMAIN Following /\ altered' = altered
    BY <1>3 DEF AuditLook, Following
  <2> QED
    BY <1>3, <2>1, AuditLeaves, AuditProceeds DEF AuditLook, Interrupted
<1>4. ASSUME AuditRefused \/ AuditHeld PROVE AuditInv'
  BY <1>4, AuditLeaves DEF AuditRefused, AuditHeld, Interrupted
<1>5. ASSUME RestoreCampus PROVE AuditInv'
  <2>1. (\E s \in AuditSteps : Goto(s)) \/ NextAttempt
    BY <1>5 DEF RestoreCampus, AuditSteps
  <2>2. /\ audit.stage = "rollback" /\ altered' = altered
        /\ audit.step \in {"campus", "campus_again", "campus_last"}
    BY <1>5 DEF RestoreCampus
  <2> QED
    BY <2>1, <2>2, RoundGoesOn
<1>6. ASSUME Recover \/ TakeDown \/ DeleteClone PROVE AuditInv'
  <2>1. \E s \in AuditSteps : Goto(s)
    BY <1>6 DEF Recover, TakeDown, DeleteClone, AuditSteps
  <2>2. /\ audit.stage = "rollback" /\ audit.step \in {"recover", "down", "delete"}
        /\ altered' = altered
    BY <1>6 DEF Recover, TakeDown, DeleteClone
  <2> QED
    BY <2>1, <2>2, RoundGoesOn
<1>7. ASSUME AuditSample PROVE AuditInv'
  <2>1. PICK valid \in BOOLEAN :
          /\ valid => RestoredSample
          /\ audit' = [audit EXCEPT !.steady = IF valid THEN @ + 1 ELSE 0, !.taken = @ + 1]
    BY <1>7 DEF AuditSample
  <2>2. /\ audit' \in AuditFields /\ audit'.stage = "rollback" /\ audit'.step = "look"
        /\ audit'.told = audit.told /\ (audit'.steady # 0 => valid)
    <3>1. /\ audit \in AuditFields /\ audit.taken + 1 \in Nat
          /\ (IF valid THEN audit.steady + 1 ELSE 0) \in Nat
      BY DEF AuditInv, AuditFields
    <3>2. audit.stage = "rollback" /\ audit.step = "look"
      BY <1>7 DEF AuditSample
    <3> QED
      BY <2>1, <3>1, <3>2 DEF AuditFields
  <2>3. altered' = FALSE /\ nm' = nm
    BY <1>7 DEF AuditSample
  <2>4. valid => Restored'
    BY <2>1, <2>3 DEF RestoredSample, Restored
  <2> QED
    BY <2>2, <2>4, <1>7 DEF AuditSample, AuditInv
<1>8. ASSUME RoundEnds PROVE AuditInv'
  <2>1. /\ audit.stage = "rollback" /\ audit.step = "look" /\ audit.told = "none"
        /\ nm' = nm /\ altered' = altered
    BY <1>8 DEF RoundEnds, AuditInv, AuditFields
  <2>2. CASE /\ audit.steady = AuditSteady
             /\ audit' = [audit EXCEPT !.stage = "main", !.armed = FALSE]
    <3>1. Restored
      BY <2>1, <2>2, AuditAssumption DEF AuditInv
    <3>2. /\ audit' \in AuditFields /\ audit'.stage = "main" /\ audit'.told = "none"
      BY <2>1, <2>2 DEF AuditInv, AuditFields
    <3> QED
      BY <2>1, <3>1, <3>2 DEF AuditInv, Restored
  <2>3. CASE NextAttempt
    <3>1. /\ audit' \in AuditFields /\ audit'.told = "none"
          /\ \/ audit'.stage = "rollback" /\ audit'.steady = 0
             \/ audit'.stage = "main" /\ audit'.error = "incomplete"
      <4>1. audit \in AuditFields /\ audit.attempt + 1 \in Nat /\ "campus" \in AuditSteps
        BY DEF AuditInv, AuditFields, AuditSteps
      <4> QED
        BY <2>1, <2>3, <4>1 DEF NextAttempt, AuditFields
    <3> QED
      BY <3>1 DEF AuditInv
  <2> QED
    BY <1>8, <2>2, <2>3 DEF RoundEnds
<1>9. ASSUME AuditTells PROVE AuditInv'
  <2>1. /\ audit' \in AuditFields /\ audit'.stage = "main" /\ audit'.error = audit.error
        /\ audit'.steady = audit.steady
        /\ audit'.told \in {"pass", "interrupted", "failed"} => audit.error # "incomplete"
        /\ nm' = nm /\ altered' = altered
    BY <1>9 DEF AuditTells, AuditInv, AuditFields
  <2>2. audit.stage = "main"
    BY <1>9 DEF AuditTells
  <2> QED
    BY <2>1, <2>2 DEF AuditInv, Restored
<1>10. ASSUME AuditSignal \/ UNCHANGED router_vars PROVE AuditInv'
  BY <1>10 DEF AuditSignal, router_vars, AuditInv, Restored
<1>11. ASSUME ManagerActs PROVE AuditInv'
  <2>1. audit' = audit /\ altered'
    BY <1>11 DEF ManagerActs
  <2> QED
    BY <2>1 DEF AuditInv, Restored
<1> QED
  BY <1>1, <1>2, <1>3, <1>4, <1>5, <1>6, <1>7, <1>8, <1>9, <1>10, <1>11 DEF RouterNext

LEMMA AuditStart == RouterInit => AuditInv
<1> SUFFICES ASSUME RouterInit PROVE AuditInv
  OBVIOUS
<1>1. /\ audit \in AuditFields /\ audit.stage = "preflight" /\ ~audit.armed
      /\ audit.told = "none" /\ audit.steady = 0
  <2>1. PICK mode \in {"preflight", "execute"} :
          audit = [mode |-> mode, stage |-> "preflight", step |-> "list", attempt |-> 1,
                   armed |-> FALSE, error |-> "none", steady |-> 0, taken |-> 0,
                   told |-> "none"]
    BY DEF RouterInit
  <2>2. "list" \in AuditSteps
    BY DEF AuditSteps
  <2> QED
    BY <2>1, <2>2 DEF AuditFields
<1>2. Restored
  BY DEF RouterInit, Restored
<1> QED
  BY <1>1, <1>2 DEF AuditInv

\* For any number of rounds and samples: an audit that does not say that its
\* rollback is incomplete has left the campus network and no clone behind.
THEOREM AuditRestores == RouterSpec => []AuditLeavesNothing
<1>1. AuditInv => AuditLeavesNothing
  BY DEF AuditInv, AuditLeavesNothing, Restored
<1> QED
  BY <1>1, AuditStart, AuditStep, PTL DEF RouterSpec

-----------------------------------------------------------------------------
(* The voice entry of the browser *)

SessionEnds == {"failed", "cancelled", "complete"}

\* What Liaison has sent speaks for a completed session.
LiaisonEnded ==
  /\ liaison.done
  /\ execution_mode = "preview" => ~liaison.plan \/ liaison.dropped

\* The end of a session is decided before it is shown, and shown before it is over.
VoicePhases ==
  /\ loop_stage = "connecting" => session_end = None /\ ~liaison.plan
  /\ worker_thread = "dead" => loop_stage = "off" /\ pcm = "wiped"
  /\ worker_thread = "dead" \/ loop_stage = "wiping" =>
       /\ GrpcOver
       /\ session_end # "cancelled" =>
            shown \in Terminal /\ (shown = "completed" => session_end = "complete")
  /\ loop_stage \in {"closing", "joining"} => session_end \in SessionEnds
  /\ session_end = "complete" => grpc = "ok" /\ LiaisonEnded

\* A plan that came before the end of the session is seen before it, unless the
\* queue dropped something.
PlanFirst ==
  \E i \in 1..Len(events) :
    /\ events[i] = "plan"
    /\ \A j \in 1..(i - 1) : events[j] # "done"

VoiceQueue ==
  /\ events \in Seq(LiaisonEvents)
  /\ \/ terminal \/ event_task = "done" \/ \E i \in 1..Len(events) : events[i] = "done"
     => liaison.done
  /\ execution_mode = "preview" /\ loop_stage = "turning" /\ liaison.plan /\ ~liaison.dropped
       => /\ ~terminal /\ event_task # "done"
          /\ event_task = "plan" \/ PlanFirst

VoiceInv == VoicePhases /\ VoiceQueue

LEMMA EnqueuedEvents ==
  ASSUME VoiceQueue, NEW event \in LiaisonEvents
  PROVE  /\ Enqueued(event) \in Seq(LiaisonEvents)
         /\ \A i \in 1..Len(Enqueued(event)) :
              \/ Enqueued(event)[i] = event
              \/ \E j \in 1..Len(events) : events[j] = Enqueued(event)[i]
         /\ Len(events) # QueueSize =>
              /\ Len(Enqueued(event)) = Len(events) + 1
              /\ Enqueued(event)[Len(events) + 1] = event
              /\ \A i \in 1..Len(events) : Enqueued(event)[i] = events[i]
<1> DEFINE q == IF Len(events) = QueueSize THEN Tail(events) ELSE events
<1>1. events \in Seq(LiaisonEvents)
  BY DEF VoiceQueue
<1>2. /\ q \in Seq(LiaisonEvents)
      /\ \A i \in 1..Len(q) : \E j \in 1..Len(events) : events[j] = q[i]
  <2>1. CASE Len(events) = QueueSize
    <3>1. events # <<>>
      BY <2>1, VoiceAssumption
    <3>2. /\ Tail(events) \in Seq(LiaisonEvents) /\ Len(Tail(events)) = Len(events) - 1
          /\ \A i \in 1..(Len(events) - 1) : Tail(events)[i] = events[i + 1]
      BY <1>1, <3>1
    <3>3. Len(events) \in Nat
      BY <1>1
    <3>4. ASSUME NEW i \in 1..Len(Tail(events))
          PROVE  \E j \in 1..Len(events) : events[j] = Tail(events)[i]
      <4>1. i + 1 \in 1..Len(events) /\ Tail(events)[i] = events[i + 1]
        BY <3>2, <3>3
      <4> QED
        BY <4>1
    <3> QED
      BY <2>1, <3>2, <3>4
  <2>2. CASE Len(events) # QueueSize
    BY <1>1, <2>2
  <2> QED
    BY <2>1, <2>2
<1>3. Enqueued(event) = Append(q, event)
  BY DEF Enqueued
<1> HIDE DEF q
<1>4. /\ Append(q, event) \in Seq(LiaisonEvents) /\ Len(Append(q, event)) = Len(q) + 1
      /\ Append(q, event)[Len(q) + 1] = event
      /\ \A i \in 1..Len(q) : Append(q, event)[i] = q[i]
  BY <1>2
<1>5. Len(q) \in Nat
  BY <1>2
<1>6. ASSUME NEW i \in 1..(Len(q) + 1), i # Len(q) + 1 PROVE i \in 1..Len(q)
  BY <1>5, <1>6
<1> QED
  BY <1>2, <1>3, <1>4, <1>5, <1>6 DEF q

LEMMA VoiceSends == VoiceInv /\ SendEvent => VoiceInv'
<1> SUFFICES ASSUME VoiceInv, SendEvent PROVE VoiceInv'
  OBVIOUS
<1>1. CASE GrpcMoves("error") /\ UNCHANGED <<events, liaison>>
  <2>1. grpc = "open"
    BY DEF SendEvent
  <2> QED
    BY <1>1, <2>1 DEF GrpcMoves, turn_vars, VoiceInv, VoicePhases, VoiceQueue, GrpcOver,
       LiaisonEnded, PlanFirst
<1>2. ASSUME NEW event \in LiaisonEvents, GrpcMoves("open"), events' = Enqueued(event),
             loop_stage = "turning",
             liaison' = [sent |-> liaison.sent + 1,
                         done |-> liaison.done \/ event = "done",
                         plan |-> liaison.plan \/ (event = "plan" /\ ~liaison.done),
                         dropped |-> liaison.dropped \/ Len(events) = QueueSize]
      PROVE  VoiceInv'
  <2>1. /\ grpc = "open" /\ grpc' = "open"
        /\ UNCHANGED <<execution_mode, worker_thread, shown, pcm, loop_stage, session_end,
                       event_task, terminal>>
    BY <1>2 DEF SendEvent, GrpcMoves, turn_vars
  <2>2. VoicePhases'
    BY <1>2, <2>1 DEF VoiceInv, VoicePhases
  <2>3. /\ liaison'.done <=> liaison.done \/ event = "done"
        /\ liaison'.plan <=> liaison.plan \/ (event = "plan" /\ ~liaison.done)
        /\ liaison'.dropped <=> liaison.dropped \/ Len(events) = QueueSize
    BY <1>2
  <2>4. VoiceQueue
    BY DEF VoiceInv
  <2>5. events' \in Seq(LiaisonEvents)
    BY <1>2, <2>4, EnqueuedEvents
  <2>6. terminal' \/ event_task' = "done" \/ (\E i \in 1..Len(events') : events'[i] = "done")
          => liaison'.done
    <3>1. terminal \/ event_task = "done" => liaison'.done
      BY <2>3, <2>4 DEF VoiceQueue
    <3>2. ASSUME NEW i \in 1..Len(events'), events'[i] = "done" PROVE liaison'.done
      <4>1. \/ events'[i] = event
            \/ \E j \in 1..Len(events) : events[j] = events'[i]
        BY <1>2, <2>4, <3>2, EnqueuedEvents
      <4> QED
        BY <2>3, <2>4, <3>2, <4>1 DEF VoiceQueue
    <3> QED
      BY <2>1, <3>1, <3>2
  <2>7. ASSUME execution_mode = "preview", liaison'.plan, ~liaison'.dropped
        PROVE  ~terminal /\ event_task # "done" /\ (event_task = "plan" \/ PlanFirst')
    <3>1. /\ Len(events) # QueueSize /\ ~liaison.dropped
          /\ Len(events') = Len(events) + 1 /\ events'[Len(events) + 1] = event
          /\ \A i \in 1..Len(events) : events'[i] = events[i]
      BY <1>2, <2>3, <2>4, <2>7, EnqueuedEvents
    <3>2. Len(events) \in Nat
      BY <2>4 DEF VoiceQueue
    <3>3. CASE liaison.plan
      <4>1. ~terminal /\ event_task # "done" /\ (event_task = "plan" \/ PlanFirst)
        BY <1>2, <2>4, <2>7, <3>1, <3>3 DEF VoiceQueue
      <4>2. PlanFirst => PlanFirst'
        <5> SUFFICES ASSUME NEW i \in 1..Len(events), events[i] = "plan",
                            \A j \in 1..(i - 1) : events[j] # "done"
                     PROVE  PlanFirst'
          BY DEF PlanFirst
        <5>1. i \in 1..Len(events') /\ events'[i] = "plan"
          BY <3>1, <3>2
        <5>2. \A j \in 1..(i - 1) : j \in 1..Len(events)
          BY <3>2
        <5>3. \A j \in 1..(i - 1) : events'[j] # "done"
          BY <3>1, <5>2
        <5> QED
          BY <5>1, <5>3 DEF PlanFirst
      <4> QED
        BY <4>1, <4>2
    <3>4. CASE ~liaison.plan
      <4>1. event = "plan" /\ ~liaison.done
        BY <2>3, <2>7, <3>4
      <4>2. ~terminal /\ event_task # "done" /\ \A i \in 1..Len(events) : events[i] # "done"
        BY <2>4, <4>1 DEF VoiceQueue
      <4>3. Len(events') \in 1..Len(events') /\ events'[Len(events')] = "plan"
        BY <3>1, <3>2, <4>1
      <4>4. \A j \in 1..(Len(events') - 1) : j \in 1..Len(events)
        BY <3>1, <3>2
      <4>5. \A j \in 1..(Len(events') - 1) : events'[j] # "done"
        BY <3>1, <4>2, <4>4
      <4> QED
        BY <4>2, <4>3, <4>5 DEF PlanFirst
    <3> QED
      BY <3>3, <3>4
  <2> QED
    BY <2>1, <2>2, <2>5, <2>6, <2>7 DEF VoiceInv, VoiceQueue
<1> QED
  BY <1>1, <1>2 DEF SendEvent

LEMMA VoiceTakes == VoiceInv /\ TakeEvent => VoiceInv'
<1> SUFFICES ASSUME VoiceInv, TakeEvent PROVE VoiceInv'
  OBVIOUS
<1>1. /\ event_task = None /\ events # <<>> /\ event_task' = Head(events)
      /\ events' = Tail(events) /\ loop_stage = "turning"
      /\ UNCHANGED <<execution_mode, worker_thread, shown, pcm, loop_stage, session_end,
                     terminal, grpc, liaison>>
  BY DEF TakeEvent
<1>2. VoicePhases'
  BY <1>1 DEF VoiceInv, VoicePhases, GrpcOver, LiaisonEnded
<1>3. /\ events \in Seq(LiaisonEvents) /\ Len(events) \in Nat
      /\ Tail(events) \in Seq(LiaisonEvents) /\ Len(Tail(events)) = Len(events) - 1
      /\ Head(events) = events[1] /\ 1 \in 1..Len(events)
      /\ \A i \in 1..(Len(events) - 1) : Tail(events)[i] = events[i + 1]
  BY <1>1 DEF VoiceInv, VoiceQueue
<1>4. terminal' \/ event_task' = "done" \/ (\E i \in 1..Len(events') : events'[i] = "done")
        => liaison'.done
  <2>1. terminal \/ Head(events) = "done" => liaison.done
    BY <1>3 DEF VoiceInv, VoiceQueue
  <2>2. ASSUME NEW i \in 1..Len(events'), events'[i] = "done" PROVE liaison.done
    <3>1. i + 1 \in 1..Len(events) /\ events'[i] = events[i + 1]
      BY <1>1, <1>3
    <3> QED
      BY <2>2, <3>1 DEF VoiceInv, VoiceQueue
  <2> QED
    BY <1>1, <2>1, <2>2
<1>5. ASSUME execution_mode = "preview", liaison.plan, ~liaison.dropped
      PROVE  ~terminal /\ event_task' # "done" /\ (event_task' = "plan" \/ PlanFirst')
  <2>1. ~terminal /\ PlanFirst
    BY <1>1, <1>5 DEF VoiceInv, VoiceQueue, None
  <2>2. PICK i \in 1..Len(events) : events[i] = "plan"
                                    /\ \A j \in 1..(i - 1) : events[j] # "done"
    BY <2>1 DEF PlanFirst
  <2>3. CASE i = 1
    BY <1>1, <1>3, <2>1, <2>2, <2>3
  <2>4. CASE i # 1
    <3>1. /\ 1 \in 1..(i - 1) /\ i - 1 \in 1..(Len(events) - 1)
          /\ (i - 1) + 1 = i
      BY <1>3, <2>4
    <3>2. events[1] # "done" /\ events'[i - 1] = "plan"
      BY <1>1, <1>3, <2>2, <3>1
    <3>3. ASSUME NEW j \in 1..((i - 1) - 1) PROVE events'[j] # "done"
      <4>1. j + 1 \in 1..(i - 1) /\ j \in 1..(Len(events) - 1)
        BY <1>3, <3>3
      <4> QED
        BY <1>1, <1>3, <2>2, <4>1
    <3>4. PlanFirst'
      BY <1>1, <1>3, <3>1, <3>2, <3>3 DEF PlanFirst
    <3> QED
      BY <1>1, <1>3, <2>1, <3>2, <3>4
  <2> QED
    BY <2>3, <2>4
<1> QED
  BY <1>1, <1>2, <1>3, <1>4, <1>5 DEF VoiceInv, VoiceQueue

LEMMA VoiceTurns == VoiceInv /\ LoopTurn => VoiceInv'
<1> SUFFICES ASSUME VoiceInv, LoopTurn PROVE VoiceInv'
  OBVIOUS
<1>1. /\ loop_stage = "turning" /\ session_end' = TurnEnds
      /\ loop_stage' = IF TurnEnds = None THEN "turning" ELSE "closing"
      /\ event_task' = None /\ terminal' = TerminalNow
      /\ UNCHANGED <<execution_mode, worker_thread, pcm, events, grpc, liaison>>
  BY DEF LoopTurn
<1>2. TurnEnds \in SessionEnds \cup {None}
  BY DEF TurnEnds, EndsWithStream, SessionEnds
<1>3. TerminalNow => liaison.done
  BY DEF TerminalNow, VoiceInv, VoiceQueue
<1>4. ASSUME execution_mode = "preview", liaison.plan, ~liaison.dropped, ~EventRaises
      PROVE  ~TerminalNow /\ PlanFirst
  BY <1>1, <1>4 DEF TerminalNow, EventRaises, VoiceInv, VoiceQueue
<1>5. TurnEnds = "complete" => grpc = "ok" /\ TerminalNow /\ ~EventRaises
  BY DEF TurnEnds, EndsWithStream, None
<1>6. TurnEnds = None => ~EventRaises
  BY DEF TurnEnds, None
<1>7. VoicePhases'
  BY <1>1, <1>2, <1>3, <1>4, <1>5 DEF VoiceInv, VoicePhases, LiaisonEnded
<1>8. VoiceQueue'
  <2>1. PlanFirst => PlanFirst'
    BY <1>1 DEF PlanFirst
  <2>2. loop_stage' = "turning" => ~EventRaises
    BY <1>1, <1>6
  <2> QED
    BY <1>1, <1>3, <1>4, <2>1, <2>2 DEF VoiceInv, VoiceQueue, None
<1> QED
  BY <1>7, <1>8 DEF VoiceInv

LEMMA VoiceStep == VoiceInv /\ [VoiceNext]_voice_vars => VoiceInv'
<1> SUFFICES ASSUME VoiceInv, [VoiceNext]_voice_vars PROVE VoiceInv'
  OBVIOUS
<1> USE DEF VoiceInv
<1>1. ASSUME Submit PROVE VoiceInv'
  <2>1. /\ worker_thread' = "alive" /\ loop_stage' = "connecting" /\ session_end' = None
        /\ events' = <<>> /\ event_task' = None /\ terminal' = FALSE /\ ~liaison'.plan
    BY <1>1 DEF Submit, Unsent
  <2>2. VoicePhases'
    BY <2>1 DEF VoicePhases, None
  <2>3. events' \in Seq(LiaisonEvents) /\ Len(events') = 0
    BY <2>1
  <2> QED
    BY <2>1, <2>2, <2>3 DEF VoiceQueue, None
<1>2. ASSUME UNCHANGED <<execution_mode, worker_thread, shown, pcm, loop_stage, session_end,
                         events, event_task, terminal, liaison>>,
             grpc \in {"off", "ok", "error"} => grpc' = grpc
      PROVE  VoiceInv'
  BY <1>2 DEF VoicePhases, VoiceQueue, GrpcOver, LiaisonEnded, PlanFirst
<1>3. ASSUME Close \/ SendControl \/ SendPcm \/ UNCHANGED voice_vars PROVE VoiceInv'
  BY <1>2, <1>3 DEF Close, SendControl, SendPcm, voice_vars, turn_vars
<1>4. ASSUME OpenStream \/ BreakStream \/ EndStream PROVE VoiceInv'
  BY <1>2, <1>4 DEF OpenStream, BreakStream, EndStream, GrpcMoves, turn_vars
<1>5. ASSUME ConnectBridge PROVE VoiceInv'
  <2>1. /\ loop_stage = "connecting"
        /\ \/ loop_stage' = "turning" /\ grpc' = "opening" /\ session_end' = session_end
           \/ loop_stage' = "closing" /\ session_end' = "failed" /\ grpc' = grpc
        /\ UNCHANGED <<execution_mode, worker_thread, pcm, events, event_task, terminal,
                       liaison>>
    BY <1>5 DEF ConnectBridge, turn_vars
  <2> QED
    BY <2>1 DEF VoicePhases, VoiceQueue, SessionEnds, None
<1>6. ASSUME GiveUp \/ CancelTasks PROVE VoiceInv'
  <2>1. /\ \/ loop_stage = "turning" /\ loop_stage' = "closing" /\ session_end' = "failed"
           \/ loop_stage = "closing" /\ loop_stage' = "joining" /\ session_end' = session_end
        /\ event_task' \in {event_task, None}
        /\ UNCHANGED <<execution_mode, worker_thread, shown, pcm, events, terminal, grpc,
                       liaison>>
    BY <1>6 DEF GiveUp, CancelTasks, turn_vars
  <2>2. VoicePhases'
    BY <2>1 DEF VoicePhases, SessionEnds, LiaisonEnded
  <2>3. VoiceQueue'
    BY <2>1 DEF VoiceQueue, None
  <2> QED
    BY <2>2, <2>3
<1>7. ASSUME Report PROVE VoiceInv'
  <2>1. /\ loop_stage = "joining" /\ loop_stage' = "wiping" /\ GrpcOver
        /\ UNCHANGED <<execution_mode, worker_thread, pcm, session_end, events, event_task,
                       terminal, grpc, liaison>>
    BY <1>7 DEF Report, turn_vars
  <2>2. session_end \in SessionEnds
    BY <2>1 DEF VoicePhases
  <2>3. session_end # "cancelled" =>
          shown' \in Terminal /\ (shown' = "completed" => session_end = "complete")
    BY <1>7, <2>2 DEF Report, SessionEnds, Terminal
  <2>4. VoicePhases'
    BY <2>1, <2>3 DEF VoicePhases, GrpcOver, LiaisonEnded
  <2> QED
    BY <2>1, <2>4 DEF VoiceQueue
<1>8. ASSUME Wipe PROVE VoiceInv'
  <2>1. /\ loop_stage = "wiping" /\ loop_stage' = "off" /\ pcm' = "wiped"
        /\ worker_thread' = "dead"
        /\ UNCHANGED <<execution_mode, shown, session_end, events, event_task, terminal,
                       grpc, liaison>>
    BY <1>8 DEF Wipe, turn_vars
  <2>2. VoicePhases'
    BY <2>1 DEF VoicePhases, GrpcOver, LiaisonEnded
  <2> QED
    BY <2>1, <2>2 DEF VoiceQueue
<1> QED
  BY <1>1, <1>3, <1>4, <1>5, <1>6, <1>7, <1>8, VoiceSends, VoiceTakes, VoiceTurns
  DEF VoiceNext

LEMMA VoiceStart == VoiceInit => VoiceInv
<1> SUFFICES ASSUME VoiceInit PROVE VoiceInv
  OBVIOUS
<1>1. events \in Seq(LiaisonEvents) /\ Len(events) = 0
  BY DEF VoiceInit
<1> QED
  BY <1>1 DEF VoiceInit, VoiceInv, VoicePhases, VoiceQueue, None

\* For a queue of any length and any number of events: what the browser is shown
\* at the end of a voice session is what Liaison said.
THEOREM VoiceEndsTruly == VoiceSpec => []VoiceEndIsTrue
<1>1. VoiceInv => VoiceEndIsTrue
  BY DEF VoiceInv, VoicePhases, LiaisonEnded, VoiceEndIsTrue
<1> QED
  BY <1>1, VoiceStart, VoiceStep, PTL DEF VoiceSpec

-----------------------------------------------------------------------------
(* The acceptance test of hands-free mode *)

TrackerFields ==
  {"ready", "accepted", "saw_enabled", "previous", "baseline", "disabled", "transcript",
   "pending", "plan_samples", "plan_issue", "status_after", "plans_after", "after"}
PollFields == {"phase", "reply", "sampled", "age"}

ObserverShape ==
  /\ DOMAIN tracker = TrackerFields
  /\ DOMAIN polls = EndPoints /\ \A e \in EndPoints : DOMAIN polls[e] = PollFields
  /\ client \in [enabled : BOOLEAN, transcript : 0..Transcripts]

Asked(e) == polls[e].phase = "asked"
StatusReply == polls["status"].reply

\* What was received, and what is on its way, was true once: transcripts only
\* come to be more, and the click came after the baseline.
Received ==
  /\ tracker.saw_enabled => tracker.baseline \in 0..client.transcript
  /\ tracker.ready \/ tracker.disabled \/ tracker.previous = "on" => tracker.saw_enabled
  /\ \/ click = <<>>
     \/ \E c \in 0..client.transcript :
          click = <<c>> /\ tracker.ready /\ tracker.baseline <= c
  /\ Asked("status") =>
       /\ StatusReply.kind = "valid" => StatusReply.transcript \in 0..client.transcript
       /\ StatusReply.late => /\ StatusReply.kind = "valid"
                              /\ \E c \in Nat : click = <<c>> /\ c < StatusReply.transcript
  /\ Asked("plans") => (polls["plans"].reply.late => polls["plans"].reply.kind = "working")
  /\ \/ stream = <<>>
     \/ \E e : stream = <<e>> /\ (e.late => click # <<>>)

\* What contradicts the click has ruled a pass out, or will with the sample that
\* would be the edge.
Ahead ==
  /\ client.transcript > tracker.baseline
  /\ Asked("status") /\ StatusReply.kind = "valid"
       => StatusReply.transcript > tracker.baseline

Remembered ==
  /\ tracker.disabled /\ ~failing => tracker.transcript = tracker.baseline
  /\ witnessed /\ ~failing =>
       tracker.ready /\ ~tracker.disabled /\ (tracker.pending \/ Ahead)

EvidenceOK ==
  /\ acceptance = "passed" => ~witnessed
  /\ acceptance # "none" => run_stage \in {"summary", "done", "aborted"}
  /\ evidence \in {{}, {"log"}, {"log", "summary"}}

ObserverInv == ObserverShape /\ Received /\ Remembered /\ EvidenceOK

\* What the tracker of the acceptance test decides by; the rest of it is left out.
SameTracker ==
  /\ DOMAIN tracker' = TrackerFields
  /\ tracker'.ready = tracker.ready /\ tracker'.saw_enabled = tracker.saw_enabled
  /\ tracker'.previous = tracker.previous /\ tracker'.baseline = tracker.baseline
  /\ tracker'.disabled = tracker.disabled /\ tracker'.transcript = tracker.transcript
  /\ tracker'.pending = tracker.pending

\* No request is made, and what is asked stays so at most.
SamePolls ==
  /\ DOMAIN polls' = EndPoints /\ \A e \in EndPoints : DOMAIN polls'[e] = PollFields
  /\ \A e \in EndPoints : Asked(e)' => Asked(e) /\ polls'[e].reply = polls[e].reply

LEMMA ObserverFrame ==
  ASSUME ObserverInv, SameTracker, SamePolls, client' = client, click' = click,
         failing => failing', witnessed' = witnessed, stream' \in {stream, <<>>}
  PROVE  ObserverShape' /\ Received' /\ Remembered'
<1>1. ObserverShape'
  BY DEF ObserverInv, ObserverShape, SameTracker, SamePolls
<1>2. /\ Asked("status")' => Asked("status") /\ StatusReply' = StatusReply
      /\ Asked("plans")' => Asked("plans") /\ polls'["plans"].reply = polls["plans"].reply
  BY DEF SamePolls, EndPoints, StatusReply
<1>3. Received'
  <2>1. /\ tracker'.saw_enabled => tracker'.baseline \in 0..client'.transcript
        /\ tracker'.ready \/ tracker'.disabled \/ tracker'.previous = "on"
             => tracker'.saw_enabled
        /\ \/ click' = <<>>
           \/ \E c \in 0..client'.transcript :
                click' = <<c>> /\ tracker'.ready /\ tracker'.baseline <= c
    BY DEF ObserverInv, Received, SameTracker
  <2>2. stream' = <<>> \/ \E e : stream' = <<e>> /\ (e.late => click' # <<>>)
    BY DEF ObserverInv, Received
  <2>3. Asked("status")' =>
          /\ StatusReply'.kind = "valid" => StatusReply'.transcript \in 0..client'.transcript
          /\ StatusReply'.late =>
               /\ StatusReply'.kind = "valid"
               /\ \E c \in Nat : click' = <<c>> /\ c < StatusReply'.transcript
    BY <1>2 DEF ObserverInv, Received
  <2>4. Asked("plans")' =>
          (polls'["plans"].reply.late => polls'["plans"].reply.kind = "working")
    BY <1>2 DEF ObserverInv, Received
  <2> QED
    BY <2>1, <2>2, <2>3, <2>4 DEF Received
<1>4. Remembered'
  BY <1>2 DEF ObserverInv, Remembered, Ahead, SameTracker
<1> QED
  BY <1>1, <1>3, <1>4

LEMMA NothingAsked ==
  ASSUME polls' = NoPolls
  PROVE  /\ DOMAIN polls' = EndPoints /\ \A e \in EndPoints : DOMAIN polls'[e] = PollFields
         /\ \A e \in EndPoints : ~Asked(e)'
  BY DEF NoPolls, Asked, PollFields

LEMMA AnnounceEffect ==
  ASSUME NEW t, DOMAIN t = TrackerFields, NEW u, u = Announce(t)
  PROVE  /\ DOMAIN u = TrackerFields /\ u.saw_enabled = t.saw_enabled
         /\ u.previous = t.previous /\ u.baseline = t.baseline
         /\ u.disabled = t.disabled /\ u.transcript = t.transcript
         /\ t.ready => u = t
         /\ u.ready => t.ready \/ (t.saw_enabled /\ ~t.disabled)
  BY DEF Announce, Ready, TrackerFields

\* The client and its operator.
LEMMA ClientStep == ObserverInv /\ ClientActs => ObserverInv'
<1> SUFFICES ASSUME ObserverInv, ClientActs PROVE ObserverInv'
  OBVIOUS
<1>1. /\ UNCHANGED <<run_stage, polls, tracker, failing, acceptance, evidence, witnessed>>
      /\ EvidenceOK'
  BY DEF ClientActs, report, ObserverInv, EvidenceOK
<1>2. client.transcript \in 0..Transcripts /\ Transcripts \in Nat
      /\ client.enabled \in BOOLEAN
  BY ObserverAssumption DEF ObserverInv, ObserverShape
<1>3. ASSUME Speak, stream' = stream PROVE ObserverInv'
  <2>1. /\ client' = [client EXCEPT !.transcript = client.transcript + 1] /\ click' = click
        /\ client.transcript < Transcripts
    BY <1>3 DEF Speak
  <2>2. client.transcript + 1 \in 0..Transcripts
    BY <1>2, <2>1
  <2>3. client' \in [enabled : BOOLEAN, transcript : 0..Transcripts]
        /\ client'.transcript = client.transcript + 1
    BY <2>1, <2>2 DEF ObserverInv, ObserverShape
  <2>4. ObserverShape'
    BY <1>1, <2>3 DEF ObserverInv, ObserverShape
  <2>5. \A n \in 0..client.transcript : n \in 0..client'.transcript
    BY <1>2, <2>3
  <2>6. Received'
    BY <1>1, <1>3, <2>1, <2>5 DEF ObserverInv, Received, Asked, StatusReply
  <2>7. Ahead /\ tracker.saw_enabled => Ahead'
    BY <1>1, <1>2, <2>3 DEF Ahead, Asked, StatusReply, ObserverInv, Received
  <2>8. Remembered'
    BY <1>1, <2>7 DEF ObserverInv, Received, Remembered
  <2> QED
    BY <1>1, <2>4, <2>6, <2>8 DEF ObserverInv
<1>4. ASSUME Switch, stream' = stream PROVE ObserverInv'
  <2>1. /\ client' \in [enabled : BOOLEAN, transcript : 0..Transcripts]
        /\ client'.transcript = client.transcript
    BY <1>2, <1>4 DEF Switch, ObserverInv, ObserverShape
  <2>2. click' = click \/ (click = <<>> /\ tracker.ready /\ click' = <<client.transcript>>)
    BY <1>4 DEF Switch
  <2>3. ObserverShape'
    BY <1>1, <2>1 DEF ObserverInv, ObserverShape
  <2>4. CASE click' = click
    BY <1>1, <1>4, <2>1, <2>3, <2>4
    DEF ObserverInv, Received, Asked, StatusReply, Remembered, Ahead
  <2>5. CASE click = <<>> /\ tracker.ready /\ click' = <<client.transcript>>
    <3>1. /\ click # <<client.transcript>> /\ ~(\E c : click = <<c>>) /\ click' # <<>>
      BY <2>5
    <3>2. tracker.baseline \in 0..client.transcript
      BY <2>5 DEF ObserverInv, Received
    <3>3. /\ client.transcript \in 0..client'.transcript
          /\ tracker.baseline <= client.transcript
      BY <1>2, <2>1, <3>2
    <3>4. Received'
      BY <1>1, <1>4, <2>1, <2>5, <3>1, <3>3 DEF ObserverInv, Received, Asked, StatusReply
    <3>5. Remembered'
      BY <1>1, <2>1 DEF ObserverInv, Remembered, Ahead, Asked, StatusReply
    <3> QED
      BY <1>1, <2>3, <3>4, <3>5 DEF ObserverInv
  <2> QED
    BY <2>2, <2>4, <2>5
<1>5. ASSUME NEW kind \in EventKinds, Emit(kind), UNCHANGED truth PROVE ObserverInv'
  <2>1. /\ client' = client /\ click' = click
        /\ stream' = <<[kind |-> kind, late |-> click # <<>>]>>
    BY <1>5 DEF Emit, truth
  <2>2. \E e : stream' = <<e>> /\ (e.late => click' # <<>>)
    <3> DEFINE e == [kind |-> kind, late |-> click # <<>>]
    <3>1. e.late => click # <<>>
      BY Zenon
    <3> HIDE DEF e
    <3> QED
      BY <2>1, <3>1 DEF e
  <2>3. ObserverShape' /\ Remembered'
    BY <1>1, <2>1 DEF ObserverInv, ObserverShape, Remembered, Ahead, Asked, StatusReply
  <2>4. Received'
    BY <1>1, <2>1, <2>2 DEF ObserverInv, Received, Asked, StatusReply
  <2> QED
    BY <1>1, <2>3, <2>4 DEF ObserverInv
<1> QED
  BY <1>3, <1>4, <1>5 DEF ClientActs

LEMMA AskStep ==
  ASSUME ObserverInv, NEW e \in EndPoints, Ask(e)
  PROVE  ObserverInv'
<1>1. /\ UNCHANGED <<client, click, stream, run_stage, tracker, failing, acceptance, evidence,
                     witnessed>>
      /\ EvidenceOK'
  BY DEF Ask, truth, report, ObserverInv, EvidenceOK
<1>2. PICK reply \in Served(e) :
        polls' = [polls EXCEPT ![e] = [polls[e] EXCEPT !.phase = "asked", !.reply = reply]]
  BY DEF Ask
<1>3. /\ DOMAIN polls' = EndPoints /\ \A x \in EndPoints : DOMAIN polls'[x] = PollFields
      /\ polls'[e].phase = "asked" /\ polls'[e].reply = reply
      /\ \A x \in EndPoints \ {e} : polls'[x] = polls[x]
  BY <1>2 DEF ObserverInv, ObserverShape, PollFields
<1>4. ObserverShape'
  BY <1>1, <1>3 DEF ObserverInv, ObserverShape
<1>5. client.transcript \in Nat
  BY ObserverAssumption DEF ObserverInv, ObserverShape
<1>6. CASE e = "status"
  <2>1. Asked("status")' /\ StatusReply' = reply
    BY <1>3, <1>6 DEF Asked, StatusReply
  <2>2. Asked("plans")' = Asked("plans") /\ polls'["plans"] = polls["plans"]
    BY <1>3, <1>6 DEF Asked, EndPoints
  <2>3. reply.transcript = client.transcript
    BY <1>6 DEF Served
  <2>4. reply.late => reply.kind = "valid" /\ click # <<>> /\ click # <<client.transcript>>
    <3>1. PICK k \in {"valid", "unavailable", "malformed"} :
            reply = [kind |-> k, enabled |-> client.enabled, transcript |-> client.transcript,
                     late |-> click # <<>> /\ k = "valid" /\ click # <<client.transcript>>]
      BY <1>6 DEF Served
    <3>2. reply.kind = k
      BY <3>1
    <3>3. reply.late = (click # <<>> /\ k = "valid" /\ click # <<client.transcript>>)
      BY <3>1, Zenon
    <3> QED
      BY <3>2, <3>3
  <2>5. reply.late => \E c \in Nat : click = <<c>> /\ c < reply.transcript
    <3> SUFFICES ASSUME reply.late PROVE \E c \in Nat : click = <<c>> /\ c < reply.transcript
      OBVIOUS
    <3>1. PICK c \in 0..client.transcript : click = <<c>>
      BY <2>4 DEF ObserverInv, Received
    <3>2. c # client.transcript
      BY <2>4, <3>1
    <3>3. c \in Nat /\ c < client.transcript
      BY <1>5, <3>1, <3>2
    <3> QED
      BY <2>3, <3>1, <3>3
  <2>6. Received'
    BY <1>1, <1>5, <2>1, <2>2, <2>3, <2>4, <2>5 DEF ObserverInv, Received
  <2>7. Ahead => Ahead'
    BY <1>1, <2>1, <2>3 DEF Ahead
  <2>8. Remembered'
    BY <1>1, <2>7 DEF ObserverInv, Remembered
  <2> QED
    BY <1>1, <1>4, <2>6, <2>8 DEF ObserverInv
<1>7. CASE e = "plans"
  <2>1. Asked("status")' = Asked("status") /\ StatusReply' = StatusReply
    BY <1>3, <1>7 DEF Asked, StatusReply, EndPoints
  <2>2. polls'["plans"].reply = reply
    BY <1>3, <1>7
  <2>3. reply.late => reply.kind = "working"
    <3>1. PICK k \in {"unusable", "working", "idle"} :
            reply = [kind |-> k, late |-> click # <<>> /\ k = "working"]
      BY <1>7 DEF Served
    <3>2. reply.kind = k
      BY <3>1
    <3>3. reply.late = (click # <<>> /\ k = "working")
      BY <3>1, Zenon
    <3> QED
      BY <3>2, <3>3
  <2>4. Received'
    BY <1>1, <2>1, <2>2, <2>3 DEF ObserverInv, Received
  <2>5. Remembered'
    BY <1>1, <2>1 DEF ObserverInv, Remembered, Ahead
  <2> QED
    BY <1>1, <1>4, <2>4, <2>5 DEF ObserverInv
<1> QED
  BY <1>6, <1>7 DEF EndPoints

\* A reply that is read, be it late: the sample that is the edge, and every one after
\* it, is compared with what came before the click.
LEMMA StatusStep ==
  ASSUME ObserverInv, SampleEndPoint("status")
  PROVE  ObserverInv'
<1> DEFINE s == StatusReply
           t == StatusSeen(s)
<1>1. /\ UNCHANGED <<client, click, stream, run_stage, acceptance, evidence>>
      /\ run_stage = "observing" /\ Asked("status")
      /\ failing' = (failing \/ StatusFails(s))
      /\ tracker' = Announce(t)
      /\ witnessed' = (witnessed \/ s.late)
      /\ polls' = [polls EXCEPT !["status"] = Sampled("status")]
  BY DEF SampleEndPoint, SampleStatus, truth, report, Asked, StatusReply
<1>2. EvidenceOK'
  BY <1>1 DEF ObserverInv, EvidenceOK
<1>3. /\ DOMAIN polls' = EndPoints /\ \A x \in EndPoints : DOMAIN polls'[x] = PollFields
      /\ ~Asked("status")' /\ polls'["plans"] = polls["plans"]
  BY <1>1 DEF ObserverInv, ObserverShape, PollFields, Sampled, Asked, EndPoints
<1>4. /\ client.transcript \in 0..Transcripts /\ Transcripts \in Nat
      /\ DOMAIN tracker = TrackerFields
  BY ObserverAssumption DEF ObserverInv, ObserverShape
<1>5. DOMAIN t = TrackerFields
  BY <1>4 DEF StatusSeen
<1>6. /\ DOMAIN tracker' = TrackerFields /\ tracker'.saw_enabled = t.saw_enabled
      /\ tracker'.previous = t.previous /\ tracker'.baseline = t.baseline
      /\ tracker'.disabled = t.disabled /\ tracker'.transcript = t.transcript
      /\ t.ready => tracker' = t
      /\ tracker'.ready => t.ready \/ (t.saw_enabled /\ ~t.disabled)
  BY <1>1, <1>5, AnnounceEffect
<1>7. ObserverShape'
  BY <1>1, <1>3, <1>6 DEF ObserverInv, ObserverShape
<1>8. CASE s.kind # "valid"
  <2>1. /\ t.ready = tracker.ready /\ t.saw_enabled = tracker.saw_enabled
        /\ t.previous = tracker.previous /\ t.baseline = tracker.baseline
        /\ t.disabled = tracker.disabled /\ t.transcript = tracker.transcript
        /\ t.pending = tracker.pending
    BY <1>4, <1>8 DEF StatusSeen, TrackerFields
  <2>2. ~s.late
    BY <1>1, <1>8 DEF ObserverInv, Received
  <2>3. Received'
    <3> HIDE DEF s, t
    <3> QED
      BY <1>1, <1>3, <1>6, <2>1 DEF ObserverInv, Received, Asked
  <2>4. Remembered'
    <3> HIDE DEF s, t
    <3> QED
      BY <1>1, <1>3, <1>6, <2>1, <2>2 DEF ObserverInv, Remembered, Ahead
  <2> QED
    BY <1>2, <1>7, <2>3, <2>4 DEF ObserverInv
<1>9. CASE s.kind = "valid"
  <2>1. /\ t.ready = tracker.ready
        /\ t.previous = IF s.enabled THEN "on" ELSE "off"
        /\ t.disabled <=> tracker.disabled \/ Edge(s)
        /\ t.transcript = IF tracker.disabled \/ Edge(s) THEN s.transcript
                          ELSE tracker.transcript
        /\ t.saw_enabled <=> tracker.saw_enabled \/ s.enabled
        /\ t.baseline = IF RenewsBaseline(s) THEN s.transcript ELSE tracker.baseline
        /\ t.pending <=> tracker.pending /\ ~RenewsBaseline(s)
    BY <1>4, <1>9 DEF StatusSeen, TrackerFields
  <2>2. /\ s.transcript \in 0..client.transcript
        /\ s.late => \E c \in Nat : click = <<c>> /\ c < s.transcript
    BY <1>1, <1>9 DEF ObserverInv, Received
  <2>3. /\ tracker.disabled /\ (s.enabled \/ s.transcript # tracker.transcript)
             => StatusFails(s)
        /\ Edge(s) /\ (tracker.pending \/ tracker.baseline \notin {Unheard, s.transcript})
             => StatusFails(s)
    BY <1>9 DEF StatusFails
  <2>4. /\ Edge(s) => tracker.previous = "on" /\ ~s.enabled /\ ~tracker.disabled
        /\ RenewsBaseline(s) <=> s.enabled /\ ~tracker.disabled /\ ~tracker.ready
    BY DEF Edge, RenewsBaseline
  <2>5. Unheard \notin 0..client.transcript
    BY <1>4 DEF Unheard
  <2>6. /\ tracker.saw_enabled => tracker.baseline \in 0..client.transcript
        /\ tracker.ready \/ tracker.disabled \/ tracker.previous = "on"
             => tracker.saw_enabled
        /\ \/ click = <<>>
           \/ \E c \in 0..client.transcript :
                click = <<c>> /\ tracker.ready /\ tracker.baseline <= c
    BY DEF ObserverInv, Received
  <2>7. s.late => tracker.ready /\ s.transcript > tracker.baseline
    <3> SUFFICES ASSUME s.late PROVE tracker.ready /\ s.transcript > tracker.baseline
      OBVIOUS
    <3>1. PICK c \in Nat : click = <<c>> /\ c < s.transcript
      BY <2>2
    <3>2. tracker.ready /\ tracker.baseline <= c
      BY <2>6, <3>1
    <3>3. tracker.baseline \in Nat /\ s.transcript \in Nat
      BY <1>4, <2>2, <2>6, <3>2
    <3> QED
      BY <3>1, <3>2, <3>3
  <2> HIDE DEF s, t
  <2>8. Received'
    <3>1. tracker'.saw_enabled => tracker'.baseline \in 0..client'.transcript
      BY <1>1, <1>6, <2>1, <2>2, <2>4, <2>6
    <3>2. tracker'.ready \/ tracker'.disabled \/ tracker'.previous = "on"
            => tracker'.saw_enabled
      BY <1>6, <2>1, <2>4, <2>6
    <3>3. tracker.ready => tracker'.ready /\ tracker'.baseline = tracker.baseline
      BY <1>6, <2>1, <2>4
    <3> QED
      BY <1>1, <1>3, <3>1, <3>2, <3>3 DEF ObserverInv, Received, Asked
  <2>9. Remembered'
    <3>1. ASSUME tracker'.disabled, ~failing' PROVE tracker'.transcript = tracker'.baseline
      <4>1. CASE tracker.disabled
        BY <1>1, <1>6, <2>1, <2>3, <2>4, <3>1, <4>1 DEF ObserverInv, Remembered
      <4>2. CASE Edge(s)
        BY <1>1, <1>6, <2>1, <2>3, <2>4, <2>5, <2>6, <3>1, <4>2
      <4> QED
        BY <1>6, <2>1, <3>1, <4>1, <4>2
    <3>2. ASSUME witnessed', ~failing'
          PROVE  tracker'.ready /\ ~tracker'.disabled /\ (tracker'.pending \/ Ahead')
      <4>1. /\ tracker.ready /\ ~tracker.disabled
            /\ tracker.pending \/ s.transcript > tracker.baseline
        <5>1. CASE s.late
          <6>1. tracker.ready /\ s.transcript > tracker.baseline
            BY <2>7, <5>1
          <6>2. tracker.baseline \in Nat /\ s.transcript \in Nat
            BY <1>4, <2>2, <2>6, <6>1
          <6>3. s.transcript # tracker.baseline
            BY <6>1, <6>2
          <6>4. ~tracker.disabled
            BY <1>1, <2>3, <3>2, <6>3 DEF ObserverInv, Remembered
          <6> QED
            BY <6>1, <6>4
        <5>2. CASE ~s.late
          BY <1>1, <1>9, <3>2, <5>2 DEF ObserverInv, Remembered, Ahead, s
        <5> QED
          BY <5>1, <5>2
      <4>2. tracker.baseline \in 0..client.transcript
        BY <2>6, <4>1
      <4>3. s.transcript > tracker.baseline => s.transcript # tracker.baseline
        BY <1>4, <2>2, <4>2
      <4>4. ~Edge(s)
        BY <1>1, <2>3, <2>5, <3>2, <4>1, <4>2, <4>3
      <4>5. tracker' = t /\ t.ready /\ ~t.disabled /\ t.baseline = tracker.baseline
            /\ (t.pending <=> tracker.pending)
        BY <1>6, <2>1, <2>4, <4>1, <4>4
      <4>6. s.transcript > tracker.baseline => client.transcript > tracker.baseline
        BY <1>4, <2>2, <4>2
      <4> QED
        BY <1>1, <1>3, <4>1, <4>5, <4>6 DEF Ahead
    <3> QED
      BY <3>1, <3>2 DEF Remembered
  <2> QED
    BY <1>2, <1>7, <2>8, <2>9 DEF ObserverInv
<1> QED
  BY <1>8, <1>9

LEMMA PlansStep ==
  ASSUME ObserverInv, SampleEndPoint("plans")
  PROVE  ObserverInv'
<1> DEFINE p == polls["plans"].reply
           t == PlansSeen(p)
<1>1. /\ UNCHANGED <<client, click, stream, run_stage, acceptance, evidence>>
      /\ run_stage = "observing" /\ Asked("plans")
      /\ failing' = (failing \/ p.kind # "idle")
      /\ tracker' = Announce(t)
      /\ witnessed' = (witnessed \/ p.late)
      /\ polls' = [polls EXCEPT !["plans"] = Sampled("plans")]
  BY DEF SampleEndPoint, SamplePlans, truth, report, Asked
<1>2. EvidenceOK'
  BY <1>1 DEF ObserverInv, EvidenceOK
<1>3. /\ DOMAIN polls' = EndPoints /\ \A x \in EndPoints : DOMAIN polls'[x] = PollFields
      /\ ~Asked("plans")' /\ polls'["status"] = polls["status"]
  BY <1>1 DEF ObserverInv, ObserverShape, PollFields, Sampled, Asked, EndPoints
<1>4. DOMAIN tracker = TrackerFields
  BY DEF ObserverInv, ObserverShape
<1>5. /\ DOMAIN t = TrackerFields
      /\ t.ready = tracker.ready /\ t.saw_enabled = tracker.saw_enabled
      /\ t.previous = tracker.previous /\ t.baseline = tracker.baseline
      /\ t.disabled = tracker.disabled /\ t.transcript = tracker.transcript
      /\ t.pending = tracker.pending
  BY <1>4 DEF PlansSeen, TrackerFields
<1>6. /\ DOMAIN tracker' = TrackerFields /\ tracker'.saw_enabled = t.saw_enabled
      /\ tracker'.previous = t.previous /\ tracker'.baseline = t.baseline
      /\ tracker'.disabled = t.disabled /\ tracker'.transcript = t.transcript
      /\ t.ready => tracker' = t
      /\ tracker'.ready => t.ready \/ (t.saw_enabled /\ ~t.disabled)
  BY <1>1, <1>5, AnnounceEffect
<1>7. p.late => p.kind # "idle"
  BY <1>1 DEF ObserverInv, Received
<1>8. Asked("status")' = Asked("status") /\ StatusReply' = StatusReply
  BY <1>3 DEF Asked, StatusReply
<1> HIDE DEF p, t
<1>9. ObserverShape'
  BY <1>1, <1>3, <1>6 DEF ObserverInv, ObserverShape
<1>10. Received'
  BY <1>1, <1>3, <1>5, <1>6, <1>8 DEF ObserverInv, Received
<1>11. Remembered'
  BY <1>1, <1>5, <1>6, <1>7, <1>8 DEF ObserverInv, Remembered, Ahead
<1> QED
  BY <1>2, <1>9, <1>10, <1>11 DEF ObserverInv

\* An event of before the edge is kept until the edge; after the READY line nothing
\* but the edge can drop it.
LEMMA ReceiveStep ==
  ASSUME ObserverInv, Receive
  PROVE  ObserverInv'
<1> DEFINE e == Head(stream)
           t == EventSeen(e)
<1>1. /\ UNCHANGED <<client, click, run_stage, polls, acceptance, evidence>>
      /\ run_stage = "observing" /\ stream # <<>> /\ stream' = Tail(stream)
      /\ failing' = (failing \/ EventFails(e))
      /\ tracker' = Announce(t)
      /\ witnessed' = (witnessed \/ (e.late /\ e.kind = "target"))
  BY DEF Receive, truth, report
<1>2. PICK event : stream = <<event>> /\ (event.late => click # <<>>)
  BY <1>1 DEF ObserverInv, Received
<1>3. e = event /\ stream' = <<>>
  BY <1>1, <1>2
<1>4. e.late => tracker.ready /\ tracker.saw_enabled
  BY <1>2, <1>3 DEF ObserverInv, Received
<1>5. EvidenceOK'
  BY <1>1 DEF ObserverInv, EvidenceOK
<1>6. DOMAIN tracker = TrackerFields
  BY DEF ObserverInv, ObserverShape
<1>7. /\ DOMAIN t = TrackerFields
      /\ t.ready = tracker.ready /\ t.saw_enabled = tracker.saw_enabled
      /\ t.previous = tracker.previous /\ t.baseline = tracker.baseline
      /\ t.disabled = tracker.disabled /\ t.transcript = tracker.transcript
      /\ t.pending <=> \/ tracker.pending
                       \/ e.kind = "target" /\ tracker.saw_enabled /\ ~tracker.disabled
  BY <1>6 DEF EventSeen, TrackerFields
<1>8. /\ DOMAIN tracker' = TrackerFields /\ tracker'.saw_enabled = t.saw_enabled
      /\ tracker'.previous = t.previous /\ tracker'.baseline = t.baseline
      /\ tracker'.disabled = t.disabled /\ tracker'.transcript = t.transcript
      /\ t.ready => tracker' = t
      /\ tracker'.ready => t.ready \/ (t.saw_enabled /\ ~t.disabled)
  BY <1>1, <1>7, AnnounceEffect
<1>9. e.kind = "target" /\ tracker.disabled => EventFails(e)
  BY DEF EventFails
<1>10. Asked("status")' = Asked("status") /\ StatusReply' = StatusReply
       /\ Asked("plans")' = Asked("plans")
  BY <1>1 DEF Asked, StatusReply
<1> HIDE DEF e, t
<1>11. ObserverShape'
  BY <1>1, <1>8 DEF ObserverInv, ObserverShape
<1>12. Received'
  BY <1>1, <1>3, <1>7, <1>8, <1>10 DEF ObserverInv, Received
<1>13. Remembered'
  BY <1>1, <1>4, <1>7, <1>8, <1>9, <1>10 DEF ObserverInv, Remembered, Ahead
<1> QED
  BY <1>5, <1>11, <1>12, <1>13 DEF ObserverInv

LEMMA SummaryStep ==
  ASSUME ObserverInv, NEW passed \in BOOLEAN, Summarize(passed),
         passed => Complete /\ ~failing,
         run_stage \in {"settings", "observing"}
  PROVE  ObserverInv'
<1>1. /\ run_stage' = "summary" /\ acceptance' = IF passed THEN "passed" ELSE "failed"
      /\ polls' = NoPolls /\ stream' = <<>>
      /\ UNCHANGED <<client, click, tracker, failing, evidence, witnessed>>
  BY DEF Summarize, truth
<1>2. SameTracker /\ SamePolls
  BY <1>1, NothingAsked DEF SameTracker, SamePolls, ObserverInv, ObserverShape
<1>3. ObserverShape' /\ Received' /\ Remembered'
  BY <1>1, <1>2, ObserverFrame
<1>4. passed => ~witnessed
  BY DEF Complete, ObserverInv, Remembered
<1>5. EvidenceOK'
  BY <1>1, <1>4 DEF ObserverInv, EvidenceOK
<1> QED
  BY <1>3, <1>5 DEF ObserverInv

LEMMA ObserverStep == ObserverInv /\ [ObserverNext]_observer_vars => ObserverInv'
<1> SUFFICES ASSUME ObserverInv, [ObserverNext]_observer_vars PROVE ObserverInv'
  OBVIOUS
<1>0. /\ DOMAIN tracker = TrackerFields
      /\ DOMAIN polls = EndPoints /\ \A e \in EndPoints : DOMAIN polls[e] = PollFields
      /\ run_stage \in {"settings", "observing", "prepare", "prepared"} => acceptance = "none"
  BY DEF ObserverInv, ObserverShape, EvidenceOK
\* A step that neither reads nor concludes.
<1>1. ASSUME SameTracker, SamePolls, failing => failing', stream' \in {stream, <<>>},
             UNCHANGED <<client, click, witnessed, acceptance, evidence>>,
             \/ run_stage \in {"settings", "observing", "prepare", "prepared"}
             \/ run_stage' \in {"summary", "done", "aborted"}
      PROVE  ObserverInv'
  <2>1. ObserverShape' /\ Received' /\ Remembered'
    BY <1>1, ObserverFrame
  <2>2. EvidenceOK'
    BY <1>0, <1>1 DEF ObserverInv, EvidenceOK
  <2> QED
    BY <2>1, <2>2 DEF ObserverInv
<1>2. UNCHANGED tracker => SameTracker
  BY <1>0 DEF SameTracker
<1>3. UNCHANGED polls => SamePolls
  BY <1>0 DEF SamePolls, Asked
<1>4. ASSUME PrepareOutput \/ OpenOutput \/ ConnectStream \/ StreamEnds \/ Abort
      PROVE  ObserverInv'
  BY <1>1, <1>2, <1>3, <1>4
  DEF PrepareOutput, OpenOutput, ConnectStream, StreamEnds, Abort, truth, report
<1>5. ASSUME LoadSettings PROVE ObserverInv'
  <2>1. CASE Summarize(FALSE)
    BY <1>5, <2>1, SummaryStep DEF LoadSettings
  <2>2. CASE ~Summarize(FALSE)
    BY <1>1, <1>2, <1>3, <1>5, <2>2 DEF LoadSettings, truth, report
  <2> QED
    BY <2>1, <2>2
<1>6. ASSUME InterruptObserver PROVE ObserverInv'
  BY <1>6, SummaryStep DEF InterruptObserver
<1>7. ASSUME WindowEnds PROVE ObserverInv'
  <2>1. PICK passed \in BOOLEAN : passed = (Complete /\ ~failing)
    OBVIOUS
  <2>2. Summarize(passed) /\ run_stage = "observing"
    BY <1>7, <2>1 DEF WindowEnds, Summarize
  <2> QED
    BY <2>1, <2>2, SummaryStep
<1>8. ASSUME NEW e \in EndPoints, PollFails(e) PROVE ObserverInv'
  <2>1. polls' = [polls EXCEPT ![e] = [polls[e] EXCEPT !.phase = "waiting",
                                                       !.reply = NoReply]]
    BY <1>8 DEF PollFails
  <2>2. /\ DOMAIN polls' = EndPoints /\ \A x \in EndPoints : DOMAIN polls'[x] = PollFields
        /\ ~Asked(e)' /\ \A x \in EndPoints \ {e} : polls'[x] = polls[x]
    BY <1>0, <2>1 DEF PollFields, Asked
  <2>3. SamePolls
    BY <2>2 DEF SamePolls, Asked
  <2> QED
    BY <1>1, <1>2, <1>8, <2>3 DEF PollFails, truth, report
<1>9. ASSUME ObserverTimePasses PROVE ObserverInv'
  <2>1. SamePolls
    BY <1>0, <1>9 DEF ObserverTimePasses, SamePolls, Asked, PollFields
  <2>2. SameTracker
    BY <1>0, <1>9 DEF ObserverTimePasses, SameTracker, TrackerFields
  <2> QED
    BY <1>1, <1>9, <2>1, <2>2 DEF ObserverTimePasses, truth, report
<1>10. ASSUME Publish PROVE ObserverInv'
  <2>1. PICK i \in 1..2 :
          /\ evidence = {PublicationOrder[j] : j \in 1..(i - 1)}
          /\ evidence' = evidence \cup {PublicationOrder[i]}
          /\ run_stage' = IF i = 2 THEN "done" ELSE run_stage
    BY <1>10 DEF Publish
  <2>2. run_stage = "summary" /\ run_stage' \in {"summary", "done"}
    BY <1>10, <2>1 DEF Publish
  <2>3. UNCHANGED <<client, click, stream, polls, tracker, failing, acceptance, witnessed>>
    BY <1>10 DEF Publish, truth
  <2>4. ObserverShape' /\ Received' /\ Remembered'
    BY <1>2, <1>3, <2>3, ObserverFrame
  <2>5. evidence' \in {{"log"}, {"log", "summary"}}
    <3>1. PublicationOrder[1] = "log" /\ PublicationOrder[2] = "summary"
      BY DEF PublicationOrder
    <3>2. CASE i = 1
      <4>1. evidence = {}
        BY <2>1, <3>2
      <4> QED
        BY <2>1, <3>1, <3>2, <4>1
    <3>3. CASE i = 2
      <4>1. 1..(2 - 1) = {1}
        OBVIOUS
      <4>2. evidence = {PublicationOrder[j] : j \in {1}}
        BY <2>1, <3>3, <4>1
      <4>3. evidence = {"log"}
        BY <3>1, <4>2
      <4> QED
        BY <2>1, <3>1, <3>3, <4>3
    <3>4. i = 1 \/ i = 2
      OBVIOUS
    <3> QED
      BY <3>2, <3>3, <3>4
  <2>6. EvidenceOK'
    BY <2>2, <2>3, <2>5 DEF ObserverInv, EvidenceOK
  <2> QED
    BY <2>4, <2>6 DEF ObserverInv
<1>11. ASSUME UNCHANGED observer_vars PROVE ObserverInv'
  <2>1. UNCHANGED <<client, click, stream, polls, tracker, failing, acceptance, evidence,
                    run_stage, witnessed>>
    BY <1>11 DEF observer_vars, truth, report
  <2>2. ObserverShape' /\ Received' /\ Remembered'
    BY <1>2, <1>3, <2>1, ObserverFrame
  <2> QED
    BY <2>1, <2>2 DEF ObserverInv, EvidenceOK
<1>12. ASSUME NEW e \in EndPoints, SampleEndPoint(e) PROVE ObserverInv'
  BY <1>12, StatusStep, PlansStep DEF EndPoints
<1> QED
  BY <1>4, <1>5, <1>6, <1>7, <1>8, <1>9, <1>10, <1>11, <1>12, ClientStep, AskStep,
     ReceiveStep
  DEF ObserverNext

LEMMA ObserverStart == ObserverInit => ObserverInv
<1> SUFFICES ASSUME ObserverInit PROVE ObserverInv
  OBVIOUS
<1>1. /\ DOMAIN polls = EndPoints /\ \A e \in EndPoints : DOMAIN polls[e] = PollFields
      /\ \A e \in EndPoints : ~Asked(e)
  BY DEF ObserverInit, NoPolls, PollFields, Asked
<1>2. /\ DOMAIN tracker = TrackerFields /\ ~tracker.ready /\ ~tracker.saw_enabled
      /\ tracker.previous = "unknown" /\ ~tracker.disabled
  BY DEF ObserverInit, TrackerFields
<1>3. client \in [enabled : BOOLEAN, transcript : 0..Transcripts]
  <2>1. PICK enabled \in BOOLEAN : client = [enabled |-> enabled, transcript |-> 0]
    BY DEF ObserverInit
  <2> QED
    BY <2>1, ObserverAssumption
<1>4. /\ click = <<>> /\ stream = <<>> /\ failing = FALSE /\ acceptance = "none"
      /\ evidence = {} /\ witnessed = FALSE
  BY DEF ObserverInit
<1>5. Received
  BY <1>1, <1>2, <1>4 DEF Received, EndPoints
<1> QED
  BY <1>1, <1>2, <1>3, <1>4, <1>5 DEF ObserverInv, ObserverShape, Remembered, EvidenceOK

\* For a window of any length and any number of transcripts: an acceptance that
\* passed is true to what was received, in whatever order it came.
THEOREM AcceptanceIsTruthful == ObserverSpec => []AcceptanceIsTrue
<1>1. ObserverInv => AcceptanceIsTrue
  BY DEF ObserverInv, EvidenceOK, AcceptanceIsTrue
<1> QED
  BY <1>1, ObserverStart, ObserverStep, PTL DEF ObserverSpec

-----------------------------------------------------------------------------
(* The probe of the first motion *)

ProbeShape ==
  /\ DOMAIN adapter = {"guard", "daemon_armed", "spent", "active"}
  /\ DOMAIN answers = {"arm", "disarm"}

\* What the probe is told of a motion, the adapter has sent.
Observed ==
  /\ adapter.active \/ active_observed => drove
  /\ \/ diagnostic = NoReport
     \/ \E report_ : diagnostic = <<report_>> /\ (report_.active => drove)
  /\ verdict = "measured" => active_observed

BeforeArm == {"acquire", "preamble", "arm"}
BeforeDisarm == BeforeArm \cup {"arming", "await", "motion", "measure", "disarm"}

\* The disarm is the last request of a session: once it is answered, an arm request
\* that outlived its time-out is answered, too.
Requested ==
  /\ requests \in {<<>>, <<"arm">>, <<"disarm">>, <<"arm", "disarm">>}
  /\ probe \in BeforeArm => requests = <<>>
  /\ probe \in BeforeDisarm =>
       answers["disarm"] = "none" /\ requests \in {<<>>, <<"arm">>}
  /\ answers["disarm"] \in {"yes", "no"} => requests = <<>>
  /\ answers["disarm"] = "yes" =>
       /\ adapter.guard \notin {"PREPARING", "ARMED"}
       /\ ~adapter.daemon_armed /\ ~driving

\* A session is watched only behind an acknowledged disarm.
Watched ==
  /\ probe \in {"stopped", "watching", "look"} => answers["disarm"] = "yes"
  /\ verdict = "PASS" =>
       probe = "over" /\ answers["disarm"] = "yes" /\ drove /\ ~latched

ProbeInv == ProbeShape /\ Observed /\ Requested /\ Watched

LEMMA SpinEffect ==
  ASSUME ProbeInv, SpinOnce
  PROVE  /\ UNCHANGED <<adapter, driving, drove>>
         /\ active_observed' => drove
         /\ verdict = "measured" => active_observed'
         /\ \/ diagnostic' = NoReport
            \/ \E report_ : diagnostic' = <<report_>> /\ (report_.active => drove)
<1>1. ASSUME NEW sample \in Samples, OnState(sample) \/ OnOdom(sample)
      PROVE  active_observed' = active_observed
  BY <1>1 DEF OnState, OnOdom
<1>2. ASSUME NEW fine \in DiagnosticVerdicts, OnDiagnostics(fine)
      PROVE  /\ active_observed' => drove
             /\ active_observed => active_observed'
  <2>1. PICK report_ : diagnostic = <<report_>> /\ (report_.active => drove)
    BY <1>2 DEF OnDiagnostics, ProbeInv, Observed
  <2>2. view' = report_
    BY <1>2, <2>1 DEF OnDiagnostics
  <2> QED
    BY <1>2, <2>1, <2>2 DEF OnDiagnostics, ProbeInv, Observed
<1>3. OnMalformedDiagnostics => active_observed' = active_observed
  BY DEF OnMalformedDiagnostics
<1> QED
  BY <1>1, <1>2, <1>3 DEF SpinOnce, ProbeInv, Observed, robot, inputs

\* A step of the process that only reads what has arrived.
LEMMA SpinStep ==
  ASSUME ProbeInv, SpinOnce, probe # "over",
         UNCHANGED <<progress, service>>,
         probe' = probe \/ (probe \in {"watching", "look"} /\ probe' \in {"watching", "look"})
  PROVE  ProbeInv'
<1>1. /\ UNCHANGED <<adapter, driving, drove>>
      /\ active_observed' => drove
      /\ verdict = "measured" => active_observed'
      /\ \/ diagnostic' = NoReport
         \/ \E report_ : diagnostic' = <<report_>> /\ (report_.active => drove)
  BY SpinEffect
<1>2. UNCHANGED <<verdict, requests, answers>>
  BY DEF progress, service
<1>3. probe' \in BeforeArm => probe \in BeforeArm
  BY DEF BeforeArm
<1>4. probe' \in BeforeDisarm => probe \in BeforeDisarm
  BY DEF BeforeDisarm, BeforeArm
<1>5. ProbeShape' /\ Observed'
  BY <1>1, <1>2 DEF ProbeInv, ProbeShape, Observed
<1>6. Requested'
  BY <1>1, <1>2, <1>3, <1>4 DEF ProbeInv, Requested
<1>7. Watched'
  BY <1>1, <1>2 DEF ProbeInv, Watched
<1> QED
  BY <1>5, <1>6, <1>7 DEF ProbeInv

\* A step of the process to a later place, with nothing received or requested.
LEMMA ProbeMoves ==
  ASSUME ProbeInv, probe # "over",
         UNCHANGED <<adapter, diagnostic, driving, drove, active_observed, requests, answers>>,
         \/ verdict' = verdict \/ verdict' = "FAIL"
         \/ verdict' = "measured" /\ active_observed,
         probe' \in BeforeArm => probe \in BeforeArm,
         probe' \in BeforeDisarm => probe \in BeforeDisarm,
         probe' \in {"stopped", "watching", "look"} => answers["disarm"] = "yes"
  PROVE  ProbeInv'
<1>1. ProbeShape' /\ Observed'
  BY DEF ProbeInv, ProbeShape, Observed
<1>2. Requested'
  BY DEF ProbeInv, Requested
<1>3. Watched'
  BY DEF ProbeInv, Watched
<1> QED
  BY <1>1, <1>2, <1>3 DEF ProbeInv

LEMMA FailStep ==
  ASSUME ProbeInv, Fail, probe \in BeforeDisarm
  PROVE  ProbeInv'
<1>1. /\ probe # "over" /\ probe' \notin BeforeArm
      /\ probe' \notin {"stopped", "watching", "look"}
  BY DEF Fail, BeforeDisarm, BeforeArm
<1>2. UNCHANGED <<adapter, diagnostic, driving, drove, active_observed, requests, answers,
                  verdict>>
  BY DEF Fail, inputs, progress, service, robot
<1> QED
  BY <1>1, <1>2, ProbeMoves

\* The queue of the arm service.
LEMMA QueueFacts ==
  /\ Append(<<>>, "disarm") = <<"disarm">>
  /\ Append(<<"arm">>, "disarm") = <<"arm", "disarm">>
  /\ Head(<<"arm">>) = "arm" /\ Tail(<<"arm">>) = <<>>
  /\ Head(<<"disarm">>) = "disarm" /\ Tail(<<"disarm">>) = <<>>
  /\ Head(<<"arm", "disarm">>) = "arm" /\ Tail(<<"arm", "disarm">>) = <<"disarm">>
<1>1. /\ Append(<<>>, "disarm") = <<"disarm">>
      /\ Head(<<"arm">>) = "arm" /\ Tail(<<"arm">>) = <<>>
      /\ Head(<<"disarm">>) = "disarm" /\ Tail(<<"disarm">>) = <<>>
      /\ Head(<<"arm", "disarm">>) = "arm"
  OBVIOUS
<1>2. Append(<<"arm">>, "disarm") = <<"arm", "disarm">>
  <2> DEFINE appended == Append(<<"arm">>, "disarm")
  <2> DEFINE written == <<"arm", "disarm">>
  <2>1. appended \in Seq({"arm", "disarm"}) /\ written \in Seq({"arm", "disarm"})
    OBVIOUS
  <2>2. Len(appended) = 2 /\ Len(written) = 2
    OBVIOUS
  <2>3. appended[1] = "arm" /\ appended[2] = "disarm" /\ written[1] = "arm" /\ written[2] = "disarm"
    OBVIOUS
  <2> HIDE DEF appended, written
  <2>4. appended = [i \in 1..2 |-> appended[i]] /\ written = [i \in 1..2 |-> written[i]]
    BY <2>1, <2>2
  <2>5. \A i \in 1..2 : i = 1 \/ i = 2
    OBVIOUS
  <2>6. appended = written
    BY <2>3, <2>4, <2>5
  <2> QED
    BY <2>6 DEF appended, written
<1>3. Tail(<<"arm", "disarm">>) = <<"disarm">>
  OBVIOUS
<1> QED
  BY <1>1, <1>2, <1>3

LEMMA ProbePlaces ==
  /\ {"acquire", "preamble", "arm", "arming", "await", "motion", "measure", "disarm"}
       = BeforeDisarm
  /\ {"acquire", "preamble", "arm"} = BeforeArm
  BY DEF BeforeDisarm, BeforeArm

\* Before the arm request.
LEMMA GatherSteps ==
  ASSUME ProbeInv,
         \/ AcquireSpin \/ \E graph \in GraphVerdicts : AcquireSample(graph)
         \/ AcquireEnds \/ Preamble
  PROVE  ProbeInv'
<1>1. ASSUME AcquireSpin PROVE ProbeInv'
  BY <1>1, FailStep, SpinStep, ProbePlaces DEF AcquireSpin, PublishAndSpin
<1>2. ASSUME NEW graph \in GraphVerdicts, AcquireSample(graph) PROVE ProbeInv'
  BY <1>2, ProbeMoves DEF AcquireSample, inputs, service, robot
<1>3. ASSUME AcquireEnds PROVE ProbeInv'
  <2>1. CASE Fail
    BY <1>3, <2>1, FailStep, ProbePlaces DEF AcquireEnds
  <2>2. CASE probe' = "preamble" /\ UNCHANGED <<inputs, progress, service, robot, command>>
    BY <1>3, <2>2, ProbeMoves, ProbePlaces
    DEF AcquireEnds, inputs, progress, service, robot
  <2> QED
    BY <1>3, <2>1, <2>2 DEF AcquireEnds
<1>4. ASSUME Preamble PROVE ProbeInv'
  <2>1. CASE Fail
    BY <1>4, <2>1, FailStep, ProbePlaces DEF Preamble
  <2>2. CASE PublishAndSpin("zero") /\ UNCHANGED <<probe, progress, service>>
    BY <1>4, <2>2, SpinStep DEF Preamble, PublishAndSpin
  <2>3. CASE probe' = "arm" /\ UNCHANGED <<inputs, progress, service, robot, command>>
    BY <1>4, <2>3, ProbeMoves, ProbePlaces DEF Preamble, inputs, progress, service, robot
  <2> QED
    BY <1>4, <2>1, <2>2, <2>3 DEF Preamble
<1> QED
  BY <1>1, <1>2, <1>3, <1>4

LEMMA ArmStep == ProbeInv /\ RequestArm => ProbeInv'
<1> SUFFICES ASSUME ProbeInv, RequestArm PROVE ProbeInv'
  OBVIOUS
<1>1. CASE Fail
  BY <1>1, FailStep, ProbePlaces DEF RequestArm
<1>2. CASE probe = "arm" /\ SendRequest("arm") /\ probe' = "arming"
  <2>1. /\ requests = <<>> /\ answers["disarm"] = "none"
        /\ requests' = Append(requests, "arm")
        /\ answers' = [answers EXCEPT !["arm"] = "pending"]
        /\ UNCHANGED <<adapter, diagnostic, driving, drove, active_observed, verdict>>
    BY <1>2, ProbePlaces DEF SendRequest, inputs, progress, robot, ProbeInv, Requested
  <2>2. requests' = <<"arm">>
    BY <2>1
  <2>3. DOMAIN answers' = {"arm", "disarm"} /\ answers'["disarm"] = "none"
    BY <2>1 DEF ProbeInv, ProbeShape
  <2>4. Observed' /\ ProbeShape'
    BY <2>1, <2>3 DEF ProbeInv, ProbeShape, Observed
  <2>5. Requested'
    BY <1>2, <2>2, <2>3 DEF Requested, BeforeArm
  <2>6. Watched'
    BY <1>2, <2>1 DEF ProbeInv, Watched
  <2> QED
    BY <2>4, <2>5, <2>6 DEF ProbeInv
<1>3. CASE probe = "arming" /\ AwaitAnswer("arm")
  BY <1>3, SpinStep DEF AwaitAnswer, PublishAndSpin
<1>4. CASE /\ probe = "arming" /\ arm_accepted' = TRUE /\ probe' = "await"
           /\ UNCHANGED <<stable, stop_requested, verdict, inputs, service, robot, command>>
  BY <1>4, ProbeMoves, ProbePlaces DEF inputs, service, robot, BeforeArm
<1> QED
  BY <1>1, <1>2, <1>3, <1>4 DEF RequestArm

LEMMA MotionSteps ==
  ASSUME ProbeInv,
         \/ AwaitArmed \/ Motion
         \/ \E displaced \in DisplacementVerdicts : Measure(displaced)
  PROVE  ProbeInv'
<1>1. CASE Fail
  BY <1>1, FailStep, ProbePlaces DEF AwaitArmed, Motion, Measure
<1>2. ASSUME AwaitArmed, ~Fail PROVE ProbeInv'
  <2>1. CASE PublishAndSpin("zero") /\ UNCHANGED <<probe, progress, service>>
    BY <1>2, <2>1, SpinStep DEF AwaitArmed, PublishAndSpin
  <2>2. CASE probe' = "motion" /\ UNCHANGED <<inputs, progress, service, robot, command>>
    BY <1>2, <2>2, ProbeMoves, ProbePlaces
    DEF AwaitArmed, inputs, progress, service, robot, BeforeArm
  <2> QED
    BY <1>2, <2>1, <2>2 DEF AwaitArmed
<1>3. ASSUME Motion, ~Fail PROVE ProbeInv'
  <2>1. CASE PublishAndSpin("speed") /\ UNCHANGED <<probe, progress, service>>
    BY <1>3, <2>1, SpinStep DEF Motion, PublishAndSpin
  <2>2. CASE probe' = "measure" /\ UNCHANGED <<inputs, progress, service, robot>>
    BY <1>3, <2>2, ProbeMoves, ProbePlaces
    DEF Motion, inputs, progress, service, robot, BeforeArm
  <2> QED
    BY <1>3, <2>1, <2>2 DEF Motion
<1>4. ASSUME NEW displaced \in DisplacementVerdicts, Measure(displaced) PROVE ProbeInv'
  BY <1>4, ProbeMoves, ProbePlaces DEF Measure, Confirmed, inputs, service, robot, BeforeArm
<1> QED
  BY <1>1, <1>2, <1>3, <1>4

LEMMA DisarmStep == ProbeInv /\ Disarm => ProbeInv'
<1> SUFFICES ASSUME ProbeInv, Disarm PROVE ProbeInv'
  OBVIOUS
<1>1. CASE probe = "disarm" /\ probe' = "hold" /\ UNCHANGED <<inputs, progress, service, robot>>
  BY <1>1, ProbeMoves DEF inputs, progress, service, robot, BeforeDisarm, BeforeArm
<1>2. CASE /\ probe = "disarm" /\ requests' = Append(requests, "disarm")
           /\ answers' = [answers EXCEPT !["disarm"] = "pending"]
           /\ probe' = "disarming" /\ UNCHANGED <<inputs, progress, robot>>
  <2>1. /\ requests \in {<<>>, <<"arm">>} /\ answers["disarm"] = "none"
        /\ UNCHANGED <<adapter, diagnostic, driving, drove, active_observed, verdict>>
    BY <1>2, ProbePlaces DEF inputs, progress, robot, ProbeInv, Requested
  <2>2. requests' \in {<<"disarm">>, <<"arm", "disarm">>}
    BY <1>2, <2>1, QueueFacts
  <2>3. DOMAIN answers' = {"arm", "disarm"} /\ answers'["disarm"] = "pending"
    BY <1>2 DEF ProbeInv, ProbeShape
  <2>4. Observed' /\ ProbeShape'
    BY <2>1, <2>3 DEF ProbeInv, ProbeShape, Observed
  <2>5. Requested'
    BY <1>2, <2>2, <2>3 DEF Requested, BeforeArm, BeforeDisarm
  <2>6. Watched'
    BY <1>2, <2>1 DEF ProbeInv, Watched
  <2> QED
    BY <2>4, <2>5, <2>6 DEF ProbeInv
<1>3. CASE probe = "disarming" /\ AwaitAnswer("disarm")
  BY <1>3, SpinStep DEF AwaitAnswer, PublishAndSpin
<1>4. CASE /\ probe = "disarming"
           /\ probe' = IF Answered("disarm", TRUE) THEN "stopped" ELSE "hold"
           /\ UNCHANGED <<inputs, progress, service, robot, command>>
  <2>1. probe' = "stopped" => answers["disarm"] = "yes"
    BY <1>4 DEF Answered
  <2> QED
    BY <1>4, <2>1, ProbeMoves
    DEF inputs, progress, service, robot, BeforeDisarm, BeforeArm
<1> QED
  BY <1>1, <1>2, <1>3, <1>4 DEF Disarm

LEMMA HoldStep == ProbeInv /\ Hold => ProbeInv'
<1> SUFFICES ASSUME ProbeInv, Hold PROVE ProbeInv'
  OBVIOUS
<1>1. CASE PublishAndSpin("zero") /\ UNCHANGED <<probe, progress, service>>
  BY <1>1, SpinStep DEF Hold, PublishAndSpin
<1>2. CASE /\ probe = "stopped" /\ probe' = "watching"
           /\ UNCHANGED <<active_observed, progress, service, robot>>
  <2>1. answers["disarm"] = "yes"
    BY <1>2 DEF ProbeInv, Watched
  <2> QED
    BY <1>2, <2>1, ProbeMoves DEF progress, service, robot, BeforeDisarm, BeforeArm
<1>3. CASE /\ probe' = "over" /\ verdict' = "FAIL"
           /\ UNCHANGED <<inputs, stable, stop_requested, arm_accepted, service, robot,
                          command>>
  BY <1>3, ProbeMoves DEF Hold, inputs, service, robot, BeforeDisarm, BeforeArm
<1> QED
  BY <1>1, <1>2, <1>3 DEF Hold

\* The verdict: only a watch that began behind the disarm and sees no latch passes.
LEMMA WatchStep == ProbeInv /\ Watch => ProbeInv'
<1> SUFFICES ASSUME ProbeInv, Watch PROVE ProbeInv'
  OBVIOUS
<1>1. CASE /\ probe = "watching" /\ PublishAndSpin("zero") /\ probe' = "look"
           /\ UNCHANGED <<progress, service>>
  BY <1>1, SpinStep DEF PublishAndSpin
<1>2. CASE /\ probe = "look"
           /\ \/ probe' = "over" /\ verdict' = "FAIL"
              \/ probe' = "watching" /\ UNCHANGED verdict
           /\ UNCHANGED <<inputs, stable, stop_requested, arm_accepted, service, robot,
                          command>>
  <2>1. answers["disarm"] = "yes"
    BY <1>2 DEF ProbeInv, Watched
  <2> QED
    BY <1>2, <2>1, ProbeMoves DEF inputs, service, robot, BeforeDisarm, BeforeArm
<1>3. CASE /\ probe = "look" /\ probe' = "over" /\ StoppedHealth
           /\ verdict' \in Persisted(Evidence) /\ verdict' # "FAIL"
           /\ UNCHANGED <<inputs, stable, stop_requested, arm_accepted, service, robot,
                          command>>
  <2>1. /\ verdict' = "PASS" /\ verdict = "measured"
    BY <1>3 DEF Persisted, Evidence
  <2>2. answers["disarm"] = "yes" /\ drove /\ ~latched
    BY <1>3, <2>1 DEF ProbeInv, Watched, Observed, StoppedHealth, Healthy
  <2>3. UNCHANGED <<adapter, diagnostic, driving, drove, active_observed, requests, answers,
                    latched>>
    BY <1>3 DEF inputs, service, robot
  <2>4. ProbeShape' /\ Observed'
    BY <2>1, <2>3 DEF ProbeInv, ProbeShape, Observed
  <2>5. Requested'
    BY <1>3, <2>3 DEF ProbeInv, Requested, BeforeDisarm, BeforeArm
  <2>6. Watched'
    BY <1>3, <2>2, <2>3 DEF Watched
  <2> QED
    BY <2>4, <2>5, <2>6 DEF ProbeInv
<1> QED
  BY <1>1, <1>2, <1>3 DEF Watch

LEMMA AdapterStep == ProbeInv /\ Adapter => ProbeInv'
<1> SUFFICES ASSUME ProbeInv, Adapter PROVE ProbeInv'
  OBVIOUS
<1>1. UNCHANGED <<probe, verdict, active_observed, latched>>
  BY DEF Adapter, progress, inputs
<1>2. /\ requests \in {<<>>, <<"arm">>, <<"disarm">>, <<"arm", "disarm">>}
      /\ DOMAIN adapter = {"guard", "daemon_armed", "spent", "active"}
      /\ DOMAIN answers = {"arm", "disarm"}
  BY DEF ProbeInv, ProbeShape, Requested
<1>3. ASSUME requests # <<>>
      PROVE  answers["disarm"] \notin {"yes", "no"} /\ verdict # "PASS"
             /\ probe \notin {"stopped", "watching", "look"} /\ probe \notin BeforeArm
  BY <1>3 DEF ProbeInv, Requested, Watched
<1>4. ASSUME AdapterArms, UNCHANGED diagnostic PROVE ProbeInv'
  <2>1. /\ requests # <<>> /\ Head(requests) = "arm" /\ requests' = Tail(requests)
        /\ UNCHANGED <<driving, drove>>
    BY <1>4 DEF AdapterArms
  <2>2. \/ requests = <<"arm">> /\ requests' = <<>>
        \/ requests = <<"arm", "disarm">> /\ requests' = <<"disarm">>
    BY <1>2, <2>1, QueueFacts
  <2>3. DOMAIN answers' = {"arm", "disarm"} /\ answers'["disarm"] = answers["disarm"]
    BY <1>2, <1>4 DEF AdapterArms
  <2>4. /\ DOMAIN adapter' = {"guard", "daemon_armed", "spent", "active"}
        /\ adapter'.active => adapter.active
    BY <1>2, <1>4 DEF AdapterArms
  <2>5. ProbeShape' /\ Observed'
    BY <1>1, <1>4, <2>1, <2>3, <2>4 DEF ProbeInv, ProbeShape, Observed
  <2>6. Requested'
    BY <1>1, <1>3, <2>1, <2>2, <2>3 DEF ProbeInv, Requested
  <2>7. Watched'
    BY <1>1, <1>3, <2>1 DEF Watched
  <2> QED
    BY <2>5, <2>6, <2>7 DEF ProbeInv
<1>5. ASSUME AdapterDisarms, UNCHANGED diagnostic PROVE ProbeInv'
  <2>1. PICK accepted \in BOOLEAN, stopped \in BOOLEAN :
          /\ accepted \/ adapter.guard = "FAULT"
          /\ adapter' = [adapter EXCEPT !.guard = IF accepted THEN "DISARMED" ELSE @,
                                        !.active = FALSE, !.daemon_armed = FALSE]
          /\ driving' = (driving /\ ~stopped)
          /\ answers' = [answers EXCEPT !["disarm"] = IF accepted /\ stopped THEN "yes"
                                                      ELSE "no"]
    BY <1>5 DEF AdapterDisarms
  <2>2. /\ requests # <<>> /\ Head(requests) = "disarm" /\ requests' = Tail(requests)
        /\ drove' = drove
    BY <1>5 DEF AdapterDisarms
  <2>3. requests = <<"disarm">> /\ requests' = <<>>
    BY <1>2, <2>2, QueueFacts
  <2>4. /\ DOMAIN answers' = {"arm", "disarm"}
        /\ answers'["disarm"] = IF accepted /\ stopped THEN "yes" ELSE "no"
    BY <1>2, <2>1
  <2>5. /\ DOMAIN adapter' = {"guard", "daemon_armed", "spent", "active"}
        /\ ~adapter'.active /\ ~adapter'.daemon_armed
        /\ accepted => adapter'.guard = "DISARMED"
    BY <1>2, <2>1
  <2>6. ProbeShape' /\ Observed'
    BY <1>1, <1>5, <2>2, <2>4, <2>5 DEF ProbeInv, ProbeShape, Observed
  <2>7. probe \notin BeforeDisarm
    BY <2>3 DEF ProbeInv, Requested
  <2>8. Requested'
    BY <1>1, <2>1, <2>3, <2>4, <2>5, <2>7 DEF Requested, BeforeDisarm
  <2>9. Watched'
    BY <1>1, <1>3, <2>2 DEF Watched
  <2> QED
    BY <2>6, <2>8, <2>9 DEF ProbeInv
<1>6. ASSUME AdapterTicks, UNCHANGED diagnostic PROVE ProbeInv'
  <2>1. adapter.guard \in {"PREPARING", "ARMED"} /\ UNCHANGED <<requests, answers>>
    BY <1>6 DEF AdapterTicks, service
  <2>2. answers["disarm"] # "yes"
    BY <2>1 DEF ProbeInv, Requested
  <2>3. /\ DOMAIN adapter' = {"guard", "daemon_armed", "spent", "active"}
        /\ drove => drove'
        /\ adapter'.active => drove'
    <3>1. CASE adapter' = [adapter EXCEPT !.guard = "ARMED", !.daemon_armed = TRUE]
               /\ drove' = drove
      BY <1>2, <3>1 DEF ProbeInv, Observed
    <3>2. CASE adapter' = [adapter EXCEPT !.active = TRUE] /\ drove' = TRUE
      BY <1>2, <3>2
    <3>3. CASE adapter' = adapter /\ drove' = drove
      BY <1>2, <3>3 DEF ProbeInv, Observed
    <3>4. CASE adapter' = [adapter EXCEPT !.guard = "FAULT", !.active = FALSE,
                                          !.daemon_armed = FALSE] /\ drove' = drove
      BY <1>2, <3>4 DEF ProbeInv, Observed
    <3> QED
      BY <1>6, <3>1, <3>2, <3>3, <3>4 DEF AdapterTicks
  <2>4. ProbeShape' /\ Observed'
    BY <1>1, <1>6, <2>1, <2>3 DEF ProbeInv, ProbeShape, Observed
  <2>5. Requested'
    BY <1>1, <2>1, <2>2 DEF ProbeInv, Requested
  <2>6. Watched'
    BY <1>1, <2>1, <2>2 DEF ProbeInv, Watched
  <2> QED
    BY <2>4, <2>5, <2>6 DEF ProbeInv
<1>7. ASSUME DaemonStops, UNCHANGED diagnostic PROVE ProbeInv'
  BY <1>1, <1>7
  DEF DaemonStops, service, ProbeInv, ProbeShape, Observed, Requested, Watched
<1>8. ASSUME AdapterReports PROVE ProbeInv'
  <2>1. diagnostic' = <<adapter>> /\ UNCHANGED <<adapter, driving, drove, requests, answers>>
    BY <1>8 DEF AdapterReports, service
  <2>2. adapter.active => drove
    BY DEF ProbeInv, Observed
  <2> QED
    BY <1>1, <2>1, <2>2 DEF ProbeInv, ProbeShape, Observed, Requested, Watched
<1> QED
  BY <1>4, <1>5, <1>6, <1>7, <1>8 DEF Adapter

LEMMA ProbeStep == ProbeInv /\ [ProbeNext]_probe_vars => ProbeInv'
<1> SUFFICES ASSUME ProbeInv, [ProbeNext]_probe_vars PROVE ProbeInv'
  OBVIOUS
<1>1. Process => ProbeInv'
  BY GatherSteps, ArmStep, MotionSteps, DisarmStep, HoldStep, WatchStep DEF Process
<1>2. ASSUME Interrupt \/ GrowsOld \/ UNCHANGED probe_vars PROVE ProbeInv'
  <2>1. UNCHANGED <<probe, verdict, latched, active_observed, requests, answers, adapter,
                    diagnostic, driving, drove>>
    BY <1>2 DEF Interrupt, GrowsOld, probe_vars, inputs, service, robot, progress
  <2> QED
    BY <2>1 DEF ProbeInv, ProbeShape, Observed, Requested, Watched
<1> QED
  BY <1>1, <1>2, AdapterStep DEF ProbeNext

LEMMA ProbeStart == ProbeInit => ProbeInv
<1> SUFFICES ASSUME ProbeInit PROVE ProbeInv
  OBVIOUS
<1>1. /\ DOMAIN answers = {"arm", "disarm"} /\ answers["disarm"] = "none"
      /\ requests = <<>> /\ diagnostic = NoReport /\ verdict = "none"
      /\ active_observed = FALSE
      /\ probe \in {"acquire", "over"}
  BY DEF ProbeInit, FirstStep
<1>2. /\ DOMAIN adapter = {"guard", "daemon_armed", "spent", "active"}
      /\ ~adapter.active
  <2>1. PICK spent \in BOOLEAN :
          adapter = [guard |-> "DISARMED", daemon_armed |-> FALSE, spent |-> spent,
                     active |-> FALSE]
    BY DEF ProbeInit
  <2> QED
    BY <2>1
<1> QED
  BY <1>1, <1>2 DEF ProbeInv, ProbeShape, Observed, Requested, Watched, BeforeDisarm, BeforeArm

\* For any number of samples: a first motion that passed was one, and is over.
THEOREM MotionPassEarned == ProbeSpec => []MotionPassIsEarned
<1>1. ProbeInv => MotionPassIsEarned
  BY DEF ProbeInv, Requested, Watched, MotionPassIsEarned
<1> QED
  BY <1>1, ProbeStart, ProbeStep, PTL DEF ProbeSpec

=============================================================================
