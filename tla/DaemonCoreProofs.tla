--------------------------- MODULE DaemonCoreProofs ---------------------------
(***************************************************************************)
(* Theorems about DaemonCore, for every profile and every set of packets.  *)
(***************************************************************************)
EXTENDS DaemonCore, TLAPS

-----------------------------------------------------------------------------
(* The latch invariant: the flags and the outstanding motion. *)

FlagsOK ==
  /\ armed \in BOOLEAN /\ faulted \in BOOLEAN /\ moving \in BOOLEAN
  /\ sport_action_active \in BOOLEAN /\ stop_unconfirmed \in BOOLEAN
  /\ may_move \in BOOLEAN

\* The safety invariants strengthen one another: a failed FaultStop stays
\* supervised because an unconfirmed stop is latched, and the latch covers every
\* motion because only a confirmed stop takes it away.
Latch ==
  /\ FlagsOK
  /\ MotionIsSupervised
  /\ UnconfirmedStopIsLatched
  /\ ArmedIsNotFaulted
  /\ ActionFlagIsOwned
  /\ ~AllowMotion => ~armed /\ ~faulted /\ ~may_move

LEMMA StopKeepsLatch ==
  ASSUME Latch, AllowMotion, NEW disarm \in BOOLEAN, NEW ok \in BOOLEAN,
         Stop(disarm, ok)
  PROVE  Latch'
  BY DEF Stop, Latch, FlagsOK, MotionIsSupervised, UnconfirmedStopIsLatched,
     ArmedIsNotFaulted, ActionFlagIsOwned

LEMMA FaultStopKeepsLatch ==
  ASSUME Latch, NEW dispatched \in BOOLEAN, NEW ok \in BOOLEAN, AllowMotion,
         armed, FaultStop(dispatched, ok)
  PROVE  Latch'
  BY DEF FaultStop, Latch, FlagsOK, MotionIsSupervised, UnconfirmedStopIsLatched,
     ArmedIsNotFaulted, ActionFlagIsOwned

LEMMA DispatchKeepsLatch ==
  ASSUME Latch, AllowMotion, armed, NEW p, NEW call, Dispatch(p, call)
  PROVE  Latch'
<1>1. CASE OverBudget(Started)
  BY <1>1, FaultStopKeepsLatch DEF Dispatch
<1>2. ASSUME ~OverBudget(Started), NEW ok \in BOOLEAN, FaultStop(TRUE, ok)
      PROVE  Latch'
  BY <1>2, FaultStopKeepsLatch
<1>3. ASSUME moving' = TRUE, may_move' = TRUE,
             sport_action_active' = (sport_action_active \/ call = "SportAction"),
             UNCHANGED <<armed, faulted, stop_unconfirmed>>
      PROVE  Latch'
  BY <1>3 DEF Latch, FlagsOK, MotionIsSupervised, UnconfirmedStopIsLatched,
     ArmedIsNotFaulted, ActionFlagIsOwned
<1> QED
  BY <1>1, <1>2, <1>3 DEF Dispatch

LEMMA UnchangedKeepsLatch ==
  ASSUME Latch, UNCHANGED <<flags, may_move>>
  PROVE  Latch'
  BY DEF flags, Latch, FlagsOK, MotionIsSupervised, UnconfirmedStopIsLatched,
     ArmedIsNotFaulted, ActionFlagIsOwned

LEMMA LatchInit == Init => Latch
  BY DEF Init, Latch, FlagsOK, MotionIsSupervised, UnconfirmedStopIsLatched,
     ArmedIsNotFaulted, ActionFlagIsOwned

LEMMA HandleKeepsLatch ==
  ASSUME Latch, NEW p \in Packets, Handle(p)
  PROVE  Latch'
<1> USE ConfigAssumption
<1>1. CASE Reject(p)
  BY <1>1, UnchangedKeepsLatch DEF Reject
<1>2. CASE HandleArm(p)
  <2>1. ASSUME NEW code, Refuse(p, code) PROVE Latch'
    BY <2>1, UnchangedKeepsLatch DEF Refuse
  <2>2. ASSUME AllowMotion, ~faulted, NEW ok \in BOOLEAN,
               armed' = ok, moving' = FALSE, faulted' = ~ok,
               UNCHANGED <<sport_action_active, stop_unconfirmed, may_move>>
        PROVE  Latch'
    <3>1. ~stop_unconfirmed
      BY <2>2 DEF Latch, UnconfirmedStopIsLatched
    <3> QED
      BY <2>2, <3>1 DEF Latch, FlagsOK, MotionIsSupervised,
         UnconfirmedStopIsLatched, ArmedIsNotFaulted, ActionFlagIsOwned
  <2>3. CASE ~AllowMotion
    BY <1>2, <2>1, <2>3 DEF HandleArm, Arm, ArmRefusal
  <2>4. CASE AllowMotion /\ (faulted \/ (commissioning_arm_spent /\ ~RepeatableArm))
    BY <1>2, <2>1, <2>4 DEF HandleArm, Arm, ArmRefusal
  <2>5. CASE AllowMotion /\ ~(faulted \/ (commissioning_arm_spent /\ ~RepeatableArm))
    <3>1. PICK ok \in {TRUE, ~PreserveClassicWalk} :
            /\ armed' = ok /\ moving' = FALSE /\ faulted' = ~ok
            /\ UNCHANGED <<sport_action_active, stop_unconfirmed, may_move>>
      BY <1>2, <2>5, Zenon DEF HandleArm, Arm, ArmRefusal
    <3>2. ok \in BOOLEAN
      OBVIOUS
    <3> QED
      BY <2>2, <2>5, <3>1, <3>2, Zenon
  <2> QED
    BY <2>3, <2>4, <2>5
<1>3. CASE HandleDisarm(p)
  <2>1. ASSUME ~AllowMotion, ClearLocally, faulted' = FALSE,
               UNCHANGED stop_unconfirmed
        PROVE  Latch'
    BY <2>1 DEF ClearLocally, Latch, FlagsOK, MotionIsSupervised,
       UnconfirmedStopIsLatched, ArmedIsNotFaulted, ActionFlagIsOwned
  <2>2. ASSUME NEW ok \in BOOLEAN, ClearForDisarm(ok), AllowMotion PROVE Latch'
    BY <2>2 DEF ClearForDisarm, Latch, FlagsOK, MotionIsSupervised,
       UnconfirmedStopIsLatched, ArmedIsNotFaulted, ActionFlagIsOwned
  <2> QED
    BY <1>3, <2>1, <2>2, UnchangedKeepsLatch DEF HandleDisarm
<1>4. CASE HandleMove(p)
  BY <1>4, UnchangedKeepsLatch, FaultStopKeepsLatch, StopKeepsLatch,
     DispatchKeepsLatch DEF HandleMove, Refuse
<1>5. CASE HandleStop(p)
  BY <1>5, UnchangedKeepsLatch, StopKeepsLatch DEF HandleStop, Refuse
<1>6. CASE HandlePing(p)
  BY <1>6, UnchangedKeepsLatch DEF HandlePing, Refuse
<1>7. CASE HandleRestoreClassicWalk(p)
  BY <1>7, UnchangedKeepsLatch DEF HandleRestoreClassicWalk, Refuse
<1>8. CASE HandleSportAction(p)
  BY <1>8, UnchangedKeepsLatch, FaultStopKeepsLatch, DispatchKeepsLatch
     DEF HandleSportAction, Refuse
<1> QED
  BY <1>1, <1>2, <1>3, <1>4, <1>5, <1>6, <1>7, <1>8 DEF Handle

LEMMA LatchNext == Latch /\ [Next]_vars => Latch'
<1> SUFFICES ASSUME Latch, [Next]_vars PROVE Latch'
  OBVIOUS
<1>1. ASSUME NEW p \in Packets, Handle(p) PROVE Latch'
  BY <1>1, HandleKeepsLatch
<1>2. CASE CheckWatchdog
  <2>1. ASSUME ~AllowMotion, ClearLocally, stop_unconfirmed' = FALSE,
               UNCHANGED faulted
        PROVE  Latch'
    BY <2>1 DEF ClearLocally, Latch, FlagsOK, MotionIsSupervised,
       UnconfirmedStopIsLatched, ArmedIsNotFaulted, ActionFlagIsOwned
  <2>2. armed => AllowMotion
    BY ConfigAssumption DEF Latch
  <2> QED
    BY <1>2, <2>1, <2>2, UnchangedKeepsLatch, FaultStopKeepsLatch,
       StopKeepsLatch, ConfigAssumption DEF CheckWatchdog
<1>3. CASE OnDisconnect
  <2>1. ASSUME ~AllowMotion, ClearLocally, stop_unconfirmed' = FALSE,
               UNCHANGED faulted
        PROVE  Latch'
    BY <2>1 DEF ClearLocally, Latch, FlagsOK, MotionIsSupervised,
       UnconfirmedStopIsLatched, ArmedIsNotFaulted, ActionFlagIsOwned
  <2>2. ASSUME NEW first \in BOOLEAN, NEW second \in BOOLEAN, AllowMotion,
               armed' = FALSE, moving' = FALSE, sport_action_active' = FALSE,
               faulted' = (faulted \/ ~first),
               stop_unconfirmed' = (~first /\ ~second),
               may_move' = (may_move /\ ~first /\ ~second)
        PROVE  Latch'
    BY <2>2 DEF Latch, FlagsOK, MotionIsSupervised, UnconfirmedStopIsLatched,
       ArmedIsNotFaulted, ActionFlagIsOwned
  <2> QED
    BY <1>3, <2>1, <2>2, UnchangedKeepsLatch, ConfigAssumption DEF OnDisconnect, ForgetSession
<1>4. CASE Tick
  BY <1>4, UnchangedKeepsLatch DEF Tick
<1>5. CASE SportStateChanges
  BY <1>5, UnchangedKeepsLatch DEF SportStateChanges
<1>6. CASE UNCHANGED vars
  BY <1>6, UnchangedKeepsLatch DEF vars
<1> QED
  BY <1>1, <1>2, <1>3, <1>4, <1>5, <1>6 DEF Next

-----------------------------------------------------------------------------
(* Types *)

AgesOK ==
  /\ commissioning_arm_spent \in BOOLEAN /\ state_fresh \in BOOLEAN
  /\ last_sequence \in Nat
  /\ packet_age \in Age(Watchdog + 1)
  /\ motion_age \in Age(MaxMotion)

Actor == CommandOp \cup {"none", "watchdog", "disconnect"}

StepType == [op: Actor, code: ReplyCode, calls: Seq(SdkCall)]

LastOK == last \in StepType

LEMMA AgesNext == AgesOK /\ [Next]_vars => AgesOK'
<1> SUFFICES ASSUME AgesOK, [Next]_vars PROVE AgesOK'
  OBVIOUS
<1> USE ConfigAssumption DEF AgesOK, Age, NoStamp
<1>1. ASSUME NEW p \in Packets, Handle(p) PROVE AgesOK'
  <2>1. p.sequence \in Nat
    BY PacketsAssumption DEF CommandPacket
  <2>2. CASE Reject(p)
    BY <2>2 DEF Reject, ages
  <2>3. CASE Accept(p)
    <3>1. /\ last_sequence' \in Nat /\ state_fresh' \in BOOLEAN
          /\ packet_age' \in Age(Watchdog + 1)
      BY <2>1, <2>3 DEF Accept
    <3>2. /\ commissioning_arm_spent' \in BOOLEAN
          /\ motion_age' \in Age(MaxMotion)
      <4>1. ASSUME NEW call, Dispatch(p, call)
            PROVE  motion_age' \in Age(MaxMotion)
        BY <4>1 DEF Dispatch, Started
      <4>2. CASE Reject(p)
        BY <4>2 DEF Reject, ages
      <4>3. CASE HandleArm(p)
        BY <4>3 DEF HandleArm, Arm, ArmRefusal, Refuse
      <4>4. CASE HandleDisarm(p)
        BY <4>4 DEF HandleDisarm
      <4>5. CASE HandleMove(p)
        BY <4>1, <4>5 DEF HandleMove, Refuse
      <4>6. CASE HandleStop(p) \/ HandlePing(p) \/ HandleRestoreClassicWalk(p)
        BY <4>6 DEF HandleStop, HandlePing, HandleRestoreClassicWalk, Refuse
      <4>7. CASE HandleSportAction(p)
        BY <4>1, <4>7 DEF HandleSportAction, Refuse
      <4> QED
        BY <1>1, <4>2, <4>3, <4>4, <4>5, <4>6, <4>7 DEF Handle
    <3> QED
      BY <3>1, <3>2
  <2> QED
    BY <1>1, <2>2, <2>3 DEF Handle, HandleArm, HandleDisarm, HandleMove,
       HandleStop, HandlePing, HandleRestoreClassicWalk, HandleSportAction
<1>2. CASE CheckWatchdog
  BY <1>2 DEF CheckWatchdog, ages
<1>3. CASE OnDisconnect
  BY <1>3 DEF OnDisconnect, ForgetSession
<1>4. CASE Tick
  BY <1>4 DEF Tick, Older
<1>5. CASE SportStateChanges
  BY <1>5 DEF SportStateChanges, ages
<1>6. CASE UNCHANGED vars
  BY <1>6 DEF vars, ages
<1> QED
  BY <1>1, <1>2, <1>3, <1>4, <1>5, <1>6 DEF Next

LEMMA StepIsTyped ==
  ASSUME NEW op \in Actor, NEW code \in ReplyCode
  PROVE  /\ Step(op, code, << >>) \in StepType
         /\ Step(op, code, <<"ClassicWalk">>) \in StepType
         /\ Step(op, code, <<"StopMove">>) \in StepType
         /\ Step(op, code, <<"StopMove", "StopMove">>) \in StepType
         /\ \A call \in SdkCall : /\ Step(op, code, <<call>>) \in StepType
                                 /\ Step(op, code, <<call, "StopMove">>) \in StepType
<1>1. /\ << >> \in Seq(SdkCall)
      /\ <<"ClassicWalk">> \in Seq(SdkCall)
      /\ <<"StopMove">> \in Seq(SdkCall)
      /\ <<"StopMove", "StopMove">> \in Seq(SdkCall)
      /\ \A call \in SdkCall : /\ <<call>> \in Seq(SdkCall)
                              /\ <<call, "StopMove">> \in Seq(SdkCall)
  BY DEF SdkCall
<1> QED
  BY <1>1 DEF Step, StepType

LEMMA LastNext == LastOK /\ [Next]_vars => LastOK'
<1> SUFFICES ASSUME LastOK, [Next]_vars PROVE LastOK'
  OBVIOUS
<1> USE StepIsTyped DEF LastOK
<1>1. {"Ok", "Malformed", "Expired", "Replay", "MotionDisabled", "NotArmed",
       "LimitExceeded", "SdkError", "FaultLatched"} \subseteq ReplyCode
  BY DEF ReplyCode
<1>2. {"ClassicWalk", "Move", "StopMove", "SportAction"} \subseteq SdkCall
  BY DEF SdkCall
<1>3. ASSUME NEW ok PROVE SdkErrorUnless(ok) \in ReplyCode
  BY DEF SdkErrorUnless, ReplyCode
<1>4. ASSUME NEW p \in Packets, Handle(p) PROVE LastOK'
  <2>1. p.op \in Actor
    BY PacketsAssumption DEF CommandPacket, Actor
  <2>2. ASSUME NEW code \in ReplyCode, Refuse(p, code) PROVE LastOK'
    BY <2>1, <2>2 DEF Refuse
  <2>3. ASSUME NEW call \in SdkCall, Dispatch(p, call) PROVE LastOK'
    BY <1>1, <1>2, <2>1, <2>3 DEF Dispatch
  <2>4. CASE Reject(p)
    <3>1. ValidateCommand(p) \in ReplyCode
      BY DEF ValidateCommand, ReplyCode
    <3> QED
      BY <1>1, <2>1, <2>4, <3>1 DEF Reject
  <2>5. CASE HandleArm(p)
    <3>1. "Arm" \in Actor
      BY DEF Actor, CommandOp
    <3> QED
      BY <1>1, <1>2, <1>3, <2>2, <2>5, <3>1 DEF HandleArm, Arm, ArmRefusal
  <2>6. CASE HandleDisarm(p)
    <3>1. "Disarm" \in Actor
      BY DEF Actor, CommandOp
    <3> QED
      BY <1>1, <1>2, <1>3, <2>6, <3>1 DEF HandleDisarm
  <2>7. CASE HandleMove(p)
    BY <1>1, <1>2, <1>3, <2>1, <2>2, <2>3, <2>7 DEF HandleMove
  <2>8. CASE HandleStop(p)
    <3>1. "Stop" \in Actor
      BY DEF Actor, CommandOp
    <3> QED
      BY <1>1, <1>2, <1>3, <2>2, <2>8, <3>1 DEF HandleStop
  <2>9. CASE HandlePing(p)
    BY <1>1, <2>2, <2>9 DEF HandlePing
  <2>10. CASE HandleRestoreClassicWalk(p)
    BY <1>1, <1>2, <1>3, <2>1, <2>2, <2>10 DEF HandleRestoreClassicWalk
  <2>11. CASE HandleSportAction(p)
    BY <1>1, <1>2, <2>1, <2>2, <2>3, <2>11 DEF HandleSportAction
  <2> QED
    BY <1>4, <2>4, <2>5, <2>6, <2>7, <2>8, <2>9, <2>10, <2>11 DEF Handle
<1>5. CASE CheckWatchdog
  BY <1>1, <1>2, <1>3, <1>5 DEF CheckWatchdog, Actor
<1>6. CASE OnDisconnect
  BY <1>1, <1>2, <1>3, <1>6 DEF OnDisconnect, ForgetSession, Actor
<1>7. CASE Tick \/ SportStateChanges
  BY <1>1, <1>7 DEF Tick, SportStateChanges, Quiet, Actor
<1>8. CASE UNCHANGED vars
  BY <1>8 DEF vars
<1> QED
  BY <1>4, <1>5, <1>6, <1>7, <1>8 DEF Next

-----------------------------------------------------------------------------
(* Acknowledged stops, and the daemon without --allow-motion *)

LEMMA StepFields ==
  ASSUME NEW op, NEW code, NEW calls
  PROVE  /\ Step(op, code, calls).op = op
         /\ Step(op, code, calls).code = code
         /\ Step(op, code, calls).calls = calls
  BY DEF Step

LEMMA AcknowledgedNext ==
  Latch /\ AcknowledgedStopIsStopped /\ [Next]_vars => AcknowledgedStopIsStopped'
<1> SUFFICES ASSUME Latch, AcknowledgedStopIsStopped, [Next]_vars
             PROVE  AcknowledgedStopIsStopped'
  OBVIOUS
<1> USE StepFields, ConfigAssumption DEF AcknowledgedStopIsStopped
<1>1. ASSUME NEW op, NEW code, NEW calls, last' = Step(op, code, calls),
             code # "Ok" \/ ~may_move' \/ (op # "Disarm" /\ calls # <<"StopMove">>)
      PROVE  AcknowledgedStopIsStopped'
  BY <1>1
<1>2. ASSUME NEW op, NEW ok \in BOOLEAN, NEW m \in BOOLEAN,
             may_move' = (m /\ ~ok),
             last' = Step(op, SdkErrorUnless(ok), <<"StopMove">>)
      PROVE  AcknowledgedStopIsStopped'
  BY <1>1, <1>2 DEF SdkErrorUnless
<1> may_move \in BOOLEAN
  BY DEF Latch, FlagsOK
<1>3. << >> # <<"StopMove">> /\ <<"ClassicWalk">> # <<"StopMove">>
      /\ <<"Move">> # <<"StopMove">> /\ <<"SportAction">> # <<"StopMove">>
  OBVIOUS
<1>4. ASSUME NEW p \in Packets, Handle(p) PROVE AcknowledgedStopIsStopped'
  <2>1. ASSUME NEW code, Refuse(p, code), p.op # "Disarm"
        PROVE  AcknowledgedStopIsStopped'
    BY <1>1, <1>3, <2>1 DEF Refuse
  <2>2. ASSUME NEW call \in {"Move", "SportAction"}, Dispatch(p, call), p.op = call
        PROVE  AcknowledgedStopIsStopped'
    <3>1. CASE last' = Step(p.op, "LimitExceeded", <<"StopMove">>)
      BY <1>1, <3>1
    <3>2. CASE last' = Step(p.op, "Ok", <<call>>)
      <4>1. p.op # "Disarm" /\ <<call>> # <<"StopMove">>
        BY <1>3, <2>2
      <4> QED
        BY <1>1, <3>2, <4>1
    <3>3. CASE last' = Step(p.op, "SdkError", <<call, "StopMove">>)
      BY <1>1, <3>3
    <3> QED
      BY <2>2, <3>1, <3>2, <3>3 DEF Dispatch
  <2>3. CASE Reject(p)
    <3>1. ValidateCommand(p) # "Ok" \/ "Replay" # "Ok"
      OBVIOUS
    <3> QED
      BY <1>1, <2>3, <3>1 DEF Reject
  <2>4. CASE HandleArm(p)
    <3>1. CASE ~AllowMotion
      BY <2>1, <2>4, <3>1 DEF HandleArm, Arm, ArmRefusal
    <3>2. CASE AllowMotion /\ (faulted \/ (commissioning_arm_spent /\ ~RepeatableArm))
      BY <2>1, <2>4, <3>2 DEF HandleArm, Arm, ArmRefusal
    <3>3. CASE AllowMotion /\ ~(faulted \/ (commissioning_arm_spent /\ ~RepeatableArm))
      <4>1. PICK code : last' = Step("Arm", code, IF PreserveClassicWalk
                                                  THEN <<"ClassicWalk">> ELSE << >>)
        BY <2>4, <3>3 DEF HandleArm, Arm, ArmRefusal
      <4>2. (IF PreserveClassicWalk THEN <<"ClassicWalk">> ELSE << >>) # <<"StopMove">>
        BY <1>3
      <4> QED
        BY <1>1, <4>1, <4>2
    <3> QED
      BY <3>1, <3>2, <3>3
  <2>5. CASE HandleDisarm(p)
    <3>1. ~AllowMotion \/ NothingToStop => ~may_move
      BY DEF Latch, FlagsOK, MotionIsSupervised, NothingToStop
    <3>2. CASE ~AllowMotion
      BY <1>1, <2>5, <3>1, <3>2 DEF HandleDisarm, ClearLocally
    <3>3. CASE AllowMotion /\ NothingToStop
      BY <1>1, <2>5, <3>1, <3>3 DEF HandleDisarm
    <3>4. CASE AllowMotion /\ ~NothingToStop
      BY <1>2, <2>5, <3>4 DEF HandleDisarm, ClearForDisarm
    <3> QED
      BY <3>2, <3>3, <3>4
  <2>6. CASE HandleMove(p)
    <3>1. ASSUME NEW ok \in BOOLEAN, NEW code \in {"LimitExceeded", "FaultLatched"},
                 last' = Step(p.op, code, <<"StopMove">>)
          PROVE  AcknowledgedStopIsStopped'
      BY <1>1, <3>1
    <3>2. ASSUME NEW ok \in BOOLEAN, Stop(FALSE, ok),
                 last' = Step(p.op, SdkErrorUnless(ok), <<"StopMove">>)
          PROVE  AcknowledgedStopIsStopped'
      BY <1>2, <3>2 DEF Stop
    <3>3. p.op = "Move" /\ p.op # "Disarm"
      BY <2>6 DEF HandleMove
    <3> QED
      BY <2>1, <2>2, <2>6, <3>1, <3>2, <3>3 DEF HandleMove
  <2>7. CASE HandleStop(p)
    <3>1. ASSUME NEW ok \in BOOLEAN, Stop(FALSE, ok),
                 last' = Step("Stop", SdkErrorUnless(ok), <<"StopMove">>)
          PROVE  AcknowledgedStopIsStopped'
      BY <1>2, <3>1 DEF Stop
    <3> QED
      BY <2>1, <2>7, <3>1 DEF HandleStop
  <2>8. CASE HandlePing(p)
    BY <2>1, <2>8 DEF HandlePing
  <2>9. CASE HandleRestoreClassicWalk(p)
    <3>1. ASSUME NEW ok, last' = Step(p.op, SdkErrorUnless(ok), <<"ClassicWalk">>)
          PROVE  AcknowledgedStopIsStopped'
      BY <1>1, <1>3, <2>9, <3>1 DEF HandleRestoreClassicWalk
    <3> QED
      BY <2>1, <2>9, <3>1 DEF HandleRestoreClassicWalk
  <2>10. CASE HandleSportAction(p)
    <3>1. p.op = "SportAction" /\ p.op # "Disarm"
      BY <2>10 DEF HandleSportAction
    <3>2. ASSUME last' = Step(p.op, "FaultLatched", <<"StopMove">>)
          PROVE  AcknowledgedStopIsStopped'
      BY <1>1, <3>2
    <3> QED
      BY <2>1, <2>2, <2>10, <3>1, <3>2 DEF HandleSportAction
  <2> QED
    BY <1>4, <2>3, <2>4, <2>5, <2>6, <2>7, <2>8, <2>9, <2>10 DEF Handle
<1>5. CASE CheckWatchdog
  <2>1. ASSUME NEW ok \in BOOLEAN, Stop(TRUE, ok),
               last' = Step("watchdog", SdkErrorUnless(ok), <<"StopMove">>)
        PROVE  AcknowledgedStopIsStopped'
    BY <1>2, <2>1 DEF Stop
  <2>2. ASSUME NEW ok \in BOOLEAN, armed, FaultStop(FALSE, ok),
               last' = Step("watchdog", SdkErrorUnless(ok), <<"StopMove">>)
        PROVE  AcknowledgedStopIsStopped'
    <3>1. AllowMotion
      BY <2>2 DEF Latch
    <3> QED
      BY <1>2, <2>2, <3>1 DEF FaultStop
  <2> QED
    BY <1>5, <2>1, <2>2 DEF CheckWatchdog, ClearLocally
<1>6. CASE OnDisconnect
  <2>1. ~AllowMotion \/ NothingToStop => ~may_move
    BY DEF Latch, FlagsOK, MotionIsSupervised, NothingToStop
  <2> QED
    <3>1. CASE ~AllowMotion \/ NothingToStop
      BY <1>1, <1>6, <2>1, <3>1 DEF OnDisconnect, ForgetSession, ClearLocally
    <3>2. CASE ~(~AllowMotion \/ NothingToStop)
      <4>1. PICK first \in BOOLEAN, second \in BOOLEAN :
              /\ may_move' = (may_move /\ ~first /\ ~second)
              /\ last' = Step("disconnect", SdkErrorUnless(first \/ second),
                              IF first THEN <<"StopMove">>
                              ELSE <<"StopMove", "StopMove">>)
        BY <1>6, <3>2 DEF OnDisconnect, ForgetSession
      <4>2. CASE first = TRUE
        BY <1>1, <4>1, <4>2
      <4>3. CASE first = FALSE
        <5>1. <<"StopMove", "StopMove">> # <<"StopMove">>
          OBVIOUS
        <5> QED
          BY <1>1, <4>1, <4>3, <5>1
      <4> QED
        BY <4>2, <4>3
    <3> QED
      BY <3>1, <3>2
<1>7. CASE Tick \/ SportStateChanges
  BY <1>1, <1>3, <1>7 DEF Tick, SportStateChanges, Quiet
<1>8. CASE UNCHANGED vars
  BY <1>8 DEF vars
<1> QED
  BY <1>4, <1>5, <1>6, <1>7, <1>8 DEF Next

-----------------------------------------------------------------------------
(* Theorems *)

\* Every reachable state is well typed: the flags are Booleans, the ages stay in
\* their saturated ranges, and every step reports a known operation and code.
THEOREM TypeCorrect == Spec => []TypeOK
<1>1. Init => Latch /\ AgesOK /\ LastOK
  <2>1. Init => AgesOK
    <3> SUFFICES ASSUME Init PROVE AgesOK
      OBVIOUS
    <3>1. commissioning_arm_spent \in BOOLEAN /\ state_fresh \in BOOLEAN
      BY DEF Init
    <3>2. last_sequence = 0 /\ packet_age = NoStamp /\ motion_age = NoStamp
      BY DEF Init
    <3> QED
      BY <3>1, <3>2 DEF AgesOK, Age
  <2>2. Init => LastOK
    BY StepIsTyped DEF Init, LastOK, Quiet, Actor, ReplyCode
  <2> QED
    BY <2>1, <2>2, LatchInit
<1>2. Latch /\ AgesOK /\ LastOK => TypeOK
  BY DEF Latch, FlagsOK, AgesOK, LastOK, StepType, Actor, TypeOK
<1> QED
  BY <1>1, <1>2, LatchNext, AgesNext, LastNext, PTL DEF Spec

\* Whatever commands, failed SDK calls, watchdog checks and disconnects happen,
\* a robot that may be moving is armed or behind the fault latch.
THEOREM MotionSupervised == Spec => []MotionIsSupervised
<1>1. Latch => MotionIsSupervised
  BY DEF Latch
<1> QED
  BY <1>1, LatchInit, LatchNext, PTL DEF Spec

\* The other three latch invariants of the core, for every profile: after a
\* StopMove that was not confirmed the daemon stays disarmed and latched, ...
THEOREM LatchHolds == Spec => []UnconfirmedStopIsLatched
<1>1. Latch => UnconfirmedStopIsLatched
  BY DEF Latch
<1> QED
  BY <1>1, LatchInit, LatchNext, PTL DEF Spec

\* ... no command arms it over a latched fault, ...
THEOREM FaultExcludesArm == Spec => []ArmedIsNotFaulted
<1>1. Latch => ArmedIsNotFaulted
  BY DEF Latch
<1> QED
  BY <1>1, LatchInit, LatchNext, PTL DEF Spec

\* ... and a sport action's flag never outlives the arm it was started under.
THEOREM ActionIsOwned == Spec => []ActionFlagIsOwned
<1>1. Latch => ActionFlagIsOwned
  BY DEF Latch
<1> QED
  BY <1>1, LatchInit, LatchNext, PTL DEF Spec

\* A kOk reply to a stop or a disarm means that the robot's stop is confirmed.
THEOREM AcknowledgedStop == Spec => []AcknowledgedStopIsStopped
<1>1. Init => AcknowledgedStopIsStopped
  BY DEF Init, AcknowledgedStopIsStopped
<1> QED
  BY <1>1, LatchInit, LatchNext, AcknowledgedNext, PTL DEF Spec

\* The latch is released only by a disarm that leaves nothing outstanding.
THEOREM LatchReleaseClean == Spec => LatchReleaseIsClean
<1>1. ASSUME Latch, [Next]_vars, faulted, ~faulted'
      PROVE  ~may_move' /\ ~stop_unconfirmed' /\ ~armed'
  <2> USE ConfigAssumption
  <2>1. ~armed /\ AllowMotion
    BY <1>1 DEF Latch, ArmedIsNotFaulted
  <2>2. ASSUME NEW p \in Packets, Handle(p) PROVE HandleDisarm(p)
    <3>1. ~Reject(p) /\ ~HandlePing(p) /\ ~HandleRestoreClassicWalk(p)
      BY <1>1 DEF Reject, HandlePing, HandleRestoreClassicWalk, Refuse, flags,
         NothingToStop
    <3>2. ~HandleArm(p)
      BY <1>1 DEF HandleArm, Arm, ArmRefusal, Refuse, flags
    <3>3. ~HandleMove(p) /\ ~HandleStop(p) /\ ~HandleSportAction(p)
      BY <1>1, <2>1 DEF HandleMove, HandleStop, HandleSportAction, Refuse, flags
    <3> QED
      BY <2>2, <3>1, <3>2, <3>3 DEF Handle
  <2>3. ASSUME NEW p \in Packets, HandleDisarm(p)
        PROVE  ~may_move' /\ ~stop_unconfirmed' /\ ~armed'
    <3>1. PICK ok \in BOOLEAN : ClearForDisarm(ok)
      BY <1>1, <2>1, <2>3 DEF HandleDisarm, NothingToStop
    <3> QED
      BY <1>1, <3>1 DEF ClearForDisarm
  <2>4. ~CheckWatchdog
    BY <1>1, <2>1 DEF CheckWatchdog, Stop, flags
  <2>5. ~OnDisconnect
    BY <1>1, <2>1 DEF OnDisconnect, ForgetSession, flags
  <2>6. ~Tick /\ ~SportStateChanges /\ ~UNCHANGED vars
    BY <1>1 DEF Tick, SportStateChanges, vars, flags
  <2> QED
    BY <1>1, <2>2, <2>3, <2>4, <2>5, <2>6 DEF Next
<1>2. Latch /\ [Next]_vars
        => [faulted /\ ~faulted' => ~may_move' /\ ~stop_unconfirmed' /\ ~armed']_vars
  BY <1>1
<1> QED
  BY <1>2, LatchInit, LatchNext, PTL DEF Spec, LatchReleaseIsClean

\* A one-shot daemon that lost its arm stays disarmed for ever.
THEOREM OneArm == Spec => OneArmPerProcess
<1>1. ASSUME Latch, [Next]_vars, ~RepeatableArm, commissioning_arm_spent, ~armed
      PROVE  ~armed'
  <2>1. ASSUME NEW p \in Packets, Handle(p) PROVE ~armed'
    <3>1. CASE Reject(p) \/ HandlePing(p) \/ HandleRestoreClassicWalk(p)
      BY <1>1, <3>1 DEF Reject, HandlePing, HandleRestoreClassicWalk, Refuse, flags
    <3>2. CASE HandleArm(p)
      BY <1>1, <3>2 DEF HandleArm, Arm, ArmRefusal, Refuse, flags
    <3>3. CASE HandleDisarm(p)
      BY <1>1, <3>3 DEF HandleDisarm, ClearLocally, ClearForDisarm, flags
    <3>4. CASE HandleMove(p) \/ HandleStop(p) \/ HandleSportAction(p)
      BY <1>1, <3>4 DEF HandleMove, HandleStop, HandleSportAction, Refuse, flags
    <3> QED
      BY <2>1, <3>1, <3>2, <3>3, <3>4 DEF Handle
  <2>2. CASE CheckWatchdog
    BY <1>1, <2>2 DEF CheckWatchdog, ClearLocally, Stop, flags
  <2>3. CASE OnDisconnect
    BY <1>1, <2>3 DEF OnDisconnect, ForgetSession, ClearLocally, flags
  <2>4. CASE Tick \/ SportStateChanges \/ UNCHANGED vars
    BY <1>1, <2>4 DEF Tick, SportStateChanges, vars, flags
  <2> QED
    BY <1>1, <2>1, <2>2, <2>3, <2>4 DEF Next
<1>2. Latch /\ [Next]_vars
        => [~RepeatableArm /\ commissioning_arm_spent /\ ~armed => ~armed']_vars
  BY <1>1
<1> QED
  BY <1>2, LatchInit, LatchNext, PTL DEF Spec, OneArmPerProcess

=============================================================================
