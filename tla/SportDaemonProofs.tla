-------------------------- MODULE SportDaemonProofs --------------------------
(***************************************************************************)
(* Theorems about the daemon process: the event loop takes only steps of   *)
(* the core, so that what is proved of the core holds of the process, and  *)
(* neither an arm nor a motion is inherited from one session by the next.  *)
(***************************************************************************)
EXTENDS SportDaemon, DaemonCoreProofs

-----------------------------------------------------------------------------
(* The loop implements the core. *)

SocketOK ==
  /\ peer \in Session \cup {Nothing}
  /\ backlog \in Seq(Session)
  /\ inbox \in [Session -> Packets \cup {Nothing}]

LEMMA SocketInit == DaemonInit => SocketOK
  BY DEF DaemonInit, SocketOK

LEMMA DropKeepsInbox ==
  ASSUME SocketOK, NEW s, Drop(s)
  PROVE  inbox' \in [Session -> Packets \cup {Nothing}]
  BY DEF SocketOK, Drop

LEMMA SocketNext == SocketOK /\ [DaemonNext]_daemon_vars => SocketOK'
<1> SUFFICES ASSUME SocketOK, [DaemonNext]_daemon_vars PROVE SocketOK'
  OBVIOUS
<1>1. ASSUME NEW s \in Session, Controller(s) PROVE SocketOK'
  <2>1. CASE Connect(s)
    BY <2>1 DEF Connect, SocketOK
  <2>2. CASE Send(s)
    BY <2>2 DEF Send, SocketOK
  <2>3. CASE ReadReply(s)
    BY <2>3 DEF ReadReply, SocketOK
  <2>4. CASE Close(s)
    BY <2>4 DEF Close, SocketOK
  <2> QED
    BY <1>1, <2>1, <2>2, <2>3, <2>4 DEF Controller
<1>2. CASE AcceptPeer
  <2>1. CASE ready.server /\ backlog # << >>
    <3>1. Head(backlog) \in Session /\ Tail(backlog) \in Seq(Session)
      BY <2>1 DEF SocketOK
    <3> QED
      BY <1>2, <2>1, <3>1, DropKeepsInbox DEF AcceptPeer, SocketOK, session
  <2> QED
    BY <1>2, <2>1 DEF AcceptPeer, SocketOK, socket, session
<1>3. CASE Hangup
  BY <1>3, DropKeepsInbox DEF Hangup, SocketOK, session
<1>4. CASE Receive
  BY <1>4 DEF Receive, SocketOK
<1>5. CASE Exit
  BY <1>5 DEF Exit, SocketOK
<1>6. CASE TimePasses
  BY <1>6, AgeingAssumption DEF TimePasses, SocketOK
<1>7. CASE Poll \/ SendReply \/ RunWatchdog \/ Cleanup \/ RetryStop
           \/ RequestShutdown \/ SportStateStream
           \/ UNCHANGED daemon_vars
  BY <1>7 DEF Poll, SendReply, RunWatchdog, Cleanup, RetryStop,
     RequestShutdown, SportStateStream, SocketOK, socket, session, daemon_vars
<1> QED
  BY <1>1, <1>2, <1>3, <1>4, <1>5, <1>6, <1>7 DEF DaemonNext, Iterate

LEMMA LoopStep == SocketOK /\ [DaemonNext]_daemon_vars => [Next]_vars
<1> SUFFICES ASSUME SocketOK, [DaemonNext]_daemon_vars PROVE [Next]_vars
  OBVIOUS
<1>1. CASE Receive
  <2>1. CASE peer # Nothing /\ ready.in /\ inbox[peer] # Nothing
    <3>1. inbox[peer] \in Packets
      BY <2>1 DEF SocketOK
    <3> QED
      BY <1>1, <2>1, <3>1 DEF Receive, Next
  <2> QED
    BY <1>1, <2>1 DEF Receive
<1>2. CASE Hangup
  BY <1>2 DEF Hangup, Next
<1>3. CASE RunWatchdog \/ Cleanup \/ RetryStop
  BY <1>3 DEF RunWatchdog, Cleanup, RetryStop, Next
<1>4. CASE TimePasses \/ SportStateStream
  BY <1>4 DEF TimePasses, SportStateStream, Next
<1>5. ASSUME NEW s \in Session, Controller(s) PROVE UNCHANGED vars
  BY <1>5 DEF Controller, Connect, Send, ReadReply, Close
<1>6. CASE Poll \/ AcceptPeer \/ SendReply \/ Exit \/ RequestShutdown
           \/ UNCHANGED daemon_vars
  BY <1>6 DEF Poll, AcceptPeer, SendReply, Exit, RequestShutdown, daemon_vars
<1> QED
  BY <1>1, <1>2, <1>3, <1>4, <1>5, <1>6 DEF DaemonNext, Iterate

\* The process implements the core: whatever holds of every behaviour of the
\* core holds of the event loop, with any number of controllers.
THEOREM DaemonImplementsCore == DaemonSpec => Spec
<1>1. DaemonInit => Init /\ SocketOK
  BY SocketInit DEF DaemonInit
<1> QED
  BY <1>1, SocketNext, LoopStep, PTL DEF DaemonSpec, Spec

\* What the core keeps the process keeps: a robot that may be moving is armed or
\* latched, an unconfirmed stop stays latched over sessions, hang-ups and the
\* shutdown, and an acknowledged stop is one that the SDK has confirmed.
THEOREM ProcessSupervisesMotion ==
  DaemonSpec => /\ []MotionIsSupervised
                /\ []UnconfirmedStopIsLatched
                /\ []AcknowledgedStopIsStopped
  BY DaemonImplementsCore, MotionSupervised, LatchHolds, AcknowledgedStop, PTL

-----------------------------------------------------------------------------
(* What the steps of the core do to the arm and to an outstanding motion. *)

LEMMA DisconnectSettles ==
  ASSUME Latch, OnDisconnect
  PROVE  ~armed' /\ (may_move' => stop_unconfirmed')
<1>1. CASE ~AllowMotion
  BY <1>1 DEF OnDisconnect, ClearLocally, Latch
<1>2. CASE AllowMotion /\ NothingToStop
  BY <1>2 DEF OnDisconnect, NothingToStop, Latch, MotionIsSupervised, flags
<1>3. CASE AllowMotion /\ ~NothingToStop
  <2>1. PICK first \in BOOLEAN, second \in BOOLEAN :
          /\ armed' = FALSE
          /\ stop_unconfirmed' = (~first /\ ~second)
          /\ may_move' = (may_move /\ ~first /\ ~second)
    BY <1>3 DEF OnDisconnect
  <2> QED
    BY <2>1
<1> QED
  BY <1>1, <1>2, <1>3

\* A step that brings no motion of its own leaves the robot still, or with an
\* unconfirmed stop, or as it was.
Contained ==
  may_move' => \/ stop_unconfirmed'
               \/ may_move /\ UNCHANGED stop_unconfirmed

LEMMA StopContains ==
  ASSUME NEW disarm, NEW ok \in BOOLEAN, Stop(disarm, ok)
  PROVE  Contained
  BY DEF Stop, Contained

LEMMA FaultStopContains ==
  ASSUME NEW dispatched \in BOOLEAN, NEW ok \in BOOLEAN, Latch, armed,
         FaultStop(dispatched, ok)
  PROVE  Contained /\ ~armed'
  BY ConfigAssumption DEF FaultStop, Contained, Latch

LEMMA WatchdogContains ==
  ASSUME Latch, CheckWatchdog
  PROVE  (armed' => armed) /\ Contained
<1> USE DEF Latch, FlagsOK
<1>1. CASE stop_unconfirmed /\ AllowMotion
  <2>1. PICK ok \in BOOLEAN : Stop(TRUE, ok)
    BY <1>1 DEF CheckWatchdog
  <2> QED
    BY <2>1, StopContains DEF Stop
<1>2. CASE stop_unconfirmed /\ ~AllowMotion
  BY <1>2 DEF CheckWatchdog, ClearLocally, Contained
<1>3. CASE ~stop_unconfirmed /\ armed /\ WatchdogExpired
  <2>1. PICK ok \in BOOLEAN : FaultStop(FALSE, ok)
    BY <1>3 DEF CheckWatchdog
  <2> QED
    BY <1>3, <2>1, FaultStopContains
<1>4. CASE ~stop_unconfirmed /\ ~(armed /\ WatchdogExpired)
  BY <1>4 DEF CheckWatchdog, Contained, flags
<1> QED
  BY <1>1, <1>2, <1>3, <1>4, ConfigAssumption

LEMMA DispatchContains ==
  ASSUME Latch, armed, NEW p, NEW call \in {"Move", "SportAction"},
         Dispatch(p, call)
  PROVE  Contained \/ MotionCall
<1>1. CASE OverBudget(Started)
  BY <1>1, FaultStopContains DEF Dispatch
<1>2. ASSUME ~OverBudget(Started), NEW ok \in BOOLEAN, FaultStop(TRUE, ok)
      PROVE  Contained
  BY <1>2, FaultStopContains
<1>3. ASSUME last' = Step(p.op, "Ok", <<call>>) PROVE MotionCall
  BY <1>3 DEF Step, MotionCall
<1> QED
  BY <1>1, <1>2, <1>3 DEF Dispatch

LEMMA RefuseContains ==
  ASSUME NEW p, NEW code, Refuse(p, code)
  PROVE  Contained
  BY DEF Refuse, Contained, flags

LEMMA HandleContains ==
  ASSUME Latch, NEW p \in Packets, Handle(p)
  PROVE  Contained \/ MotionCall
<1> USE DEF Latch, FlagsOK
<1>1. CASE Reject(p)
  BY <1>1 DEF Reject, Contained, flags
<1>2. CASE HandleArm(p)
  BY <1>2, RefuseContains DEF HandleArm, Arm, Contained
<1>3. CASE HandleDisarm(p)
  BY <1>3 DEF HandleDisarm, ClearLocally, ClearForDisarm, Contained, flags
<1>4. CASE HandleMove(p)
  BY <1>4, RefuseContains, FaultStopContains, StopContains, DispatchContains
     DEF HandleMove
<1>5. CASE HandleStop(p)
  BY <1>5, RefuseContains, StopContains DEF HandleStop
<1>6. CASE HandlePing(p)
  BY <1>6, RefuseContains DEF HandlePing
<1>7. CASE HandleRestoreClassicWalk(p)
  BY <1>7, RefuseContains DEF HandleRestoreClassicWalk, Contained, flags
<1>8. CASE HandleSportAction(p)
  BY <1>8, RefuseContains, FaultStopContains, DispatchContains
     DEF HandleSportAction
<1> QED
  BY <1>1, <1>2, <1>3, <1>4, <1>5, <1>6, <1>7, <1>8 DEF Handle

-----------------------------------------------------------------------------
(* The session that armed, and the session that moved. *)

\* The clean-up has already disarmed when it gives the session up.
Owned ==
  /\ Latch
  /\ SocketOK
  /\ ArmBelongsToPeer
  /\ MotionBelongsToPeer
  /\ pc \in {"drain", "exited"} => ~armed /\ (may_move => stop_unconfirmed)

\* A session leaves, or another one comes, only with the daemon disarmed and
\* its motion settled.
LEMMA SettledIsOwned ==
  ASSUME ~armed', may_move' => stop_unconfirmed'
  PROVE  /\ (ArmBelongsToPeer /\ MotionBelongsToPeer)'
         /\ (pc \in {"drain", "exited"} => ~armed /\ (may_move => stop_unconfirmed))'
  BY DEF ArmBelongsToPeer, MotionBelongsToPeer

LEMMA CoreUntouched ==
  ASSUME Owned, UNCHANGED <<vars, ghosts, peer>>,
         pc' \in {"drain", "exited"} => pc \in {"drain", "exited"}
  PROVE  /\ (ArmBelongsToPeer /\ MotionBelongsToPeer)'
         /\ (pc \in {"drain", "exited"} => ~armed /\ (may_move => stop_unconfirmed))'
  BY DEF Owned, ArmBelongsToPeer, MotionBelongsToPeer, vars, flags, ghosts

LEMMA OwnedInit == DaemonInit => Owned
<1> SUFFICES ASSUME DaemonInit PROVE Owned
  OBVIOUS
<1>1. Latch /\ SocketOK
  BY LatchInit, SocketInit DEF DaemonInit
<1> QED
  BY <1>1 DEF DaemonInit, Init, Owned, ArmBelongsToPeer, MotionBelongsToPeer

LEMMA ReceiveKeepsOwned ==
  ASSUME Owned, Receive, peer # Nothing, ready.in, inbox[peer] # Nothing
  PROVE  /\ (ArmBelongsToPeer /\ MotionBelongsToPeer)'
         /\ (pc \in {"drain", "exited"} => ~armed /\ (may_move => stop_unconfirmed))'
<1>1. inbox[peer] \in Packets
  BY DEF Owned, SocketOK
<1>2. Contained \/ MotionCall
  BY <1>1, HandleContains DEF Receive, Owned
<1>3. ArmBelongsToPeer'
  BY DEF Receive, Attribute, Owned, ArmBelongsToPeer
<1>4. MotionBelongsToPeer'
  BY <1>2 DEF Receive, Attribute, Owned, MotionBelongsToPeer, Contained
<1> QED
  BY <1>3, <1>4 DEF Receive, LoopGoto

LEMMA WatchdogKeepsOwned ==
  ASSUME Owned, CheckWatchdog, Release, UNCHANGED peer,
         pc' \in {"drain", "exited"} => pc \in {"drain", "exited"}
  PROVE  /\ (ArmBelongsToPeer /\ MotionBelongsToPeer)'
         /\ (pc \in {"drain", "exited"} => ~armed /\ (may_move => stop_unconfirmed))'
<1>1. (armed' => armed) /\ Contained
  BY WatchdogContains DEF Owned
<1> QED
  BY <1>1 DEF Owned, Release, ArmBelongsToPeer, MotionBelongsToPeer, Contained

LEMMA OwnedNext == Owned /\ [DaemonNext]_daemon_vars => Owned'
<1> SUFFICES ASSUME Owned, [DaemonNext]_daemon_vars PROVE Owned'
  OBVIOUS
<1>1. Latch' /\ SocketOK'
  BY LoopStep, LatchNext, SocketNext DEF Owned
<1> SUFFICES
      /\ (ArmBelongsToPeer /\ MotionBelongsToPeer)'
      /\ (pc \in {"drain", "exited"} => ~armed /\ (may_move => stop_unconfirmed))'
  BY <1>1 DEF Owned
<1>2. ASSUME NEW s \in Session, Controller(s)
      PROVE  UNCHANGED <<vars, ghosts, peer, pc>>
  BY <1>2 DEF Controller, Connect, Send, ReadReply, Close, loop
<1>3. CASE AcceptPeer
  <2>1. CASE peer # Nothing
    BY <1>3, <2>1, CoreUntouched DEF AcceptPeer, LoopGoto, socket
  <2>2. CASE peer = Nothing
    <3>1. ~armed' /\ (may_move' => stop_unconfirmed')
      BY <1>3, <2>2 DEF AcceptPeer, Owned, ArmBelongsToPeer,
         MotionBelongsToPeer, vars, flags
    <3> QED
      BY <3>1, SettledIsOwned
  <2> QED
    BY <2>1, <2>2
<1>4. CASE Hangup
  BY <1>4, DisconnectSettles, SettledIsOwned, CoreUntouched
     DEF Hangup, LoopGoto, Owned
<1>5. CASE Receive
  BY <1>5, ReceiveKeepsOwned, CoreUntouched DEF Receive, LoopGoto
<1>6. CASE RunWatchdog
  BY <1>6, WatchdogKeepsOwned DEF RunWatchdog, LoopGoto, socket
<1>7. CASE RetryStop
  BY <1>7, WatchdogKeepsOwned DEF RetryStop, socket
<1>8. CASE Cleanup
  BY <1>8, DisconnectSettles, SettledIsOwned DEF Cleanup, Owned
<1>9. CASE Exit
  <2>1. ~armed' /\ (may_move' => stop_unconfirmed')
    BY <1>9 DEF Exit, LoopAt, Owned, vars, flags
  <2> QED
    BY <2>1, SettledIsOwned
<1>10. CASE TimePasses \/ SportStateStream
  BY <1>10 DEF TimePasses, SportStateStream, Tick, SportStateChanges, Owned,
     ArmBelongsToPeer, MotionBelongsToPeer, flags, ghosts, loop, socket
<1>11. CASE Poll \/ SendReply \/ RequestShutdown \/ UNCHANGED daemon_vars
  BY <1>11, CoreUntouched DEF Poll, SendReply, RequestShutdown, LoopGoto,
     daemon_vars, loop, socket
<1> QED
  BY <1>2, <1>3, <1>4, <1>5, <1>6, <1>7, <1>8, <1>9, <1>10, <1>11, CoreUntouched
     DEF DaemonNext, Iterate

\* No session is ever armed on behalf of another one, whatever the order of
\* hang-ups, connection attempts and commands.
THEOREM ArmIsOwned == DaemonSpec => []ArmBelongsToPeer
<1>1. Owned => ArmBelongsToPeer
  BY DEF Owned
<1> QED
  BY <1>1, OwnedInit, OwnedNext, PTL DEF DaemonSpec

\* A motion outlives its session only as an unconfirmed stop under retry.
THEOREM MotionIsOwned == DaemonSpec => []MotionBelongsToPeer
<1>1. Owned => MotionBelongsToPeer
  BY DEF Owned
<1> QED
  BY <1>1, OwnedInit, OwnedNext, PTL DEF DaemonSpec

-----------------------------------------------------------------------------
(* The process implements MotionSupervisor.  Every step of the core has one  *)
(* of five outcomes, and each outcome is a step of the abstract              *)
(* specification or a stutter.                                               *)

Keeps == UNCHANGED <<armed, faulted, may_move>>

Arms == ~faulted /\ ~faulted' /\ armed' /\ UNCHANGED may_move

Halts == UNCHANGED <<armed, faulted>> /\ ~may_move'

Faults == ~armed' /\ faulted' /\ (may_move' => may_move)

Settles == ~armed' /\ ~may_move' /\ (faulted' => faulted)

\* The outcomes of a step that puts no motion call on the wire.
Supervises == Keeps \/ Arms \/ Halts \/ Faults \/ Settles

\* The outcomes of one that does.
Drives ==
  /\ armed /\ ~faulted
  /\ \/ armed' /\ ~faulted' /\ may_move'
     \/ ~armed' /\ faulted'

LEMMA StopOutcome ==
  ASSUME Latch, NEW disarm \in BOOLEAN, NEW ok \in BOOLEAN, Stop(disarm, ok)
  PROVE  Supervises
<1>1. CASE ok /\ ~disarm
  BY <1>1 DEF Stop, Latch, FlagsOK, Supervises, Halts
<1>2. CASE ok /\ disarm
  BY <1>2 DEF Stop, Latch, FlagsOK, Supervises, Settles
<1>3. CASE ~ok
  BY <1>3 DEF Stop, Latch, FlagsOK, Supervises, Faults
<1> QED
  BY <1>1, <1>2, <1>3

LEMMA FaultStopOutcome ==
  ASSUME NEW ok \in BOOLEAN, FaultStop(FALSE, ok)
  PROVE  Supervises
  BY DEF FaultStop, Supervises, Faults

LEMMA DispatchOutcome ==
  ASSUME Latch, armed, NEW p, NEW call \in {"Move", "SportAction"},
         Dispatch(p, call)
  PROVE  (Drives /\ MotionCall) \/ (Supervises /\ ~MotionCall)
<1> USE DEF Step, MotionCall
<1>1. ~faulted
  BY DEF Latch, ArmedIsNotFaulted
<1>2. ASSUME NEW ok \in BOOLEAN, FaultStop(FALSE, ok),
             last' = Step(p.op, "LimitExceeded", <<"StopMove">>)
      PROVE  Supervises /\ ~MotionCall
  <2>1. Supervises
    BY <1>2, FaultStopOutcome
  <2>2. ~MotionCall
    BY <1>2
  <2> QED
    BY <2>1, <2>2
<1>3. ASSUME NEW ok \in BOOLEAN, FaultStop(TRUE, ok),
             last' = Step(p.op, "SdkError", <<call, "StopMove">>)
      PROVE  Drives /\ MotionCall
  BY <1>1, <1>3 DEF FaultStop, Drives
<1>4. ASSUME may_move' = TRUE, last' = Step(p.op, "Ok", <<call>>),
             UNCHANGED <<armed, faulted>>
      PROVE  Drives /\ MotionCall
  BY <1>1, <1>4 DEF Drives
<1> QED
  BY <1>2, <1>3, <1>4 DEF Dispatch

LEMMA RefuseOutcome ==
  ASSUME NEW p, NEW code, Refuse(p, code)
  PROVE  Supervises /\ ~MotionCall
  BY DEF Refuse, flags, Step, MotionCall, Supervises, Keeps

LEMMA HandleOutcome ==
  ASSUME Latch, NEW p \in Packets, Handle(p)
  PROVE  (Drives /\ MotionCall) \/ (Supervises /\ ~MotionCall)
<1>1. CASE Reject(p)
  BY <1>1 DEF Reject, Step, MotionCall, flags, Supervises, Keeps
<1>2. CASE HandleArm(p)
  <2>1. CASE ArmRefusal = "Ok"
    <3>1. ~faulted
      BY <2>1 DEF ArmRefusal
    <3>2. PICK ok \in {TRUE, ~PreserveClassicWalk} :
            /\ armed' = ok /\ faulted' = (faulted \/ ~ok)
            /\ last' = Step("Arm", SdkErrorUnless(ok),
                            IF PreserveClassicWalk THEN <<"ClassicWalk">>
                            ELSE << >>)
            /\ UNCHANGED may_move
      BY <1>2, <2>1 DEF HandleArm, Arm
    <3>3. ~MotionCall
      BY <3>2 DEF Step, MotionCall
    <3>4. Supervises
      BY <3>1, <3>2 DEF Supervises, Arms, Faults
    <3> QED
      BY <3>3, <3>4
  <2> QED
    BY <1>2, <2>1, RefuseOutcome DEF HandleArm
<1>3. CASE HandleDisarm(p)
  <2>1. ~MotionCall
    BY <1>3 DEF HandleDisarm, Step, MotionCall
  <2>2. CASE ~AllowMotion
    <3>1. Supervises
      BY <1>3, <2>2 DEF HandleDisarm, ClearLocally, Latch, Supervises, Settles
    <3> QED
      BY <2>1, <3>1
  <2>3. CASE AllowMotion /\ NothingToStop
    <3>1. Supervises
      BY <1>3, <2>3 DEF HandleDisarm, flags, Supervises, Keeps
    <3> QED
      BY <2>1, <3>1
  <2>4. CASE AllowMotion /\ ~NothingToStop
    <3>1. PICK ok \in BOOLEAN : ClearForDisarm(ok)
      BY <1>3, <2>4 DEF HandleDisarm
    <3>2. Supervises
      BY <3>1 DEF ClearForDisarm, Latch, FlagsOK, Supervises, Settles, Faults
    <3> QED
      BY <2>1, <3>2
  <2> QED
    BY <2>2, <2>3, <2>4
<1>4. CASE HandleMove(p)
  <2>1. ASSUME NEW ok \in BOOLEAN, NEW code,
               FaultStop(FALSE, ok) \/ Stop(FALSE, ok),
               last' = Step(p.op, code, <<"StopMove">>)
        PROVE  Supervises /\ ~MotionCall
    <3>1. Supervises
      BY <2>1, FaultStopOutcome, StopOutcome
    <3>2. ~MotionCall
      BY <2>1 DEF Step, MotionCall
    <3> QED
      BY <3>1, <3>2
  <2>2. CASE ~AllowMotion \/ ~armed \/ faulted
    BY <1>4, <2>2, RefuseOutcome DEF HandleMove
  <2>3. CASE AllowMotion /\ armed /\ ~faulted /\ p.velocity \in {"outside", "zero"}
    BY <1>4, <2>1, <2>3 DEF HandleMove
  <2>4. CASE AllowMotion /\ armed /\ ~faulted /\ p.velocity \notin {"outside", "zero"}
    BY <1>4, <2>4, DispatchOutcome DEF HandleMove
  <2> QED
    BY <2>2, <2>3, <2>4
<1>5. CASE HandleStop(p)
  <2>1. ASSUME NEW ok \in BOOLEAN, Stop(FALSE, ok),
               last' = Step("Stop", SdkErrorUnless(ok), <<"StopMove">>)
        PROVE  Supervises /\ ~MotionCall
    <3>1. Supervises
      BY <2>1, StopOutcome
    <3>2. ~MotionCall
      BY <2>1 DEF Step, MotionCall
    <3> QED
      BY <3>1, <3>2
  <2> QED
    BY <1>5, <2>1, RefuseOutcome DEF HandleStop
<1>6. CASE HandlePing(p)
  BY <1>6, RefuseOutcome DEF HandlePing
<1>7. CASE HandleRestoreClassicWalk(p)
  <2>1. ASSUME NEW ok \in BOOLEAN, UNCHANGED <<flags, may_move>>,
               last' = Step(p.op, SdkErrorUnless(ok), <<"ClassicWalk">>)
        PROVE  Supervises /\ ~MotionCall
    BY <2>1 DEF Step, MotionCall, flags, Supervises, Keeps
  <2> QED
    BY <1>7, <2>1, RefuseOutcome DEF HandleRestoreClassicWalk
<1>8. CASE HandleSportAction(p)
  <2>1. ASSUME NEW ok \in BOOLEAN, FaultStop(FALSE, ok),
               last' = Step(p.op, "FaultLatched", <<"StopMove">>)
        PROVE  Supervises /\ ~MotionCall
    <3>1. Supervises
      BY <2>1, FaultStopOutcome
    <3>2. ~MotionCall
      BY <2>1 DEF Step, MotionCall
    <3> QED
      BY <3>1, <3>2
  <2>2. CASE ~AllowMotion \/ ~armed \/ faulted
    BY <1>8, <2>2, RefuseOutcome DEF HandleSportAction
  <2>3. CASE AllowMotion /\ armed /\ ~faulted
    BY <1>8, <2>1, <2>3, DispatchOutcome DEF HandleSportAction
  <2> QED
    BY <2>2, <2>3
<1> QED
  BY <1>1, <1>2, <1>3, <1>4, <1>5, <1>6, <1>7, <1>8 DEF Handle

LEMMA WatchdogOutcome ==
  ASSUME Latch, CheckWatchdog
  PROVE  Supervises
<1>1. CASE stop_unconfirmed /\ AllowMotion
  BY <1>1, StopOutcome DEF CheckWatchdog
<1>2. CASE stop_unconfirmed /\ ~AllowMotion
  BY <1>2 DEF CheckWatchdog, ClearLocally, Latch, Supervises, Settles
<1>3. CASE ~stop_unconfirmed /\ armed /\ WatchdogExpired
  BY <1>3, FaultStopOutcome DEF CheckWatchdog
<1>4. CASE ~stop_unconfirmed /\ ~(armed /\ WatchdogExpired)
  BY <1>4 DEF CheckWatchdog, flags, Supervises, Keeps
<1> QED
  BY <1>1, <1>2, <1>3, <1>4, ConfigAssumption

LEMMA DisconnectOutcome ==
  ASSUME Latch, OnDisconnect
  PROVE  Supervises
<1>1. CASE ~AllowMotion
  BY <1>1 DEF OnDisconnect, ClearLocally, Latch, Supervises, Settles
<1>2. CASE AllowMotion /\ NothingToStop
  BY <1>2 DEF OnDisconnect, flags, Supervises, Keeps
<1>3. CASE AllowMotion /\ ~NothingToStop
  <2>1. PICK first \in BOOLEAN, second \in BOOLEAN :
          /\ armed' = FALSE
          /\ faulted' = (faulted \/ ~first)
          /\ may_move' = (may_move /\ ~first /\ ~second)
    BY <1>3 DEF OnDisconnect
  <2> QED
    BY <2>1 DEF Latch, FlagsOK, Supervises, Settles, Faults
<1> QED
  BY <1>1, <1>2, <1>3

\* The ghosts follow the flags.
Attributed == (armed <=> armed_by # Nothing) /\ (~may_move => mover = Nothing)

Supervised == Owned /\ Attributed

LEMMA PeerIsSession ==
  ASSUME Owned, peer # Nothing
  PROVE  peer \in Session
  BY DEF Owned, SocketOK

\* A step of the loop itself arms nobody.
LEMMA SilentOutcomeIsStep ==
  ASSUME Supervised, Latch', Supervises, armed' => armed,
         mover' = IF may_move' THEN mover ELSE Nothing,
         armed_by' = IF armed' THEN armed_by ELSE Nothing
  PROVE  Attributed' /\ [Supervisor!Next]_(Supervisor!supervisor_vars)
<1> USE DEF Supervised, Attributed, Latch, FlagsOK, Owned
<1>1. CASE Keeps \/ Arms
  BY <1>1 DEF Keeps, Arms, Supervisor!supervisor_vars
<1>2. CASE Halts
  BY <1>2 DEF Halts, Supervisor!Next, Supervisor!Halt
<1>3. CASE Faults
  BY <1>3 DEF Faults, Supervisor!Next, Supervisor!Fault
<1>4. CASE Settles
  BY <1>4 DEF Settles, Supervisor!Next, Supervisor!Disarm, Supervisor!Release
<1> QED
  BY <1>1, <1>2, <1>3, <1>4 DEF Supervises

\* The outcomes are steps of the abstract specification; s is the session whose
\* command the step handles.
LEMMA OutcomeIsStep ==
  ASSUME Supervised, Latch', Supervises, NEW s \in Session,
         mover' = IF may_move' THEN mover ELSE Nothing,
         armed_by' = IF ~armed' THEN Nothing ELSE IF armed THEN armed_by ELSE s
  PROVE  Attributed' /\ [Supervisor!Next]_(Supervisor!supervisor_vars)
<1> USE DEF Supervised, Attributed, Latch, FlagsOK, Owned
<1>1. CASE armed' => armed
  BY <1>1, SilentOutcomeIsStep
<1>2. CASE armed' /\ ~armed
  <2>1. Arms
    BY <1>2 DEF Supervises, Keeps, Halts, Faults, Settles
  <2>2. Supervisor!Arm(s)
    BY <1>2, <2>1 DEF Arms, Supervisor!Arm
  <2> QED
    BY <1>2, <2>1, <2>2, SessionAssumption DEF Supervisor!Next, Arms
<1> QED
  BY <1>1, <1>2

\* The same for a command of s that did put a motion call on the wire.
LEMMA DriveIsStep ==
  ASSUME Supervised, Latch', Drives, NEW s \in Session, armed_by = s,
         mover' = IF may_move' THEN s ELSE Nothing,
         armed_by' = IF ~armed' THEN Nothing ELSE armed_by
  PROVE  Attributed' /\ [Supervisor!Next]_(Supervisor!supervisor_vars)
<1> USE SessionAssumption DEF Supervised, Attributed, Latch, FlagsOK, Owned, Drives
<1>1. CASE armed'
  <2>1. Supervisor!Drive(s)
    BY <1>1 DEF Supervisor!Drive
  <2> QED
    BY <1>1, <2>1 DEF Supervisor!Next
<1>2. CASE ~armed'
  BY <1>2 DEF Supervisor!Next, Supervisor!Fault
<1> QED
  BY <1>1, <1>2

LEMMA SupervisorStep ==
  Supervised /\ [DaemonNext]_daemon_vars
    => Attributed' /\ [Supervisor!Next]_(Supervisor!supervisor_vars)
<1> SUFFICES ASSUME Supervised, [DaemonNext]_daemon_vars
             PROVE  Attributed' /\ [Supervisor!Next]_(Supervisor!supervisor_vars)
  OBVIOUS
<1>1. Latch'
  BY LoopStep, LatchNext DEF Supervised, Owned
<1>2. Latch /\ SessionAssumption
  BY SessionAssumption DEF Supervised, Owned
<1>3. ASSUME UNCHANGED <<armed, faulted, may_move, ghosts>>
      PROVE  Attributed' /\ [Supervisor!Next]_(Supervisor!supervisor_vars)
  BY <1>3 DEF ghosts, Supervised, Attributed, Supervisor!supervisor_vars
<1>4. ASSUME Release, CheckWatchdog \/ OnDisconnect
      PROVE  Attributed' /\ [Supervisor!Next]_(Supervisor!supervisor_vars)
  <2>1. Supervises
    BY <1>2, <1>4, WatchdogOutcome, DisconnectOutcome
  <2>2. CASE armed' => armed
    <3>1. mover' = (IF may_move' THEN mover ELSE Nothing)
          /\ armed_by' = (IF armed' THEN armed_by ELSE Nothing)
      BY <1>4 DEF Release
    <3> QED
      BY <1>1, <1>2, <2>1, <2>2, <3>1, SilentOutcomeIsStep
  <2>3. armed' => armed
    BY <1>2, <1>4, WatchdogContains, DisconnectSettles
  <2> QED
    BY <2>2, <2>3
<1>5. CASE Receive /\ peer # Nothing /\ ready.in /\ inbox[peer] # Nothing
  <2>1. peer \in Session /\ inbox[peer] \in Packets
    BY <1>5, PeerIsSession DEF Supervised, Owned, SocketOK
  <2>2. Handle(inbox[peer]) /\ Attribute(peer)
    BY <1>5 DEF Receive
  <2>3. (Drives /\ MotionCall) \/ (Supervises /\ ~MotionCall)
    BY <1>2, <2>1, <2>2, HandleOutcome
  <2>4. CASE Drives /\ MotionCall
    <3>1. armed /\ armed_by = peer
      BY <2>4 DEF Drives, Supervised, Owned, ArmBelongsToPeer
    <3>2. mover' = (IF may_move' THEN peer ELSE Nothing)
          /\ armed_by' = (IF ~armed' THEN Nothing ELSE armed_by)
      BY <2>2, <2>4, <3>1 DEF Attribute
    <3> QED
      BY <1>1, <2>1, <2>4, <3>1, <3>2, DriveIsStep
  <2>5. CASE Supervises /\ ~MotionCall
    <3>1. mover' = (IF may_move' THEN mover ELSE Nothing)
          /\ armed_by' = (IF ~armed' THEN Nothing ELSE IF armed THEN armed_by ELSE peer)
      BY <2>2, <2>5 DEF Attribute
    <3> QED
      BY <1>1, <2>1, <2>5, <3>1, OutcomeIsStep
  <2> QED
    BY <2>3, <2>4, <2>5
<1>6. ASSUME NEW s \in Session, Controller(s)
      PROVE  UNCHANGED <<armed, faulted, may_move, ghosts>>
  BY <1>6 DEF Controller, Connect, Send, ReadReply, Close, vars, flags
<1>7. CASE Receive /\ ~(peer # Nothing /\ ready.in /\ inbox[peer] # Nothing)
  BY <1>3, <1>7 DEF Receive, vars, flags
<1>8. CASE Hangup
  <2>1. CASE peer # Nothing /\ ready.hup
    BY <1>4, <1>8, <2>1 DEF Hangup
  <2> QED
    BY <1>3, <1>8, <2>1 DEF Hangup, vars, flags
<1>9. CASE RunWatchdog \/ Cleanup \/ RetryStop
  BY <1>4, <1>9 DEF RunWatchdog, Cleanup, RetryStop
<1>10. CASE TimePasses \/ SportStateStream
  BY <1>3, <1>10 DEF TimePasses, SportStateStream, Tick, SportStateChanges, flags
<1>11. CASE Poll \/ AcceptPeer \/ SendReply \/ Exit \/ RequestShutdown
            \/ UNCHANGED daemon_vars
  BY <1>3, <1>11 DEF Poll, AcceptPeer, SendReply, Exit, RequestShutdown,
     daemon_vars, vars, flags
<1> QED
  BY <1>3, <1>5, <1>6, <1>7, <1>8, <1>9, <1>10, <1>11 DEF DaemonNext, Iterate

\* The daemon process implements the abstract supervisor, for every number of
\* sessions, every profile and every set of packets.
THEOREM DaemonImplementsSupervisor == DaemonSpec => ImplementsSupervisor
<1>1. DaemonInit => Supervised /\ Supervisor!Init
  BY OwnedInit DEF DaemonInit, Init, Supervised, Attributed, Supervisor!Init
<1>2. Supervised /\ [DaemonNext]_daemon_vars
        => Supervised' /\ [Supervisor!Next]_(Supervisor!supervisor_vars)
  BY OwnedNext, SupervisorStep DEF Supervised
<1> QED
  BY <1>1, <1>2, PTL DEF DaemonSpec, ImplementsSupervisor, Supervisor!Spec

\* What a MotionSupervisor promises, of the process: the session that is driving
\* holds the arm, or a fault is latched, and a latched daemon has no owner.
THEOREM DriverOwnsTheArm == DaemonSpec => []Supervisor!MotionIsOwned
<1>1. Supervisor!Init => Supervisor!MotionIsOwned
  BY DEF Supervisor!Init, Supervisor!MotionIsOwned
<1>2. Supervisor!MotionIsOwned /\ [Supervisor!Next]_(Supervisor!supervisor_vars)
        => Supervisor!MotionIsOwned'
  <2> USE SessionAssumption DEF Supervisor!MotionIsOwned
  <2>1. ASSUME Supervisor!MotionIsOwned, NEW s \in Session,
               Supervisor!Arm(s) \/ Supervisor!Drive(s)
        PROVE  Supervisor!MotionIsOwned'
    BY <2>1 DEF Supervisor!Arm, Supervisor!Drive
  <2>2. ASSUME Supervisor!MotionIsOwned,
               Supervisor!Halt \/ Supervisor!Disarm \/ Supervisor!Fault \/ Supervisor!Release
        PROVE  Supervisor!MotionIsOwned'
    BY <2>2 DEF Supervisor!Halt, Supervisor!Disarm, Supervisor!Fault, Supervisor!Release
  <2>3. ASSUME Supervisor!MotionIsOwned, UNCHANGED Supervisor!supervisor_vars
        PROVE  Supervisor!MotionIsOwned'
    BY <2>3 DEF Supervisor!supervisor_vars
  <2> QED
    BY <2>1, <2>2, <2>3 DEF Supervisor!Next
<1> QED
  BY <1>1, <1>2, DaemonImplementsSupervisor, PTL DEF ImplementsSupervisor, Supervisor!Spec

=============================================================================
