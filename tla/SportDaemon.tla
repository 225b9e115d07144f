----------------------------- MODULE SportDaemon -----------------------------
(***************************************************************************)
(* The SDK daemon as a process: the event loop Run of                      *)
(* packages/go2_chassis/sdk_daemon/src/main.cpp around one DaemonCore, its *)
(* Unix socket, and the controllers on the other end of it.                *)
(*                                                                         *)
(* One iteration of the loop polls, accepts, looks for a hang-up, handles  *)
(* one command, replies, and runs the watchdog, in this order, and acts on *)
(* the readiness the poll returned: controllers keep connecting, sending   *)
(* and dying between any two of these steps.  A session is one connection  *)
(* of a controller (SeqpacketClient of the ROS adapter, DaemonClient of    *)
(* the sport-action runtime).  It has one command outstanding, numbers its *)
(* commands upwards from 1, and closes the connection when a reply does    *)
(* not come in time.  (The adapter goes on from the number its last        *)
(* connection ended with, which is accepted whenever 1 is.)                *)
(***************************************************************************)
EXTENDS DaemonCore, SequencesExt

CONSTANTS
  Session,       \* the connections that exist at one time
  Backlog,       \* connections the kernel keeps for accept
  MaxCommands,   \* bound on the commands of one session
  Nothing           \* no session, no packet

ASSUME SessionAssumption == Nothing \notin Session /\ Nothing \notin Packets

\* A packet that waits in the socket grows old.
Aged(p) == [p EXCEPT !.age = Older(p.age, MaxLifetime + 1)]

ASSUME AgeingAssumption == \A p \in Packets : Aged(p) \in Packets

VARIABLES
  pc,        \* where the event loop is
  ready,     \* what the last poll reported
  peer,      \* the session being served
  backlog,   \* connections not yet accepted
  client,    \* client[s]: "free", "idle", "waiting" (for a reply), "closed"
  inbox,     \* inbox[s]: the command in the socket
  unread,    \* unread[s]: a reply in the socket
  sent,      \* sent[s]: number of commands sent on this connection
  stopping,  \* g_shutdown_requested
  retries,   \* attempts of the shutdown clean-up
  armed_by,  \* history: the session whose Arm is in force
  mover      \* history: the session that made the last motion call

session == <<client, inbox, unread, sent>>
ghosts == <<armed_by, mover>>
socket == <<peer, backlog, session>>
loop == <<pc, ready, stopping, retries>>
daemon_vars == <<vars, socket, loop, ghosts>>

-----------------------------------------------------------------------------
(* The controllers *)

Held(s) == s = peer \/ s \in ToSet(backlog)

Connect(s) ==
  /\ client[s] = "free" /\ pc # "exited"
  /\ Len(backlog) < Backlog
  /\ backlog' = Append(backlog, s)
  /\ client' = [client EXCEPT ![s] = "idle"]
  /\ UNCHANGED <<vars, loop, ghosts, peer, inbox, unread, sent>>

Send(s) ==
  /\ client[s] = "idle" /\ Held(s) /\ sent[s] < MaxCommands
  /\ \E p \in Packets :
       /\ p.sequence = sent[s] + 1 /\ p.age = 0
       /\ inbox' = [inbox EXCEPT ![s] = p]
  /\ sent' = [sent EXCEPT ![s] = @ + 1]
  /\ client' = [client EXCEPT ![s] = "waiting"]
  /\ UNCHANGED <<vars, loop, ghosts, peer, backlog, unread>>

ReadReply(s) ==
  /\ client[s] = "waiting" /\ unread[s]
  /\ unread' = [unread EXCEPT ![s] = FALSE]
  /\ client' = [client EXCEPT ![s] = "idle"]
  /\ UNCHANGED <<vars, loop, ghosts, peer, backlog, inbox, sent>>

\* The controller is done, has timed out, has seen its connection dropped, or
\* has died.
Close(s) ==
  /\ client[s] \in {"idle", "waiting"}
  /\ unread' = [unread EXCEPT ![s] = FALSE]
  /\ client' = [client EXCEPT ![s] = IF Held(s) THEN "closed" ELSE "free"]
  /\ sent' = [sent EXCEPT ![s] = IF Held(s) THEN @ ELSE 0]
  /\ UNCHANGED <<vars, loop, ghosts, peer, backlog, inbox>>

-----------------------------------------------------------------------------
(* The event loop *)

LoopAt(label) == pc = label
LoopGoto(label) == pc' = label

NoEvents == [server |-> FALSE, hup |-> FALSE, in |-> FALSE]

Events ==
  [server |-> backlog # << >>,
   hup |-> peer # Nothing /\ client[peer] = "closed",
   in |-> peer # Nothing /\ inbox[peer] # Nothing]

\* A signal makes poll return early with no events.
Poll ==
  /\ LoopAt("poll") /\ LoopGoto("accept")
  /\ \/ ready' = Events
     \/ stopping /\ ready' = NoEvents
  /\ UNCHANGED <<vars, socket, ghosts, stopping, retries>>

\* close() of the daemon's end of session s: its queues are gone.
Drop(s) ==
  /\ inbox' = [inbox EXCEPT ![s] = Nothing]
  /\ client' = [client EXCEPT ![s] = IF @ = "closed" THEN "free" ELSE @]
  /\ sent' = [sent EXCEPT ![s] = IF client[s] = "closed" THEN 0 ELSE @]
  /\ UNCHANGED unread

\* A second controller is accepted only to be closed.
AcceptPeer ==
  /\ LoopAt("accept") /\ LoopGoto("hangup")
  /\ IF ready.server /\ backlog # << >>
     THEN /\ backlog' = Tail(backlog)
          /\ IF peer # Nothing
             THEN Drop(Head(backlog)) /\ UNCHANGED peer
             ELSE peer' = Head(backlog) /\ UNCHANGED session
     ELSE UNCHANGED socket
  /\ UNCHANGED <<vars, ghosts, ready, stopping, retries>>

\* The step of the core put a motion call on the wire.
MotionCall ==
  last'.calls # << >> /\ Head(last'.calls) \in {"Move", "SportAction"}

\* Who is answerable for the arm and for the motion after a command of s.
Attribute(s) ==
  /\ armed_by' = IF ~armed' THEN Nothing ELSE IF armed THEN armed_by ELSE s
  /\ mover' = IF ~may_move' THEN Nothing ELSE IF MotionCall THEN s ELSE mover

\* The same for the steps the loop takes by itself.
Release ==
  /\ armed_by' = IF armed' THEN armed_by ELSE Nothing
  /\ mover' = IF may_move' THEN mover ELSE Nothing

\* Mutant of Hangup: the socket is closed but the core is not told.
HangupSilently ==
  /\ LoopAt("hangup") /\ LoopGoto("receive")
  /\ IF peer # Nothing /\ ready.hup
     THEN Drop(peer) /\ peer' = Nothing
     ELSE UNCHANGED <<peer, session>>
  /\ UNCHANGED <<vars, ghosts, backlog, ready, stopping, retries>>

\* A session whose controller is gone is closed before its last command is
\* looked at.
Hangup ==
  /\ LoopAt("hangup") /\ LoopGoto("receive")
  /\ IF peer # Nothing /\ ready.hup
     THEN /\ OnDisconnect
          /\ Release
          /\ Drop(peer)
          /\ peer' = Nothing
     ELSE UNCHANGED <<vars, ghosts, peer, session>>
  /\ UNCHANGED <<backlog, ready, stopping, retries>>

Receive ==
  /\ LoopAt("receive")
  /\ IF peer # Nothing /\ ready.in /\ inbox[peer] # Nothing
     THEN /\ Handle(inbox[peer])
          /\ Attribute(peer)
          /\ inbox' = [inbox EXCEPT ![peer] = Nothing]
          /\ LoopGoto("reply")
     ELSE /\ UNCHANGED <<vars, ghosts, inbox>>
          /\ LoopGoto("watchdog")
  /\ UNCHANGED <<peer, backlog, client, unread, sent, ready, stopping, retries>>

\* A reply that cannot be delivered is an exception, which ends the process.
SendReply ==
  /\ LoopAt("reply")
  /\ IF client[peer] = "waiting"
     THEN unread' = [unread EXCEPT ![peer] = TRUE] /\ LoopGoto("watchdog")
     ELSE UNCHANGED unread /\ LoopGoto("cleanup")
  /\ UNCHANGED <<vars, ghosts, peer, backlog, client, inbox, sent,
                 ready, stopping, retries>>

RunWatchdog ==
  /\ LoopAt("watchdog")
  /\ CheckWatchdog
  /\ Release
  /\ LoopGoto(IF stopping THEN "cleanup" ELSE "poll")
  /\ ready' = NoEvents
  /\ UNCHANGED <<socket, stopping, retries>>

\* SIGINT or SIGTERM.
RequestShutdown ==
  /\ ~stopping /\ pc # "exited"
  /\ stopping' = TRUE
  /\ UNCHANGED <<vars, socket, ghosts, pc, ready, retries>>

-----------------------------------------------------------------------------
(* cleanup: a last disconnect, a few more attempts at an unconfirmed stop,   *)
(* and the end of the process.                                               *)

ShutdownStopRetries == 3

Cleanup ==
  /\ LoopAt("cleanup") /\ LoopGoto("drain")
  /\ OnDisconnect
  /\ Release
  /\ UNCHANGED <<socket, ready, stopping, retries>>

RetryStop ==
  /\ LoopAt("drain") /\ stop_unconfirmed /\ retries < ShutdownStopRetries
  /\ CheckWatchdog
  /\ Release
  /\ retries' = retries + 1
  /\ UNCHANGED <<socket, pc, ready, stopping>>

Exit ==
  /\ LoopAt("drain") /\ LoopGoto("exited")
  /\ ~stop_unconfirmed \/ retries = ShutdownStopRetries
  /\ peer' = Nothing
  /\ backlog' = << >>
  /\ inbox' = [s \in Session |-> Nothing]
  /\ client' = [s \in Session |->
                  IF client[s] = "closed" THEN "free" ELSE client[s]]
  /\ UNCHANGED <<vars, ghosts, unread, sent, ready, stopping, retries>>

-----------------------------------------------------------------------------

\* Time passes for the core and for the packets in the socket.
TimePasses ==
  /\ Tick
  /\ inbox' = [s \in Session |->
                 IF inbox[s] = Nothing THEN Nothing ELSE Aged(inbox[s])]
  /\ UNCHANGED <<peer, backlog, client, unread, sent, loop, ghosts>>

SportStateStream ==
  SportStateChanges /\ UNCHANGED <<socket, loop, ghosts>>

Iterate ==
  \/ Poll \/ AcceptPeer \/ Hangup \/ Receive \/ SendReply \/ RunWatchdog
  \/ Cleanup \/ RetryStop \/ Exit

Controller(s) == Connect(s) \/ Send(s) \/ ReadReply(s) \/ Close(s)

DaemonInit ==
  /\ Init
  /\ pc = "poll"
  /\ ready = NoEvents
  /\ peer = Nothing
  /\ backlog = << >>
  /\ client = [s \in Session |-> "free"]
  /\ inbox = [s \in Session |-> Nothing]
  /\ unread = [s \in Session |-> FALSE]
  /\ sent = [s \in Session |-> 0]
  /\ stopping = FALSE
  /\ retries = 0
  /\ armed_by = Nothing
  /\ mover = Nothing

DaemonNext ==
  \/ Iterate
  \/ \E s \in Session : Controller(s)
  \/ RequestShutdown
  \/ TimePasses
  \/ SportStateStream

DaemonSpec == DaemonInit /\ [][DaemonNext]_daemon_vars

\* The process runs, time passes, and a StopMove that is retried for ever is
\* confirmed one day.  Nothing is assumed of the controllers.
DaemonFairness ==
  /\ WF_daemon_vars(Iterate)
  /\ WF_daemon_vars(TimePasses)
  /\ SF_daemon_vars(RunWatchdog /\ ~stop_unconfirmed')

FairDaemonSpec == DaemonSpec /\ DaemonFairness

-----------------------------------------------------------------------------
(* The abstract specification.  The owner of the arm is the session whose Arm *)
(* is in force, the driver the one whose motion no confirmed stop has ended.  *)

Supervisor == INSTANCE MotionSupervisor
                WITH Operator <- Session, owner <- armed_by,
                     driver <- mover, latched <- faulted

-----------------------------------------------------------------------------
(* Properties *)

\* Types of the loop, of the socket and of the sessions.
DaemonTypeOK ==
  /\ TypeOK
  /\ pc \in {"poll", "accept", "hangup", "receive", "reply", "watchdog",
             "cleanup", "drain", "exited"}
  /\ ready \in [server: BOOLEAN, hup: BOOLEAN, in: BOOLEAN]
  /\ peer \in Session \cup {Nothing}
  /\ backlog \in Seq(Session) /\ Len(backlog) <= Backlog
  /\ client \in [Session -> {"free", "idle", "waiting", "closed"}]
  /\ inbox \in [Session -> Packets \cup {Nothing}]
  /\ unread \in [Session -> BOOLEAN]
  /\ sent \in [Session -> 0..MaxCommands]
  /\ stopping \in BOOLEAN
  /\ retries \in 0..ShutdownStopRetries
  /\ armed_by \in Session \cup {Nothing}
  /\ mover \in Session \cup {Nothing}

\* An arm never outlives the session that asked for it: no later controller
\* finds the daemon armed by somebody else.
ArmBelongsToPeer == armed => peer # Nothing /\ armed_by = peer

\* A motion outlives the session that started it only behind a StopMove the
\* loop is still retrying (or has given up on at the end of the process).
MotionBelongsToPeer ==
  may_move => stop_unconfirmed \/ (peer # Nothing /\ mover = peer)

\* The process keeps the promise of MotionSupervisor: over any number of
\* sessions that come, go and die with commands in flight, only the session
\* that holds the arm drives, and only a confirmed stop opens the latch.
ImplementsSupervisor == Supervisor!Spec

\* When the controllers fall silent the robot is stopped, whether they closed
\* their connections or not, unless the process ended with its stop refused.
SilenceStopsMotion ==
  \/ []<><<\E s \in Session : Send(s)>>_daemon_vars
  \/ []<>(~may_move \/ pc = "exited")

=============================================================================
