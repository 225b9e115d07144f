----------------------------- MODULE VoiceSession -----------------------------
(* The browser's voice entry of the dashboard: one recording at a time is       *)
(* handed to Liaison by a worker thread, whose event loop listens to the audio  *)
(* bridge, to the events of Liaison's stream and to the task that sends the     *)
(* recording, while a second thread reads that stream.                          *)
(*                                                                              *)
(* The bridge and Liaison are the environment: control frames, events and the   *)
(* end of the stream come in any order.  Events wait in a bounded queue that    *)
(* drops its oldest; a turn of the loop takes at most one of them, and whatever *)
(* else is done when it wakes up.  What a request must carry to be admitted and *)
(* the texts that are shown are left out.                                       *)
EXTENDS Naturals, Sequences

CONSTANTS
  QueueSize,     \* of the events; 128
  MaxEvents,     \* bound: events of one stream
  MaxUploads     \* bound: recordings that are admitted

ASSUME VoiceAssumption ==
  QueueSize \in Nat \ {0} /\ MaxEvents \in Nat /\ MaxUploads \in Nat

VARIABLES
  execution_mode,   \* of the configuration
  uploads,          \* recordings admitted
  worker_thread,    \* the session's thread
  shown,            \* the status the browser is shown
  pcm,              \* the recording in memory
  loop_stage,       \* what the event loop is about
  session_end,          \* how _run_network_session ends
  mic_started, sender, control, events, event_task, terminal,
  grpc,             \* the thread that reads Liaison's stream
  cancel,           \* the session's cancel event
  liaison           \* history: what Liaison sent in this session

voice_vars == <<execution_mode, uploads, worker_thread, shown, pcm, loop_stage, session_end,
                mic_started, sender, control, events, event_task, terminal, grpc, cancel,
                liaison>>
turn_vars == <<mic_started, sender, control, event_task, terminal>>

None == "none"
LiaisonEvents == {"progress", "plan", "done", "failed"}
Terminal == {"completed", "failed"}
Unsent == [sent |-> 0, done |-> FALSE, plan |-> FALSE, dropped |-> FALSE]
GrpcOver == grpc \in {"off", "ok", "error"}

-----------------------------------------------------------------------------
(* BrowserVoiceGateway *)

\* A thread that died leaves the next recording the gateway only if it has said
\* how its session ended: update_voice refuses a session over an active one.
Admits == worker_thread # "alive" /\ shown \notin {"accepted", "active"}

Submit ==
  /\ Admits /\ uploads < MaxUploads
  /\ uploads' = uploads + 1
  /\ worker_thread' = "alive" /\ shown' = "accepted" /\ pcm' = "held"
  /\ loop_stage' = "connecting" /\ session_end' = None
  /\ mic_started' = FALSE /\ sender' = None /\ control' = None
  /\ events' = <<>> /\ event_task' = None /\ terminal' = FALSE
  /\ grpc' = "off" /\ cancel' = FALSE /\ liaison' = Unsent
  /\ UNCHANGED execution_mode

\* close(), at shutdown.
Close ==
  /\ worker_thread = "alive" /\ ~cancel
  /\ cancel' = TRUE
  /\ UNCHANGED <<execution_mode, uploads, worker_thread, shown, pcm, loop_stage, session_end,
                 events, turn_vars, grpc, liaison>>

-----------------------------------------------------------------------------
(* Liaison's stream and the audio bridge *)

GrpcMoves(to) ==
  /\ grpc' = to
  /\ UNCHANGED <<execution_mode, uploads, worker_thread, shown, pcm, loop_stage, session_end,
                 turn_vars, cancel>>

OpenStream ==
  /\ grpc = "opening"
  /\ GrpcMoves("open") /\ UNCHANGED <<events, liaison>>

\* The channel is not ready in time, the call fails, or its time is up.
BreakStream ==
  /\ grpc \in {"opening", "open"}
  /\ GrpcMoves("error") /\ UNCHANGED <<events, liaison>>

EndStream ==
  /\ grpc = "open"
  /\ GrpcMoves("ok") /\ UNCHANGED <<events, liaison>>

Enqueued(event) ==
  Append(IF Len(events) = QueueSize THEN Tail(events) ELSE events, event)

\* A response is handed to the loop; after a cancellation it ends the call.
SendEvent ==
  /\ grpc = "open" /\ liaison.sent < MaxEvents
  /\ \E event \in LiaisonEvents :
       IF cancel \/ loop_stage # "turning"
         THEN GrpcMoves("error") /\ UNCHANGED <<events, liaison>>
         ELSE /\ GrpcMoves("open")
              /\ events' = Enqueued(event)
              /\ liaison' = [sent |-> liaison.sent + 1,
                             done |-> liaison.done \/ event = "done",
                             plan |-> liaison.plan \/ (event = "plan" /\ ~liaison.done),
                             dropped |-> liaison.dropped \/ Len(events) = QueueSize]

SendControl ==
  /\ loop_stage = "turning" /\ control = None
  /\ control' \in {"mic_start", "mic_stop", "unexpected"}
  /\ UNCHANGED <<execution_mode, uploads, worker_thread, shown, pcm, loop_stage, session_end,
                 mic_started, sender, events, event_task, terminal, grpc, cancel, liaison>>

-----------------------------------------------------------------------------
(* _run_network_session *)

ConnectBridge ==
  /\ loop_stage = "connecting"
  /\ \/ /\ loop_stage' = "turning" /\ grpc' = "opening" /\ shown' = "active"
        /\ UNCHANGED session_end
     \/ /\ loop_stage' = "closing" /\ session_end' = "failed" /\ shown' = "active"
        /\ UNCHANGED grpc
  /\ UNCHANGED <<execution_mode, uploads, worker_thread, pcm, events, turn_vars, cancel,
                 liaison>>

TakeEvent ==
  /\ loop_stage = "turning" /\ event_task = None /\ events # <<>>
  /\ event_task' = Head(events) /\ events' = Tail(events)
  /\ UNCHANGED <<execution_mode, uploads, worker_thread, shown, pcm, loop_stage, session_end,
                 mic_started, sender, control, terminal, grpc, cancel, liaison>>

\* _send_pcm; a cancellation fails it too.
SendPcm ==
  /\ loop_stage = "turning" /\ sender = "sending"
  /\ sender' \in {"sent", "failed"}
  /\ UNCHANGED <<execution_mode, uploads, worker_thread, shown, pcm, loop_stage, session_end,
                 mic_started, control, events, event_task, terminal, grpc, cancel, liaison>>

ControlRaises == control = "unexpected" \/ (control = "mic_start" /\ mic_started)

EventRaises ==
  event_task = "failed" \/ (event_task = "plan" /\ execution_mode = "preview")

TerminalNow == IF event_task = None THEN terminal ELSE event_task = "done"

\* The stream is over: the session is complete if it has said so last.
EndsUnchecked == IF grpc = "ok" THEN "complete" ELSE "failed"
EndsWithStream == IF grpc = "ok" /\ TerminalNow THEN "complete" ELSE "failed"

\* The turn looks at the frame, the event, the sender and the stream in this
\* order; a sender that mic_stop cancelled raises what nobody handles.
TurnEnds ==
  IF ControlRaises \/ EventRaises THEN "failed"
  ELSE IF sender \in {"failed", "cancelled"} THEN sender
  ELSE IF GrpcOver THEN EndsWithStream
  ELSE None

LoopTurn ==
  /\ loop_stage = "turning"
  /\ control # None \/ event_task # None \/ sender \in {"sent", "failed", "cancelled"}
       \/ GrpcOver
  /\ session_end' = TurnEnds
  /\ loop_stage' = IF TurnEnds = None THEN "turning" ELSE "closing"
  /\ shown' = CASE ControlRaises -> shown
                [] ~ControlRaises /\ event_task \in {"done", "failed"} ->
                     IF event_task = "done" THEN "completed" ELSE "failed"
                [] OTHER -> IF event_task # None \/ control = "mic_start"
                              THEN "active" ELSE shown
  /\ mic_started' = (mic_started \/ control = "mic_start")
  /\ sender' = CASE control = "mic_start" /\ ~mic_started -> "sending"
                 [] control = "mic_stop" /\ sender = "sending" -> "cancelled"
                 [] sender \in {"sent", "failed", "cancelled"} -> None
                 [] OTHER -> sender
  /\ control' = None /\ event_task' = None /\ terminal' = TerminalNow
  /\ UNCHANGED <<execution_mode, uploads, worker_thread, pcm, events, grpc, cancel, liaison>>

\* The loop finds itself cancelled, or one of its deadlines over.
GiveUp ==
  /\ loop_stage = "turning"
  /\ loop_stage' = "closing" /\ session_end' = "failed"
  /\ UNCHANGED <<execution_mode, uploads, worker_thread, shown, pcm, events, turn_vars, grpc,
                 cancel, liaison>>

\* The other tasks are cancelled; asyncio.run waits for the thread that reads
\* the stream, which sees the cancellation with its next response.
CancelTasks ==
  /\ loop_stage = "closing"
  /\ loop_stage' = "joining"
  /\ cancel' = (cancel \/ ~GrpcOver)
  /\ sender' = None /\ control' = None /\ event_task' = None
  /\ UNCHANGED <<execution_mode, uploads, worker_thread, shown, pcm, session_end, mic_started,
                 events, terminal, grpc, liaison>>

\* _run: how the session ended is shown, unless it is no Exception.
Report ==
  /\ loop_stage = "joining" /\ GrpcOver
  /\ loop_stage' = "wiping"
  /\ shown' = CASE session_end = "failed" -> "failed"
                [] session_end = "complete" /\ shown \notin Terminal -> "completed"
                [] OTHER -> shown
  /\ UNCHANGED <<execution_mode, uploads, worker_thread, pcm, session_end, events, turn_vars,
                 grpc, cancel, liaison>>

Wipe ==
  /\ loop_stage = "wiping"
  /\ pcm' = "wiped" /\ worker_thread' = "dead" /\ loop_stage' = "off"
  /\ UNCHANGED <<execution_mode, uploads, shown, session_end, events, turn_vars, grpc, cancel,
                 liaison>>

VoiceInit ==
  /\ execution_mode \in {"preview", "live"} /\ uploads = 0
  /\ worker_thread = "none" /\ shown = "idle" /\ pcm = "none"
  /\ loop_stage = "off" /\ session_end = None
  /\ mic_started = FALSE /\ sender = None /\ control = None
  /\ events = <<>> /\ event_task = None /\ terminal = FALSE
  /\ grpc = "off" /\ cancel = FALSE /\ liaison = Unsent

VoiceNext ==
  \/ Submit \/ Close
  \/ OpenStream \/ BreakStream \/ EndStream \/ SendEvent \/ SendControl
  \/ ConnectBridge \/ TakeEvent \/ SendPcm \/ LoopTurn \/ GiveUp \/ CancelTasks
  \/ Report \/ Wipe

VoiceSpec == VoiceInit /\ [][VoiceNext]_voice_vars

-----------------------------------------------------------------------------

\* When the thread of a session is over nothing of it is left: the recording is
\* wiped and no stream of Liaison is open.  It is shown as ended, unless a
\* mic_stop cancelled its sender; shown as completed, Liaison has ended it, with
\* SESSION_DONE, and in the preview no executable plan came before that that the
\* queue did not have to drop.
VoiceEndIsTrue ==
  worker_thread = "dead" =>
    /\ pcm = "wiped" /\ GrpcOver
    /\ session_end # "cancelled" =>
         /\ shown \in Terminal
         /\ shown = "completed" =>
              /\ grpc = "ok" /\ liaison.done
              /\ execution_mode = "preview" => ~liaison.plan \/ liaison.dropped
=============================================================================
