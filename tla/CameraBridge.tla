----------------------------- MODULE CameraBridge -----------------------------
(***************************************************************************)
(* The front camera: go2_camera_daemon (camera_daemon.cpp), its stream     *)
(* socket, and CameraBridgeNode (camera_bridge_node.cpp) with a reader     *)
(* thread that connects and receives, a LatestFrameMailbox of one frame,   *)
(* and a processor thread that decodes and publishes.  A frame is named by *)
(* the generation of its connection and its sequence number; what arrives  *)
(* from the daemon out of order or malformed ends the connection, as a     *)
(* read that times out does.  Time passes while a JPEG is decoded and      *)
(* while the reader waits to reconnect, never between the last look at a   *)
(* frame and its publication.                                              *)
(***************************************************************************)
EXTENDS Ages, Sequences

CONSTANTS
  FrameAge,       \* max_frame_age_ms
  Connections,    \* bounds: connection generations,
  Records         \* records a daemon sends

ASSUME CameraAssumption == FrameAge \in Nat

TooOld == FrameAge + 1

VARIABLES
  wire,           \* the records in the socket
  record_sequence,        \* of the daemon
  reader,         \* worker_loop: connecting, opened, reading, ended, waiting
  generation,     \* next_connection_generation - 1
  active_connection,      \* active_connection_generation_, 0 for none
  mailbox,        \* latest_frame_
  processor,      \* processor_loop: idle, decoding, publishing, published
  in_hand,        \* the frame it has taken
  connected,      \* of CameraRuntimeState
  last_error,     \* CameraErrorWatermark
  running,
  shown           \* history: the frame published last

reader_vars == <<reader, generation, active_connection>>
processor_vars == <<processor, in_hand, shown>>
camera_state == <<connected, last_error>>
bridge_vars == <<wire, record_sequence, reader_vars, mailbox, processor_vars, camera_state, running>>

NoImage == [generation |-> 0, sequence |-> 0, age |-> NoStamp]

NoError == [scope |-> "none", generation |-> 0, sequence |-> 0]
ConnectionError == [NoError EXCEPT !.scope = "connection"]

\* The order of (connection generation, record sequence).
Before(g, s, h, t) == g < h \/ (g = h /\ s < t)

\* record_stream_error
Noted(g, s) ==
  IF \/ last_error.scope = "connection"
     \/ last_error.scope = "record" /\ ~Before(last_error.generation, last_error.sequence, g, s)
  THEN last_error
  ELSE [scope |-> "record", generation |-> g, sequence |-> s]

-----------------------------------------------------------------------------
(* The daemon *)

\* stream_camera: a JPEG, or a status record for a failed call or a bad JPEG.
SendRecord ==
  /\ reader \in {"opened", "reading"}
  /\ record_sequence <= Records /\ Len(wire) < 2
  /\ \E image, trouble \in BOOLEAN :
       /\ image \/ trouble
       /\ wire' = Append(wire, [sequence |-> record_sequence, age |-> 0,
                                image |-> image, trouble |-> trouble])
  /\ record_sequence' = record_sequence + 1
  /\ UNCHANGED <<reader_vars, mailbox, processor_vars, camera_state, running>>

\* A new daemon counts its records from one.
RestartDaemon ==
  /\ reader \in {"connecting", "waiting"} /\ record_sequence > 1
  /\ record_sequence' = 1
  /\ UNCHANGED <<wire, reader_vars, mailbox, processor_vars, camera_state, running>>

-----------------------------------------------------------------------------
(* The reader *)

ByReader == UNCHANGED <<record_sequence, processor_vars, running>>

\* connect_daemon, and the state under the lock.
Connect ==
  /\ reader = "connecting" /\ running
  /\ generation < Connections
  /\ generation' = generation + 1
  /\ connected' = TRUE /\ last_error' = NoError
  /\ reader' = "opened"
  /\ ByReader /\ UNCHANGED <<wire, active_connection, mailbox>>

ConnectFails ==
  /\ reader = "connecting" /\ running
  /\ connected' = FALSE /\ last_error' = ConnectionError
  /\ reader' = "waiting"
  /\ ByReader /\ UNCHANGED <<wire, generation, active_connection, mailbox>>

ActivateConnection ==
  /\ reader = "opened"
  /\ active_connection' = generation
  /\ reader' = "reading"
  /\ ByReader /\ UNCHANGED <<wire, generation, mailbox, camera_state>>

\* receive_frames: update_daemon_stats, then the mailbox.
Receive ==
  /\ reader = "reading" /\ running /\ wire # <<>>
  /\ LET record == Head(wire)
     IN  /\ last_error' = IF record.trouble THEN Noted(generation, record.sequence)
                          ELSE last_error
         /\ mailbox' = IF record.image
                       THEN [generation |-> generation, sequence |-> record.sequence,
                             age |-> record.age]
                       ELSE mailbox
  /\ wire' = Tail(wire)
  /\ ByReader /\ UNCHANGED <<reader_vars, connected>>

\* A read that fails or times out, or a record that is refused.
ReadFails ==
  /\ reader = "reading"
  /\ IF running THEN connected' = FALSE /\ last_error' = ConnectionError
                ELSE UNCHANGED camera_state
  /\ reader' = "ended"
  /\ wire' = <<>>
  /\ ByReader /\ UNCHANGED <<generation, active_connection, mailbox>>

\* After receive_frames: the generation and its pending frame are given up.
Disconnect ==
  /\ reader = "ended"
  /\ active_connection' = 0
  /\ mailbox' = IF mailbox.generation = generation THEN NoImage ELSE mailbox
  /\ connected' = FALSE
  /\ last_error' = IF last_error = NoError THEN ConnectionError ELSE last_error
  /\ reader' = "waiting"
  /\ ByReader /\ UNCHANGED <<wire, generation>>

-----------------------------------------------------------------------------
(* The processor *)

ByProcessor ==
  UNCHANGED <<wire, record_sequence, reader_vars, running>>

Invalidated == ~running \/ active_connection # in_hand.generation

TakeFrame ==
  /\ processor = "idle" /\ mailbox # NoImage
  /\ in_hand' = mailbox
  /\ mailbox' = NoImage
  /\ processor' = "looking"
  /\ ByProcessor /\ UNCHANGED <<shown, camera_state>>

Drop == processor' = "idle" /\ in_hand' = NoImage

\* reject_frame
Reject ==
  /\ Drop
  /\ last_error' = IF connected /\ active_connection = in_hand.generation
                   THEN Noted(in_hand.generation, in_hand.sequence) ELSE last_error

\* frame_is_invalidated and frame_timestamp_is_fresh, before and after decoding.
Look(here, there) ==
  /\ processor = here
  /\ CASE Invalidated -> Drop /\ UNCHANGED last_error
       [] ~Invalidated /\ in_hand.age > FrameAge -> Reject
       [] OTHER -> processor' = there /\ UNCHANGED <<in_hand, last_error>>
  /\ ByProcessor /\ UNCHANGED <<mailbox, shown, connected>>

\* Mutant of LookAgain: decoding is not followed by another look.
LookNoMore ==
  /\ processor = "decoded"
  /\ processor' = "publishing"
  /\ UNCHANGED <<in_hand, last_error>>
  /\ ByProcessor /\ UNCHANGED <<mailbox, shown, connected>>

LookFirst == Look("looking", "decoding")
LookAgain == Look("decoded", "publishing")

\* decode_jpeg_strict and the dimensions.
Decode ==
  /\ processor = "decoding"
  /\ \/ processor' = "decoded" /\ UNCHANGED <<in_hand, last_error>>
     \/ Reject
  /\ ByProcessor /\ UNCHANGED <<mailbox, shown, connected>>

Publish ==
  /\ processor = "publishing"
  /\ shown' = in_hand
  /\ processor' = "published"
  /\ ByProcessor /\ UNCHANGED <<mailbox, in_hand, camera_state>>

\* clear_if_recovered_by
NoteRecovery ==
  /\ processor = "published"
  /\ Drop
  /\ last_error' =
       IF /\ connected /\ active_connection = in_hand.generation
          /\ last_error.scope = "record"
          /\ ~Before(in_hand.generation, in_hand.sequence,
                     last_error.generation, last_error.sequence)
       THEN NoError ELSE last_error
  /\ ByProcessor /\ UNCHANGED <<mailbox, shown, connected>>

\* The destructor.
StopBridge ==
  /\ running
  /\ running' = FALSE
  /\ active_connection' = 0
  /\ mailbox' = NoImage
  /\ UNCHANGED <<wire, record_sequence, reader, generation, processor_vars, camera_state>>

\* The wait before the next connection ends.
CameraTimePasses ==
  /\ processor # "publishing"
  /\ reader' = IF reader = "waiting" THEN "connecting" ELSE reader
  /\ wire' = [i \in 1..Len(wire) |-> [wire[i] EXCEPT !.age = Older(@, TooOld)]]
  /\ mailbox' = [mailbox EXCEPT !.age = Older(@, TooOld)]
  /\ in_hand' = [in_hand EXCEPT !.age = Older(@, TooOld)]
  /\ UNCHANGED <<record_sequence, generation, active_connection, processor, shown,
                 camera_state, running>>

-----------------------------------------------------------------------------

BridgeInit ==
  /\ wire = <<>> /\ record_sequence = 1
  /\ reader = "connecting" /\ generation = 0 /\ active_connection = 0
  /\ mailbox = NoImage
  /\ processor = "idle" /\ in_hand = NoImage /\ shown = NoImage
  /\ connected = FALSE /\ last_error = ConnectionError
  /\ running = TRUE

BridgeNext ==
  \/ SendRecord \/ RestartDaemon
  \/ Connect \/ ConnectFails \/ ActivateConnection \/ Receive \/ ReadFails \/ Disconnect
  \/ TakeFrame \/ LookFirst \/ LookAgain \/ Decode \/ Publish \/ NoteRecovery
  \/ StopBridge
  \/ CameraTimePasses

BridgeSpec == BridgeInit /\ [][BridgeNext]_bridge_vars

-----------------------------------------------------------------------------
(* Properties *)

\* What is published is younger than FrameAge, comes from the newest connection
\* and follows what was published before it: a decoder that is slow, a daemon
\* that restarts its numbers and a socket with old frames in it do not matter.
PublicationIsCurrent ==
  [][shown' # shown
       => /\ shown'.age <= FrameAge
          /\ shown'.generation = generation
          /\ Before(shown.generation, shown.sequence, shown'.generation, shown'.sequence)
    ]_bridge_vars

=============================================================================
