----------------------------- MODULE DashboardFeed -----------------------------
(***************************************************************************)
(* What the operator sees of one topic: packages/go2_dashboard, state.py   *)
(* (DashboardState), the handlers of ros_bridge.py, the routes of web.py   *)
(* and the page they serve.                                                *)
(*                                                                         *)
(* The entries of the state do not affect each other, so a behaviour       *)
(* follows one of them.  The ROS thread writes it and the web server reads *)
(* it, each under the state's lock: a step is one such use.  The page      *)
(* polls the status and then asks for the picture the status speaks of.    *)
(* The dashboard may be started anew while the page stays open.            *)
(***************************************************************************)
EXTENDS Integers

CONSTANTS
  StaleAfter,    \* stale_after_s of a topic that has one
  MaxDrift,      \* bound on the stamp of a pose against the receiver's clock
  MaxFrames,     \* bound on the messages of one process
  MaxStarts,     \* bound on the processes
  NoFrame

ASSUME FeedAssumption ==
  StaleAfter \in Nat /\ MaxDrift \in Nat /\ MaxFrames \in Nat /\ MaxStarts \in Nat \ {0}

VARIABLES
  topic,         \* the kind of the topic
  started,       \* number of the dashboard process
  bridge,        \* set_bridge: the ROS thread
  paused,        \* a preview was taken less than its period ago
  seen_age,      \* time since last_seen_monotonic
  drift,         \* source_age_s_at_receipt, signed
  sequence,      \* sequence of the topic's health
  failed,        \* its error is not empty
  payload,       \* the frame the metadata describe
  image,         \* the encoded picture: _camera_jpeg or _map_png
  page,          \* the last status the page has rendered
  asked,         \* the sequence the page last asked a picture for
  loading,       \* ... whose answer is still to come
  shown          \* the picture on the page

health == <<seen_age, drift, sequence, failed>>
server == <<started, bridge, paused, health, payload, image>>
browser == <<page, asked, loading, shown>>
feed_vars == <<topic, server, browser>>

-----------------------------------------------------------------------------
(* Topics.  "camera" is any of the three previews, "lidar" a scan or a cloud, *)
(* "report" the odometry, the navigation status or the calibration.           *)

Topics == {"camera", "lidar", "map", "pose_map", "report"}

Paced == topic \in {"camera", "lidar"}
Pictured == topic \in {"camera", "map"}
Expires == topic # "map"

Frame(process, n) == [process |-> process, sequence |-> n]

\* The clock of an entry stops where nothing can tell its age from a larger one.
MaxAge == StaleAfter + 1

Abs(n) == IF n < 0 THEN -n ELSE n

\* source_freshness_bound, which is never below the receipt age.
FreshnessBound == Abs(drift) + seen_age

\* The state snapshot() gives the entry.
State ==
  CASE failed -> "error"
    [] ~failed /\ sequence = 0 -> "missing"
    [] ~failed /\ sequence # 0 /\ (~Expires \/ FreshnessBound <= StaleAfter) -> "fresh"
    [] OTHER -> "stale"

PageStatus == [connected |-> bridge = "connected", state |-> State, frame |-> payload]

-----------------------------------------------------------------------------
(* The dashboard process                                                     *)

FreshProcess ==
  /\ bridge' = "starting" /\ paused' = FALSE
  /\ seen_age' = 0 /\ drift' = 0 /\ sequence' = 0 /\ failed' = FALSE
  /\ payload' = NoFrame /\ image' = NoFrame

FeedInit ==
  /\ topic \in Topics
  /\ started = 1 /\ bridge = "starting" /\ paused = FALSE
  /\ seen_age = 0 /\ drift = 0 /\ sequence = 0 /\ failed = FALSE
  /\ payload = NoFrame /\ image = NoFrame
  /\ page = [connected |-> FALSE, state |-> "missing", frame |-> NoFrame]
  /\ asked = -1 /\ loading = FALSE /\ shown = NoFrame

\* The provider stops its child process and starts another one.
StartAnew ==
  /\ started < MaxStarts /\ started' = started + 1
  /\ FreshProcess
  /\ UNCHANGED <<topic, browser>>

BridgeConnects ==
  /\ bridge = "starting" /\ bridge' = "connected"
  /\ UNCHANGED <<topic, started, paused, health, payload, image, browser>>

\* _run ends, with an error or with its context: nobody starts it again.
BridgeEnds ==
  /\ bridge # "down" /\ bridge' = "down"
  /\ UNCHANGED <<topic, started, paused, health, payload, image, browser>>

FeedAges ==
  /\ sequence > 0 /\ seen_age < MaxAge /\ seen_age' = seen_age + 1
  /\ UNCHANGED <<topic, started, bridge, paused, drift, sequence, failed, payload, image,
                 browser>>

\* camera_period_s or lidar_period_s is over.
PeriodEnds ==
  /\ paused /\ paused' = FALSE
  /\ UNCHANGED <<topic, started, bridge, health, payload, image, browser>>

-----------------------------------------------------------------------------
(* A message of the topic                                                    *)

\* observe: whatever was wrong before is forgotten.
ObserveTopic(source_age) ==
  /\ sequence < MaxFrames /\ sequence' = sequence + 1
  /\ seen_age' = 0 /\ drift' = source_age /\ failed' = FALSE
  /\ payload' = Frame(started, sequence + 1)

ObserveOnly(source_age) == ObserveTopic(source_age) /\ UNCHANGED image

\* set_camera_stream and set_map store the picture under the same lock.
StorePicture == ObserveTopic(0) /\ image' = payload'

\* note_error, for a message that cannot be decoded: the last good one stays.
NoteError ==
  /\ failed' = TRUE
  /\ UNCHANGED <<seen_age, drift, sequence, payload, image>>

\* The camera handlers: a preview that comes too soon is dropped unread.
OnPreview ==
  /\ topic = "camera" /\ bridge = "connected" /\ ~paused
  /\ paused' = TRUE
  /\ StorePicture \/ NoteError
  /\ UNCHANGED <<topic, started, bridge, browser>>

\* _on_scan and _on_cloud
OnLidar ==
  /\ topic = "lidar" /\ bridge = "connected" /\ ~paused
  /\ paused' = TRUE
  /\ ObserveOnly(0) \/ NoteError
  /\ UNCHANGED <<topic, started, bridge, browser>>

\* _on_camera_status: bad diagnostics are an error of the camera.
OnCameraStatus ==
  /\ topic = "camera" /\ bridge = "connected"
  /\ NoteError
  /\ UNCHANGED <<topic, started, bridge, paused, browser>>

OnMap ==
  /\ topic = "map" /\ bridge = "connected"
  /\ StorePicture \/ NoteError
  /\ UNCHANGED <<topic, started, bridge, paused, browser>>

\* _on_map_pose, the one handler that reads the stamp of the source.
OnMapPose ==
  /\ topic = "pose_map" /\ bridge = "connected"
  /\ \/ \E source_age \in -MaxDrift..MaxDrift : ObserveOnly(source_age)
     \/ NoteError
  /\ UNCHANGED <<topic, started, bridge, paused, browser>>

\* _on_odom, _on_nav_status and _on_d435i_camera_info
OnReport ==
  /\ topic = "report" /\ bridge = "connected"
  /\ ObserveOnly(0) \/ NoteError
  /\ UNCHANGED <<topic, started, bridge, paused, browser>>

-----------------------------------------------------------------------------
(* The page                                                                  *)

\* refresh and render: a picture is asked for when the sequence has changed.
\* That of the map is taken off meanwhile.
Refresh ==
  /\ page' = PageStatus
  /\ IF Pictured /\ payload # NoFrame /\ payload.sequence # asked
     THEN /\ asked' = payload.sequence /\ loading' = TRUE
          /\ shown' = IF topic = "map" THEN NoFrame ELSE shown
     ELSE UNCHANGED <<asked, loading, shown>>
  /\ UNCHANGED <<topic, server>>

\* Mutant of Served: the server sends whatever picture it has.
ServedAny == image

\* The answer to ?sequence=asked: 503 and 409 carry no picture.
Served == IF image # NoFrame /\ image.sequence = asked THEN image ELSE NoFrame

\* onload or onerror; the request may also fail on its way.
Load ==
  /\ loading /\ loading' = FALSE
  /\ shown' \in {Served, NoFrame}
  /\ UNCHANGED <<topic, server, page, asked>>

FeedNext ==
  \/ StartAnew \/ BridgeConnects \/ BridgeEnds \/ FeedAges \/ PeriodEnds
  \/ OnPreview \/ OnLidar \/ OnCameraStatus \/ OnMap \/ OnMapPose \/ OnReport
  \/ Refresh \/ Load

FeedSpec == FeedInit /\ [][FeedNext]_feed_vars

-----------------------------------------------------------------------------
(* Properties *)

Frames == [process : 1..MaxStarts, sequence : 1..MaxFrames]

\* Types of the entry and of the page.
FeedTypeOK ==
  /\ topic \in Topics /\ started \in 1..MaxStarts
  /\ bridge \in {"starting", "connected", "down"}
  /\ paused \in BOOLEAN /\ failed \in BOOLEAN /\ loading \in BOOLEAN
  /\ seen_age \in 0..MaxAge /\ drift \in -MaxDrift..MaxDrift /\ sequence \in 0..MaxFrames
  /\ payload \in Frames \cup {NoFrame} /\ image \in Frames \cup {NoFrame}
  /\ page \in [connected : BOOLEAN, state : {"error", "missing", "fresh", "stale"},
               frame : Frames \cup {NoFrame}]
  /\ asked \in {-1} \cup 1..MaxFrames /\ shown \in Frames \cup {NoFrame}

\* Only a new message makes a topic fresh: no passage of time does, nor a clock
\* that catches up with a stamp ahead of it (state.py: "A source timestamp ahead
\* of the receiver clock must not make an already-stale observation become
\* fresh as wall time catches up").
FreshIsEarned ==
  [][State # "fresh" /\ State' = "fresh" => sequence' = sequence + 1]_feed_vars

\* The picture beside the metadata is the one they describe: a picture that is
\* not being replaced was taken from the very message the page tells of, however
\* many came between the status and the picture (the 409 of the routes).  A
\* restarted process counts anew, so this is said of pictures of one process.
PictureIsOfItsMetadata ==
  shown # NoFrame /\ page.frame # NoFrame /\ ~loading
  /\ shown.process = page.frame.process => shown = page.frame

=============================================================================
