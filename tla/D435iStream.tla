---------------------------- MODULE D435iStream ------------------------------
(* The D435i stream of deploy/jetson-d435i-readonly/d435i_ssh_stream_bridge.py: *)
(* the producer on the Orin captures, decimates, encodes and writes packets to  *)
(* its standard output; ssh carries the bytes; the publisher on the workstation *)
(* reads a packet, checks it and publishes camera info, colour and depth.       *)
(* The protocol does not trust the bytes: on the way a part of a packet may be  *)
(* damaged, and a packet may be lost or repeated.                               *)
EXTENDS Naturals, Sequences, SequencesExt

CONSTANTS
  Decimation,    \* hardware frames to one published frame
  MaxCaptured,     \* bound on the hardware frames of a behaviour
  PipeDepth,     \* packets that fit between the two processes
  MaxFaults      \* bound on the damages, losses and repetitions on the way

ASSUME StreamAssumption ==
  /\ Decimation \in Nat \ {0}
  /\ MaxCaptured \in Nat
  /\ PipeDepth \in Nat \ {0}
  /\ MaxFaults \in Nat

VARIABLES
  producer,    \* the process on the Orin
  wire,        \* the byte stream, packet by packet
  publisher,   \* the process on the workstation
  topics,      \* what each topic carried last
  captured     \* history: the frame of each set that was written

stream_vars == <<producer, wire, publisher, topics, captured>>

SensorTopics == {"info", "rgb", "depth"}

\* The parts of a packet; "tail" is missing when a write was cut short.
Parts_of_packet == {"prefix", "header", "jpeg", "depth", "tail"}

NoImage == [number |-> 0, frame |-> 0, damage |-> {}]

FramePackets == [number : Nat, frame : Nat, damage : SUBSET Parts_of_packet]

StreamInit ==
  /\ producer = [at |-> "start", camera |-> FALSE, stop |-> FALSE,
                 frame_index |-> 0, sequence |-> 0]
  /\ wire = [packets |-> <<>>, writer |-> TRUE, reader |-> TRUE, faults |-> 0]
  /\ publisher = [at |-> "read", stop |-> FALSE, expected |-> 0, previous |-> 0,
                  packet |-> NoImage]
  /\ topics = [t \in SensorTopics |-> NoImage]
  /\ captured = <<>>

-----------------------------------------------------------------------------
(* The producer *)

should_publish_frame(frame_index) == frame_index % Decimation = 0

\* However the loop is left, the camera is stopped and the output is closed.
ProducerEnds(outcome, packets) ==
  /\ producer' = [producer EXCEPT !.at = outcome, !.camera = FALSE]
  /\ wire' = [wire EXCEPT !.writer = FALSE, !.packets = packets]

StartCamera ==
  /\ producer.at = "start"
  /\ \/ /\ producer' = [producer EXCEPT !.at = "capture", !.camera = TRUE]
        /\ UNCHANGED wire
     \/ ProducerEnds("failed", wire.packets)   \* no camera, not a D435i, another scale
  /\ UNCHANGED <<publisher, topics, captured>>

\* One turn of the loop up to the packet: a frame is waited for, and every
\* Decimation-th one is aligned and encoded.
CaptureFrame ==
  /\ producer.at = "capture"
  /\ ~producer.stop
  /\ producer.frame_index < MaxCaptured
  /\ \/ /\ producer' = [producer EXCEPT
             !.frame_index = @ + 1,
             !.at = IF should_publish_frame(producer.frame_index) THEN "write"
                    ELSE "capture"]
        /\ UNCHANGED wire
     \/ ProducerEnds("failed", wire.packets)   \* no frame, half a frame, too much memory
  /\ UNCHANGED <<publisher, topics, captured>>

encode_packet ==
  [number |-> producer.sequence, frame |-> producer.frame_index, damage |-> {}]

WritePacket ==
  /\ producer.at = "write"
  /\ \/ /\ wire.reader /\ Len(wire.packets) < PipeDepth
        /\ wire' = [wire EXCEPT !.packets = Append(@, encode_packet)]
        /\ producer' = [producer EXCEPT !.at = "capture", !.sequence = @ + 1]
        /\ captured' = Append(captured, producer.frame_index)
     \/ /\ ~wire.reader                        \* BrokenPipeError
        /\ ProducerEnds("ended", wire.packets)
        /\ UNCHANGED captured
  /\ UNCHANGED <<publisher, topics>>

\* The write is not buffered: a signal that arrives while it waits for the reader
\* leaves a part of the packet on the stream, and the loop ends.
WriteIsCut ==
  /\ producer.at = "write"
  /\ producer.stop /\ wire.reader
  /\ ProducerEnds("ended", Append(wire.packets, [encode_packet EXCEPT !.damage = {"tail"}]))
  /\ UNCHANGED <<publisher, topics, captured>>

StopProducer ==
  /\ producer.at \in {"capture", "write"}
  /\ ~producer.stop
  /\ producer' = [producer EXCEPT !.stop = TRUE]
  /\ UNCHANGED <<wire, publisher, topics, captured>>

ProducerStops ==
  /\ producer.at = "capture"
  /\ producer.stop
  /\ ProducerEnds("ended", wire.packets)
  /\ UNCHANGED <<publisher, topics, captured>>

-----------------------------------------------------------------------------
(* The way to the workstation *)

Damaged(packet, part) == [packet EXCEPT !.damage = @ \union {part}]

Disturb ==
  /\ wire.faults < MaxFaults
  /\ \E i \in DOMAIN wire.packets :
       \/ \E part \in Parts_of_packet \ {"tail"} :
            wire' = [wire EXCEPT !.packets = ReplaceAt(@, i, Damaged(@[i], part)),
                                 !.faults = @ + 1]
       \/ wire' = [wire EXCEPT !.packets = RemoveAt(@, i), !.faults = @ + 1]
       \/ wire' = [wire EXCEPT !.packets = InsertAt(@, i, @[i]), !.faults = @ + 1]
  /\ UNCHANGED <<producer, publisher, topics, captured>>

-----------------------------------------------------------------------------
(* The publisher *)

PublisherEnds(outcome, packets) ==
  /\ publisher' = [publisher EXCEPT !.at = outcome, !.packet = NoImage]
  /\ wire' = [wire EXCEPT !.reader = FALSE, !.packets = packets]

\* Mutant of PacketIsSound: the depth part is not covered by a checksum.
PacketIsSoundButDepth(packet) == packet.damage \subseteq {"depth"}

\* read_packet: magic, version and lengths, then the checksum of each part.
PacketIsSound(packet) == packet.damage = {}

validate_header(packet) ==
  /\ packet.number = publisher.expected
  /\ packet.frame > publisher.previous

ReadPacket ==
  /\ publisher.at = "read"
  /\ wire.packets # <<>>
  /\ LET packet == Head(wire.packets) IN
       \/ /\ ~(PacketIsSound(packet) /\ validate_header(packet))
          /\ PublisherEnds("failed", Tail(wire.packets))
       \/ /\ PacketIsSound(packet) /\ validate_header(packet)
          /\ publisher' = [publisher EXCEPT !.at = "info", !.packet = packet]
          /\ wire' = [wire EXCEPT !.packets = Tail(@)]
       \/ PublisherEnds("failed", Tail(wire.packets))   \* a layout error, too much memory
  /\ UNCHANGED <<producer, topics, captured>>

\* The end of the stream is an error unless a stop was asked for.
ReadEnd ==
  /\ publisher.at = "read"
  /\ wire.packets = <<>> /\ ~wire.writer
  /\ PublisherEnds(IF publisher.stop THEN "ended" ELSE "failed", <<>>)
  /\ UNCHANGED <<producer, topics, captured>>

\* A stop is looked at before the read and once more before the set is
\* published; a read that waits goes on waiting.
PublisherStops ==
  /\ publisher.at \in {"read", "info"}
  /\ publisher.stop
  /\ PublisherEnds("ended", wire.packets)
  /\ UNCHANGED <<producer, topics, captured>>

PublishOn(topic, next) ==
  /\ publisher.at = topic
  /\ topics' = [topics EXCEPT ![topic] = publisher.packet]
  /\ publisher' = [publisher EXCEPT !.at = next]
  /\ UNCHANGED <<producer, wire, captured>>

PublishInfo == PublishOn("info", "rgb")

PublishRgb == PublishOn("rgb", "depth")

PublishDepth ==
  /\ publisher.at = "depth"
  /\ topics' = [topics EXCEPT !["depth"] = publisher.packet]
  /\ publisher' = [publisher EXCEPT !.at = "read", !.packet = NoImage,
                                    !.expected = @ + 1,
                                    !.previous = publisher.packet.frame]
  /\ UNCHANGED <<producer, wire, captured>>

StopPublisher ==
  /\ publisher.at \in {"read", "info", "rgb", "depth"}
  /\ ~publisher.stop
  /\ publisher' = [publisher EXCEPT !.stop = TRUE]
  /\ UNCHANGED <<producer, wire, topics, captured>>

StreamOver ==
  /\ producer.at \in {"ended", "failed"} /\ publisher.at \in {"ended", "failed"}
  /\ UNCHANGED stream_vars

StreamNext ==
  \/ StartCamera \/ CaptureFrame \/ WritePacket \/ WriteIsCut
  \/ StopProducer \/ ProducerStops
  \/ Disturb
  \/ ReadPacket \/ ReadEnd \/ PublisherStops
  \/ PublishInfo \/ PublishRgb \/ PublishDepth \/ StopPublisher
  \/ StreamOver

StreamSpec == StreamInit /\ [][StreamNext]_stream_vars

-----------------------------------------------------------------------------
(* Properties *)

StreamTypeOK ==
  /\ producer \in [at : {"start", "capture", "write", "ended", "failed"},
                   camera : BOOLEAN, stop : BOOLEAN,
                   frame_index : Nat, sequence : Nat]
  /\ captured \in Seq(Nat)
  /\ wire \in [packets : Seq(FramePackets), writer : BOOLEAN, reader : BOOLEAN,
               faults : Nat]
  /\ publisher \in [at : {"read", "info", "rgb", "depth", "ended", "failed"},
                    stop : BOOLEAN, expected : Nat, previous : Nat, packet : FramePackets]
  /\ topics \in [SensorTopics -> FramePackets]

\* The n-th set that was written, counted from 1, as the camera took it.
CapturedSet(n) ==
  IF n = 0 THEN NoImage
  ELSE [number |-> n - 1, frame |-> captured[n], damage |-> {}]

\* The sets a topic has carried: the one that is being published is counted on
\* the topics it has reached.
SetsOn(topic) ==
  publisher.expected
    + IF \/ topic = "info" /\ publisher.at \in {"rgb", "depth"}
         \/ topic = "rgb" /\ publisher.at = "depth"
      THEN 1 ELSE 0

\* Camera info, colour and depth on the workstation are always those of one and
\* the same captured set, undamaged, and the sets follow the capture one by one:
\* whatever happens to the bytes, the publisher rather ends than skips, repeats
\* or mixes frames (read_packet and the sequence check of
\* run_workstation_publisher).
FramesAreWhole ==
  \A topic \in SensorTopics :
    /\ SetsOn(topic) <= Len(captured)
    /\ topics[topic] = CapturedSet(SetsOn(topic))

=============================================================================
