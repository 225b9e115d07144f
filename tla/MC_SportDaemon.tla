---------------------------- MODULE MC_SportDaemon ----------------------------
(* Packets for model checking SportDaemon: the commands of a session, at every *)
(* age they can reach in the socket.                                           *)
EXTENDS SportDaemon, TLC

CONSTANT Operations    \* the commands the controllers use

MCPackets ==
  [op: Operations, sequence: 1..MaxCommands,
   velocity: {"zero"}, sealed: {TRUE}, age: 0..(MaxLifetime + 1),
   lifetime: {MaxLifetime}]
  \cup
  [op: {"Move"} \cap Operations, sequence: 1..MaxCommands,
   velocity: {"inside"}, sealed: {TRUE}, age: 0..(MaxLifetime + 1),
   lifetime: {MaxLifetime}]

Symmetry == Permutations(Session)

\* The SportModeState streams only matter to sport actions.
StreamsAreLost == ~state_fresh

=============================================================================
