---------------------------- MODULE MC_DaemonCore ----------------------------
(* Packets for model checking DaemonCore.                                     *)
EXTENDS DaemonCore

CONSTANT MaxSequence    \* bound on the sequence numbers of one connection

WellFormed(op, sequence, velocity) ==
  [op |-> op, sequence |-> sequence, velocity |-> velocity,
   sealed |-> TRUE, age |-> 0, lifetime |-> MaxLifetime]

\* Every command a controller builds with MakeCommand, ...
GoodPackets ==
  {WellFormed(op, n, "zero") : op \in CommandOp, n \in 1..MaxSequence}
    \cup {WellFormed("Move", n, v) : n \in 1..MaxSequence,
                                    v \in {"inside", "outside"}}

\* ... and one packet for each reason to reject one.
BadPackets ==
  LET move == WellFormed("Move", MaxSequence, "inside")
  IN {[move EXCEPT !.sealed = FALSE], [move EXCEPT !.velocity = "nan"],
      [move EXCEPT !.age = NoStamp], [move EXCEPT !.age = MaxLifetime + 1],
      [move EXCEPT !.lifetime = -1], [move EXCEPT !.lifetime = MaxLifetime + 1],
      [move EXCEPT !.op = "Ping"]}

MCPackets == GoodPackets \cup BadPackets

=============================================================================
