--------------------------- MODULE MotionSupervisor ---------------------------
(***************************************************************************)
(* What the chassis promises about motion, without packets, sockets, loops *)
(* or SDK calls: at most one controller holds the arm, only the controller *)
(* that holds it moves the robot, and whatever is still moving when the    *)
(* arm is gone stays behind a latch that nothing but a stop opens.         *)
(*                                                                         *)
(* SportDaemon implements it, see there.                                   *)
(***************************************************************************)

CONSTANTS
  Operator,      \* whoever may ask for the arm
  Nothing           \* nobody

VARIABLES
  owner,         \* who holds the arm
  driver,        \* who made the robot move, Nothing once it is stopped
  latched        \* a fault is latched

supervisor_vars == <<owner, driver, latched>>

\* The arm is never taken from somebody who holds it.
Arm(c) ==
  /\ ~latched /\ owner \in {Nothing, c}
  /\ owner' = c
  /\ UNCHANGED <<driver, latched>>

Drive(c) ==
  /\ ~latched /\ owner = c
  /\ driver' = c
  /\ UNCHANGED <<owner, latched>>

Halt ==
  /\ driver' = Nothing
  /\ UNCHANGED <<owner, latched>>

Disarm ==
  /\ owner' = Nothing /\ driver' = Nothing
  /\ UNCHANGED latched

\* Something failed: a stop, which may leave the robot moving, or a command of
\* the owner, which may have reached the robot all the same.
Fault ==
  /\ owner' = Nothing
  /\ latched' = TRUE
  /\ driver' \in {Nothing, driver, owner}

\* The only way out of the latch: a disarm with a confirmed stop.
Release ==
  /\ owner' = Nothing /\ driver' = Nothing
  /\ latched' = FALSE

Init == owner = Nothing /\ driver = Nothing /\ latched = FALSE

Next ==
  \/ \E c \in Operator : Arm(c) \/ Drive(c)
  \/ Halt \/ Disarm \/ Fault \/ Release

Spec == Init /\ [][Next]_supervisor_vars

-----------------------------------------------------------------------------

\* What moves is driven by the owner of the arm, or latched; the latch and the
\* arm exclude each other.
MotionIsOwned ==
  /\ driver # Nothing => latched \/ driver = owner
  /\ latched => owner = Nothing

=============================================================================
