----------------------------- MODULE MC_LiveParts -----------------------------
(* Three components that do not share state and whose promises are about what  *)
(* happens eventually too, checked in one run: a behaviour is one of them, and  *)
(* the others keep their initial state.                                         *)
EXTENDS SafetyGuard, StagedGuard, RobotTrack

VARIABLE part   \* the component this behaviour runs

\* Velocities of SafetyGuard: reverse, zero, a reachable speed and one above
\* the limit.
MCCommands == {-1, 0, 1, MaxSpeed + 1}

Parts == {"guard", "staged", "track"}

Init ==
  /\ part \in Parts
  /\ GuardInit
  /\ StagedInit
  /\ TrackInit
  /\ part # "staged" => stage = "spin"
  /\ part # "track" => target = 1

GuardPart ==
  /\ part = "guard"
  /\ GuardNext
  /\ UNCHANGED <<part, staged_vars, track_vars>>

StagedPart ==
  /\ part = "staged"
  /\ StagedNext
  /\ UNCHANGED <<part, guard_vars, track_vars>>

TrackPart ==
  /\ part = "track"
  /\ TrackNext
  /\ UNCHANGED <<part, guard_vars, staged_vars>>

Next == GuardPart \/ StagedPart \/ TrackPart

all_vars == <<part, guard_vars, staged_vars, track_vars>>

Spec ==
  /\ Init /\ [][Next]_all_vars
  /\ WF_guard_vars(part = "guard" /\ Tick)
  /\ WF_guard_vars(part = "guard" /\ TimePasses)
  /\ WF_staged_vars(part = "staged" /\ Ending)
  /\ WF_staged_vars(part = "staged" /\ (SessionOver /\ Stop))

==============================================================================
