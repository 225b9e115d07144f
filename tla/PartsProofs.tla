------------------------------ MODULE PartsProofs ------------------------------
(***************************************************************************)
(* Theorems about the parts of the system that run beside one another:     *)
(*   - SemanticNavigation, for every number of calls, activations and      *)
(*     changes of the map;                                                 *)
(*   - SportActions, for every set of requests and plans;                 *)
(*   - RobotTrack, for every age a distance may have;                      *)
(*   - TrackLifecycle, the provider of RobotTrack, for every number of     *)
(*     runtimes;                                                           *)
(*   - CameraBridge, for every age a frame may have;                       *)
(*   - MotionRelay, for every set of writers, every period and limit;      *)
(*   - TargetEstimator, for every distance and every confirmation count;   *)
(*   - OdometryGate, for every age, sample count and set of markers.       *)
(***************************************************************************)
EXTENDS SemanticNavigation, SportActions, RobotTrack, TrackLifecycle, CameraBridge,
        MotionRelay, TargetEstimator, OdometryGate, FiniteSetTheorems, TLAPS

-----------------------------------------------------------------------------
(* Types: those the arguments below need. *)

Entry == [registered: BOOLEAN, attached: BOOLEAN, invalidated: BOOLEAN,
          cancel_started: BOOLEAN, remote_terminal: BOOLEAN, unstated: BOOLEAN]

ThreadTypes ==
  /\ nav \in [Run -> {"new", "admitted", "validated", "calling", "attached",
                     "accepted", "done", "failed"}]
  /\ monitor \in [Run -> {"off", "idle"} \cup Report]
  /\ asker \in [Run -> {"off"} \cup Report]
  /\ canceller \in [Run -> {"off", "status", "cancel", "expired", "keep",
                            "reopen", "over"}]
  /\ caller \in [Run -> {"off", "claiming", "calling"}]

Types ==
  /\ ThreadTypes
  /\ run \in [Run -> Entry]
  /\ goal \in [Run -> {"none", "requested", "refused", "active", "over"}]

\* A report ends an entry, or leaves it alone.
LEMMA UpdateRemoteFields ==
  ASSUME NEW u \in Entry, NEW heard
  PROVE  LET new == UpdateRemote(u, heard)
         IN  /\ new \in Entry
             /\ new.registered = u.registered /\ new.attached = u.attached
             /\ new.invalidated = u.invalidated
             /\ new.cancel_started = u.cancel_started
             /\ new.remote_terminal
                  = (u.remote_terminal \/ heard \in {"empty", "over"})
             /\ new.unstated
                  = (u.unstated \/ (heard = "empty" /\ ~u.remote_terminal))
  BY DEF UpdateRemote, Entry

\* Invalidation touches two fields of an entry and starts cancel workers.
LEMMA InvalidateFields ==
  ASSUME Types, InvalidateRuns
  PROVE  /\ run' \in [Run -> Entry]
         /\ canceller' \in [Run -> {"off", "status", "cancel", "expired",
                                     "keep", "reopen", "over"}]
         /\ \A r \in Run : /\ run'[r].registered = run[r].registered
                           /\ run'[r].attached = run[r].attached
                           /\ run'[r].remote_terminal = run[r].remote_terminal
                           /\ run'[r].unstated = run[r].unstated
                           /\ run'[r].invalidated
                                = (run[r].invalidated \/ Busy(r))
                           /\ run'[r].cancel_started
                                = (run[r].cancel_started
                                     \/ (Busy(r) /\ run[r].attached))
                           /\ canceller'[r] = IF Claimed(r) THEN "status"
                                              ELSE canceller[r]
<1> DEFINE marked_entry(r) == [run[r] EXCEPT !.invalidated = TRUE,
                                             !.cancel_started = @ \/ run[r].attached]
<1>1. run' = [r \in Run |-> IF Busy(r) THEN marked_entry(r) ELSE run[r]]
  BY DEF InvalidateRuns
<1>2. canceller' = [r \in Run |-> IF Claimed(r) THEN "status" ELSE canceller[r]]
  BY DEF InvalidateRuns
<1>3. ASSUME NEW r \in Run
      PROVE  /\ marked_entry(r) \in Entry
             /\ marked_entry(r).registered = run[r].registered
             /\ marked_entry(r).attached = run[r].attached
             /\ marked_entry(r).remote_terminal = run[r].remote_terminal
             /\ marked_entry(r).unstated = run[r].unstated
             /\ marked_entry(r).invalidated = TRUE
             /\ marked_entry(r).cancel_started
                  = (run[r].cancel_started \/ run[r].attached)
  <2>1. run[r] \in Entry
    BY DEF Types
  <2> QED
    BY <2>1 DEF Entry
<1> HIDE DEF marked_entry
<1>4. ASSUME NEW r \in Run
      PROVE  /\ run'[r] \in Entry
             /\ run'[r].registered = run[r].registered
             /\ run'[r].attached = run[r].attached
             /\ run'[r].remote_terminal = run[r].remote_terminal
             /\ run'[r].unstated = run[r].unstated
             /\ run'[r].invalidated = (run[r].invalidated \/ Busy(r))
             /\ run'[r].cancel_started
                  = (run[r].cancel_started \/ (Busy(r) /\ run[r].attached))
  <2>0. run[r] \in Entry
    BY DEF Types
  <2>1. CASE Busy(r)
    <3>1. run'[r] = marked_entry(r)
      BY <1>1, <2>1
    <3> QED
      BY <1>3, <2>0, <2>1, <3>1 DEF Entry
  <2>2. CASE ~Busy(r)
    <3>1. run'[r] = run[r]
      BY <1>1, <2>2
    <3> QED
      BY <2>0, <2>2, <3>1 DEF Entry
  <2> QED
    BY <2>1, <2>2
<1>5. run' \in [Run -> Entry]
  BY <1>1, <1>4
<1>6. canceller' \in [Run -> {"off", "status", "cancel", "expired", "keep",
                               "reopen", "over"}]
  BY <1>2 DEF Types, ThreadTypes
<1>7. \A r \in Run : canceller'[r] = IF Claimed(r) THEN "status" ELSE canceller[r]
  BY <1>2
<1> QED
  BY <1>4, <1>5, <1>6, <1>7

-----------------------------------------------------------------------------
(* One goal at a time. *)

Early(r) == nav[r] \in {"new", "admitted", "validated"}

\* Who holds an answer that the run is over.
ToldOver(r) == monitor[r] = "over" \/ asker[r] = "over" \/ canceller[r] = "over"

\* Who holds an answer that ends the run for the registry.
ToldEnded(r) == ToldOver(r) \/ monitor[r] = "empty" \/ asker[r] = "empty"

\* A call that has not reserved has left no trace; one whose request is out has
\* a busy run without an id; the goal of a run that is not busy is not
\* outstanding, unless the run ended on an empty state; an answer that a run is
\* over is true, and only a run with an id is answered for.
Honest(r) ==
  /\ Early(r) => /\ goal[r] = "none" /\ ~Over(r)
                 /\ ~run[r].registered /\ ~run[r].attached
  /\ At(r, "calling") => Busy(r) /\ ~run[r].attached
  /\ Outstanding(r) => Busy(r) \/ run[r].unstated
  /\ ToldOver(r) => goal[r] = "over"
  /\ ToldEnded(r) => run[r].attached

OneBusy == \A r, s \in Run : Busy(r) /\ Busy(s) => r = s

Flight == Types /\ (\A r \in Run : Honest(r)) /\ OneBusy

LEMMA FlightInit == NavInit => Flight
  BY DEF NavInit, Flight, Types, ThreadTypes, Entry, Honest, Early, At, Over, Busy,
     NoRun, Outstanding, ToldOver, ToldEnded, OneBusy

\* A step that touches neither the entries, nor the goals, nor the threads.
LEMMA FrameKeepsFlight ==
  ASSUME Flight, UNCHANGED <<nav, run, goal, monitor, asker, canceller, caller>>
  PROVE  Flight'
  BY DEF Flight, Types, ThreadTypes, Honest, Early, At, Over, Busy, Outstanding,
     ToldOver, ToldEnded, OneBusy

\* A step after which every entry says the same of its goal.
LEMMA SameEntriesKeepFlight ==
  ASSUME Flight, Types', UNCHANGED <<nav, goal, monitor, asker>>,
         \A r \in Run : /\ run'[r].registered = run[r].registered
                        /\ run'[r].attached = run[r].attached
                        /\ run'[r].remote_terminal = run[r].remote_terminal
                        /\ run'[r].unstated = run[r].unstated
                        /\ canceller'[r] = "over" => canceller[r] = "over"
  PROVE  Flight'
  BY DEF Flight, Honest, Early, At, Over, Busy, Outstanding, ToldOver, ToldEnded, OneBusy

LEMMA InvalidateKeepsFlight ==
  ASSUME Flight, InvalidateRuns, UNCHANGED <<nav, goal, monitor, asker, caller>>
  PROVE  Flight'
<1>1. Types' /\ \A r \in Run : canceller'[r] = "over" => canceller[r] = "over"
  BY InvalidateFields DEF Flight, Types, ThreadTypes
<1> QED
  BY <1>1, InvalidateFields, SameEntriesKeepFlight DEF Flight

\* A step of one call or one of its workers.
LEMMA OwnEntryKeepsFlight ==
  ASSUME Flight, Types', NEW r \in Run, Honest(r)',
         Busy(r)' => Busy(r) \/ \A s \in Run : ~Busy(s),
         \A s \in Run \ {r} :
           /\ run'[s] = run[s] /\ nav'[s] = nav[s] /\ goal'[s] = goal[s]
           /\ monitor'[s] = monitor[s] /\ asker'[s] = asker[s]
           /\ canceller'[s] = canceller[s]
  PROVE  Flight'
<1>1. ASSUME NEW s \in Run \ {r} PROVE Honest(s)' /\ Busy(s)' = Busy(s)
  BY <1>1 DEF Flight, Honest, Early, At, Over, Busy, Outstanding, ToldOver, ToldEnded
<1>2. OneBusy'
  BY <1>1 DEF Flight, OneBusy
<1> QED
  BY <1>1, <1>2 DEF Flight

\* navigate_landmark: the entry is made where no other run is busy, and given up
\* on the provider's refusal only.
LEMMA NavigateKeepsFlight ==
  ASSUME Flight, NEW r \in Run, Navigate(r)
  PROVE  Flight'
<1> USE DEF Goto, workers
<1>1. CASE Admit(r)
  BY <1>1 DEF Admit, provider, Flight, Types, ThreadTypes, Honest, Early, At, Over, Busy,
     Outstanding, ToldOver, ToldEnded, OneBusy
<1>2. CASE Validate(r)
  BY <1>2 DEF Validate, provider, Flight, Types, ThreadTypes, Honest, Early, At, Over, Busy,
     Outstanding, ToldOver, ToldEnded, OneBusy
<1>3. CASE Reserve(r)
  <2>1. CASE \E s \in Run : Busy(s)
    BY <1>3, <2>1 DEF Reserve, Flight, Types, ThreadTypes, Honest, Early, At, Over,
       Busy, Outstanding, ToldOver, ToldEnded, OneBusy
  <2>2. CASE ~\E s \in Run : Busy(s)
    <3>1. /\ nav' = [nav EXCEPT ![r] = "calling"]
          /\ run' = [run EXCEPT ![r] = Reserved]
          /\ goal' = [goal EXCEPT ![r] = "requested"]
          /\ UNCHANGED <<monitor, asker, canceller, caller>>
      BY <1>3, <2>2 DEF Reserve
    <3>2. Reserved \in Entry /\ Reserved.registered /\ ~Reserved.attached
          /\ ~Reserved.remote_terminal
      BY DEF Reserved, NoRun, Entry
    <3>3. Types'
      BY <3>1, <3>2 DEF Flight, Types, ThreadTypes
    <3>4. run'[r] = Reserved /\ goal'[r] = "requested" /\ nav'[r] = "calling"
      BY <3>1 DEF Flight, Types, ThreadTypes
    <3>5. ~ToldEnded(r)' /\ ~ToldOver(r)'
      BY <1>3, <3>1 DEF Reserve, Flight, Honest, Early, At, ToldOver, ToldEnded
    <3>6. Honest(r)'
      BY <3>2, <3>4, <3>5 DEF Honest, Early, At, Over, Busy
    <3> QED
      BY <2>2, <3>1, <3>3, <3>6, OwnEntryKeepsFlight DEF Flight, Types, ThreadTypes
  <2> QED
    BY <2>1, <2>2
<1>4. CASE NavigateFails(r)
  <2>1. run[r] \in Entry /\ run'[r] = UpdateRemote(run[r], "open")
    BY <1>4 DEF NavigateFails, Flight, Types
  <2>2. run'[r] \in Entry /\ run'[r].registered = run[r].registered
        /\ run'[r].attached = run[r].attached
        /\ run'[r].remote_terminal = run[r].remote_terminal
        /\ run'[r].unstated = run[r].unstated
    BY <2>1, UpdateRemoteFields DEF Entry
  <2>3. Types'
    BY <1>4, <2>2 DEF NavigateFails, Flight, Types, ThreadTypes, provider
  <2>4. Honest(r)' /\ Busy(r)' = Busy(r)
    BY <1>4, <2>2 DEF NavigateFails, Flight, Types, ThreadTypes, Honest, Early, At,
       Over, Busy, Outstanding, ToldOver, ToldEnded, provider
  <2> QED
    BY <1>4, <2>3, <2>4, OwnEntryKeepsFlight
       DEF NavigateFails, Flight, Types, ThreadTypes, provider
<1>5. CASE NavigateRefused(r)
  <2>1. Types' /\ run'[r] = NoRun /\ nav'[r] = "failed"
    BY <1>5 DEF NavigateRefused, NoRun, Entry, Flight, Types, ThreadTypes, provider
  <2>2. Honest(r)' /\ ~Busy(r)'
    BY <1>5, <2>1 DEF NavigateRefused, NoRun, Flight, Types, ThreadTypes, Honest,
       Early, At, Over, Busy, Outstanding, ToldOver, ToldEnded, provider
  <2> QED
    BY <1>5, <2>1, <2>2, OwnEntryKeepsFlight
       DEF NavigateRefused, Flight, Types, ThreadTypes, provider
<1>6. CASE AttachNavigation(r)
  <2>1. /\ run' \in [Run -> Entry]
        /\ run'[r].registered = run[r].registered /\ run'[r].attached
        /\ ~run'[r].remote_terminal
    <3>1. run[r] \in Entry
      BY DEF Flight, Types
    <3>2. /\ run' = [run EXCEPT ![r] = run'[r]]
          /\ run'[r] = [run[r] EXCEPT !.attached = TRUE,
                                      !.remote_terminal = FALSE,
                                      !.cancel_started = run[r].invalidated]
      BY <1>6 DEF AttachNavigation, Flight, Types
    <3>3. /\ run'[r] \in Entry /\ run'[r].registered = run[r].registered
          /\ run'[r].attached /\ ~run'[r].remote_terminal
      BY <3>1, <3>2 DEF Entry
    <3> QED
      BY <3>2, <3>3 DEF Flight, Types
  <2>2. ThreadTypes' /\ nav'[r] \in {"accepted", "attached"}
        /\ (canceller'[r] = "over" => canceller[r] = "over")
    BY <1>6 DEF AttachNavigation, Flight, Types, ThreadTypes
  <2>3. Types'
    BY <1>6, <2>1, <2>2 DEF AttachNavigation, Flight, Types, provider
  <2>4. Honest(r)' /\ Busy(r)
    BY <1>6, <2>1, <2>2 DEF AttachNavigation, Flight, Types, ThreadTypes, Honest, Early, At,
       Over, Busy, Outstanding, ToldOver, ToldEnded, provider
  <2> QED
    BY <1>6, <2>3, <2>4, OwnEntryKeepsFlight
       DEF AttachNavigation, Flight, Types, ThreadTypes, provider
<1>7. CASE Recheck(r)
  <2>1. CASE UNCHANGED <<run, canceller>>
    BY <1>7, <2>1 DEF Recheck, provider, Flight, Types, ThreadTypes, Honest, Early,
       At, Over, Busy, Outstanding, ToldOver, ToldEnded, OneBusy
  <2>2. CASE InvalidateRuns
    <3>1. Types' /\ nav' = [nav EXCEPT ![r] = nav'[r]] /\ ~Early(r) /\ ~Early(r)'
          /\ nav'[r] # "calling"
      BY <1>7, <2>2, InvalidateFields
         DEF Recheck, Flight, Types, ThreadTypes, At, Early, provider
    <3>2. ASSUME NEW s \in Run PROVE Honest(s)' /\ Busy(s)' = Busy(s)
      BY <1>7, <2>2, <3>1, <3>2, InvalidateFields
         DEF Recheck, Flight, Types, ThreadTypes, Honest, Early, At, Over, Busy,
             Outstanding, ToldOver, ToldEnded, provider
    <3> QED
      BY <3>1, <3>2 DEF Flight, OneBusy
  <2> QED
    BY <1>7, <2>1, <2>2 DEF Recheck
<1>8. CASE ScheduleMonitor(r)
  BY <1>8 DEF ScheduleMonitor, provider, Flight, Types, ThreadTypes, Honest, Early,
     At, Over, Busy, Outstanding, ToldOver, ToldEnded, OneBusy
<1> QED
  BY <1>1, <1>2, <1>3, <1>4, <1>5, <1>6, <1>7, <1>8 DEF Navigate

\* The registry takes a report that somebody has held: "over" only if true, and
\* an empty one of a run that is attached.
LEMMA ReportKeepsFlight ==
  ASSUME Flight, Types', NEW r \in Run, NEW heard,
         run' = [run EXCEPT ![r] = UpdateRemote(run[r], heard)],
         heard = "over" => ToldOver(r),
         heard = "empty" => ToldEnded(r),
         ToldOver(r)' => ToldOver(r),
         ToldEnded(r)' => ToldEnded(r),
         UNCHANGED <<nav, goal>>,
         \A s \in Run \ {r} :
           /\ monitor'[s] = monitor[s] /\ asker'[s] = asker[s]
           /\ canceller'[s] = canceller[s]
  PROVE  Flight'
<1>1. run[r] \in Entry /\ run'[r] = UpdateRemote(run[r], heard)
  BY DEF Flight, Types
<1>2. /\ run'[r].registered = run[r].registered
      /\ run'[r].attached = run[r].attached
      /\ run'[r].remote_terminal
           = (run[r].remote_terminal \/ heard \in {"empty", "over"})
      /\ run'[r].unstated
           = (run[r].unstated \/ (heard = "empty" /\ ~run[r].remote_terminal))
      /\ run'[r].unstated \in BOOLEAN /\ run[r].remote_terminal \in BOOLEAN
  BY <1>1, UpdateRemoteFields DEF Entry
<1>3. Honest(r)
  BY DEF Flight
<1>4. Busy(r)' => Busy(r)
  BY <1>2 DEF Busy, Over
<1>5. Honest(r)'
  <2>1. CASE heard = "over"
    BY <1>2, <1>3, <2>1 DEF Honest, Early, At, Over, Busy, Outstanding, ToldOver, ToldEnded
  <2>2. CASE heard = "empty"
    BY <1>2, <1>3, <2>2 DEF Honest, Early, At, Over, Busy, Outstanding, ToldEnded
  <2>3. CASE heard \notin {"empty", "over"}
    <3>1. /\ run'[r].remote_terminal = run[r].remote_terminal
          /\ run'[r].unstated = run[r].unstated
      BY <1>1, <1>2, <2>3 DEF Entry
    <3> QED
      BY <1>2, <1>3, <3>1 DEF Honest, Early, At, Over, Busy, Outstanding
  <2> QED
    BY <2>1, <2>2, <2>3
<1> QED
  BY <1>4, <1>5, OwnEntryKeepsFlight DEF Flight, Types

\* Answers are true when they are given, and what they were given for does not
\* become untrue before they are used.
LEMMA StatusKeepsFlight ==
  ASSUME Flight, NEW r \in Run, Status(r)
  PROVE  Flight'
<1>1. CASE MonitorAsks(r)
  BY <1>1 DEF MonitorAsks, Flight, Types, ThreadTypes, Honest, Early, At, Over, Busy,
     Outstanding, ToldOver, ToldEnded, OneBusy, calls, provider, Answer, Report
<1>2. CASE MonitorReports(r)
  <2>1. Types'
    BY <1>2, UpdateRemoteFields
       DEF MonitorReports, Flight, Types, ThreadTypes, calls, provider
  <2>2. /\ run' = [run EXCEPT ![r] = UpdateRemote(run[r], monitor[r])]
        /\ monitor' = [monitor EXCEPT ![r] = "idle"]
        /\ UNCHANGED <<nav, goal, asker, canceller>>
    BY <1>2 DEF MonitorReports, calls, provider
  <2>3. (ToldOver(r)' => ToldOver(r)) /\ (ToldEnded(r)' => ToldEnded(r))
    BY <2>2 DEF Flight, Types, ThreadTypes, ToldOver, ToldEnded
  <2>4. (monitor[r] = "over" => ToldOver(r)) /\ (monitor[r] = "empty" => ToldEnded(r))
    BY DEF ToldOver, ToldEnded
  <2>5. \A s \in Run \ {r} : monitor'[s] = monitor[s]
    BY <2>2 DEF Flight, Types, ThreadTypes
  <2> QED
    BY <2>1, <2>2, <2>3, <2>4, <2>5, ReportKeepsFlight
<1>3. CASE AskStatus(r)
  BY <1>3 DEF AskStatus, Flight, Types, ThreadTypes, Honest, Early, At, Over, Busy,
     Outstanding, ToldOver, ToldEnded, OneBusy, calls, provider, Answer, Report
<1>4. CASE ReportStatus(r)
  <2>1. CASE run[r].registered
    <3>1. Types'
      BY <1>4, UpdateRemoteFields
         DEF ReportStatus, Flight, Types, ThreadTypes, calls, provider
    <3>2. /\ run' = [run EXCEPT ![r] = UpdateRemote(run[r], asker[r])]
          /\ asker' = [asker EXCEPT ![r] = "off"]
          /\ UNCHANGED <<nav, goal, monitor, canceller>>
      BY <1>4, <2>1 DEF ReportStatus, calls, provider
    <3>3. (ToldOver(r)' => ToldOver(r)) /\ (ToldEnded(r)' => ToldEnded(r))
      BY <3>2 DEF Flight, Types, ThreadTypes, ToldOver, ToldEnded
    <3>4. (asker[r] = "over" => ToldOver(r)) /\ (asker[r] = "empty" => ToldEnded(r))
      BY DEF ToldOver, ToldEnded
    <3>5. \A s \in Run \ {r} : asker'[s] = asker[s]
      BY <3>2 DEF Flight, Types, ThreadTypes
    <3> QED
      BY <3>1, <3>2, <3>3, <3>4, <3>5, ReportKeepsFlight
  <2>2. CASE ~run[r].registered
    <3>1. run' = run
      BY <1>4, <2>2 DEF ReportStatus, Flight, Types
    <3> QED
      BY <1>4, <3>1 DEF ReportStatus, Flight, Types, ThreadTypes, Honest, Early, At,
         Over, Busy, Outstanding, ToldOver, ToldEnded, OneBusy, calls, provider
  <2> QED
    BY <2>1, <2>2
<1> QED
  BY <1>1, <1>2, <1>3, <1>4 DEF Status

LEMMA CancelKeepsFlight ==
  ASSUME Flight, NEW r \in Run, Cancel(r)
  PROVE  Flight'
<1>1. ASSUME NEW b \in BOOLEAN,
             run' = [run EXCEPT ![r].cancel_started = b]
      PROVE  /\ run' \in [Run -> Entry]
             /\ \A s \in Run : /\ run'[s].registered = run[s].registered
                               /\ run'[s].attached = run[s].attached
                               /\ run'[s].remote_terminal = run[s].remote_terminal
                               /\ run'[s].unstated = run[s].unstated
  BY <1>1 DEF Flight, Types, Entry
<1>2. CASE AskCancel(r) \/ CallCancel(r)
  BY <1>2 DEF AskCancel, CallCancel, Flight, Types, ThreadTypes, Honest, Early, At,
     Over, Busy, Outstanding, ToldOver, ToldEnded, OneBusy, calls, provider
<1>3. CASE ClaimCancel(r)
  <2>1. CASE UNCHANGED run
    BY <1>3, <2>1 DEF ClaimCancel, Flight, Types, ThreadTypes, Honest, Early, At,
       Over, Busy, Outstanding, ToldOver, ToldEnded, OneBusy, calls, provider
  <2>2. CASE run' = [run EXCEPT ![r].cancel_started = TRUE]
    <3>0. run' \in [Run -> Entry]
      BY <2>2 DEF Flight, Types, Entry
    <3>1. Types'
      BY <3>0, <1>3, <2>2 DEF ClaimCancel, Flight, Types, ThreadTypes, calls, provider
    <3> QED
      BY <1>1, <1>3, <2>2, <3>1, SameEntriesKeepFlight
         DEF ClaimCancel, calls, provider
  <2> QED
    BY <1>3, <2>1, <2>2 DEF ClaimCancel
<1>4. CASE CancellerAsks(r)
  BY <1>4 DEF CancellerAsks, Answer, Flight, Types, ThreadTypes, Honest, Early, At,
     Over, Busy, Outstanding, ToldOver, ToldEnded, OneBusy, calls, provider
<1>5. CASE CancellerCancels(r)
  BY <1>5 DEF CancellerCancels, Flight, Types, ThreadTypes, Honest, Early, At, Over,
     Busy, Outstanding, ToldOver, ToldEnded, OneBusy, calls
<1>6. CASE Conclude(r)
  <2>1. Types'
    BY <1>6, UpdateRemoteFields
       DEF Conclude, Flight, Types, ThreadTypes, calls, provider
  <2>2. /\ run' = [run EXCEPT ![r] = UpdateRemote(run[r], canceller[r])]
        /\ UNCHANGED <<nav, goal, monitor, asker>>
    BY <1>6 DEF Conclude, calls, provider
  <2>3. (ToldOver(r)' => ToldOver(r)) /\ (ToldEnded(r)' => ToldEnded(r))
    BY <1>6, <2>2 DEF Conclude, Flight, Types, ThreadTypes, ToldOver, ToldEnded
  <2>4. (canceller[r] = "over" => ToldOver(r)) /\ canceller[r] # "empty"
    BY DEF Flight, Types, ThreadTypes, ToldOver
  <2>5. \A s \in Run \ {r} : canceller'[s] = canceller[s]
    BY <1>6 DEF Conclude, Flight, Types, ThreadTypes
  <2> QED
    BY <2>1, <2>2, <2>3, <2>4, <2>5, ReportKeepsFlight
<1>7. CASE MarkCancelResult(r)
  <2>1. run' = [run EXCEPT ![r].cancel_started = (canceller[r] = "keep")]
    BY <1>7 DEF MarkCancelResult
  <2>2. Types'
    BY <1>1, <1>7, <2>1
       DEF MarkCancelResult, Flight, Types, ThreadTypes, calls, provider
  <2>3. \A s \in Run : canceller'[s] = "over" => canceller[s] = "over"
    BY <1>7 DEF MarkCancelResult, Flight, Types, ThreadTypes
  <2> QED
    BY <1>1, <1>7, <2>1, <2>2, <2>3, SameEntriesKeepFlight
       DEF MarkCancelResult, calls, provider
<1> QED
  BY <1>2, <1>3, <1>4, <1>5, <1>6, <1>7 DEF Cancel, Canceller

LEMMA FlightNext == Flight /\ [NavNext]_nav_vars => Flight'
<1> SUFFICES ASSUME Flight, [NavNext]_nav_vars PROVE Flight'
  OBVIOUS
<1>1. CASE Lifecycle
  <2>1. CASE StopRuns
    BY <2>1, InvalidateKeepsFlight DEF StopRuns, calls, provider
  <2>2. CASE ~StopRuns
    BY <1>1, <2>2, FrameKeepsFlight DEF Lifecycle, Activate, FindReady, AcceptGoals,
       StopBinding, StopSubscriber, StopMonitors, calls, workers, provider
  <2> QED
    BY <2>1, <2>2
<1>2. CASE Observe \/ SubscriberFails
  BY <1>2, FrameKeepsFlight DEF Observe, SubscriberFails, calls, workers, provider
<1>3. ASSUME NEW thread, Notify(thread) PROVE Flight'
  BY <1>3, InvalidateKeepsFlight DEF Notify, calls, provider
<1>4. ASSUME NEW r \in Run, Provider(r) PROVE Flight'
  BY <1>4 DEF Provider, ProviderDecides, ProviderEnds, Flight, Types, ThreadTypes,
     Honest, Early, At, Over, Busy, Outstanding, ToldOver, ToldEnded, OneBusy, calls, workers
<1>5. CASE UNCHANGED nav_vars
  BY <1>5, FrameKeepsFlight DEF nav_vars, calls, workers, provider
<1> QED
  BY <1>1, <1>2, <1>3, <1>4, <1>5, NavigateKeepsFlight, StatusKeepsFlight,
     CancelKeepsFlight DEF NavNext, Map

-----------------------------------------------------------------------------
(* The end of a run is the provider's word, or an empty one. *)

Reported(r, heard) ==
  /\ heard = "over" => ToldOver(r)
  /\ run' = [run EXCEPT ![r] = UpdateRemote(run[r], heard)]

Dispatched(r) == Reserve(r) \/ NavigateRefused(r) \/ AttachNavigation(r)

\* The ways in which a step changes entries of the registry.
LEMMA EntryChanges ==
  ASSUME Flight, [NavNext]_nav_vars
  PROVE  \/ run' = run
         \/ InvalidateRuns
         \/ \E r \in Run : Dispatched(r)
         \/ \E r \in Run : \E heard : Reported(r, heard)
         \/ \E r \in Run : \E b \in BOOLEAN :
              run' = [run EXCEPT ![r].cancel_started = b]
<1>1. ASSUME Lifecycle PROVE run' = run \/ InvalidateRuns
  BY <1>1 DEF Lifecycle, Activate, FindReady, AcceptGoals, StopBinding, StopRuns,
     StopSubscriber, StopMonitors
<1>2. ASSUME Map PROVE run' = run \/ InvalidateRuns
  BY <1>2 DEF Map, Observe, SubscriberFails, Notify
<1>3. ASSUME NEW r \in Run, Navigate(r)
      PROVE  run' = run \/ InvalidateRuns \/ Dispatched(r) \/ Reported(r, "open")
  BY <1>3 DEF Navigate, Admit, Validate, NavigateFails, Recheck, ScheduleMonitor,
     Dispatched, Reported
<1>4. ASSUME NEW r \in Run, Status(r)
      PROVE  run' = run \/ \E heard : Reported(r, heard)
  <2>1. CASE MonitorReports(r)
    BY <2>1 DEF MonitorReports, Reported, ToldOver
  <2>2. CASE ReportStatus(r)
    <3>1. CASE run[r].registered
      BY <2>2, <3>1 DEF ReportStatus, Reported, ToldOver
    <3>2. CASE ~run[r].registered
      BY <2>2, <3>2 DEF ReportStatus, Flight, Types
    <3> QED
      BY <3>1, <3>2
  <2> QED
    BY <1>4, <2>1, <2>2 DEF Status, MonitorAsks, AskStatus
<1>5. ASSUME NEW r \in Run, Cancel(r)
      PROVE  \/ run' = run
             \/ \E heard : Reported(r, heard)
             \/ \E b \in BOOLEAN : run' = [run EXCEPT ![r].cancel_started = b]
  BY <1>5 DEF Cancel, Canceller, AskCancel, ClaimCancel, CallCancel, CancellerAsks,
     CancellerCancels, Conclude, MarkCancelResult, Reported, ToldOver
<1>6. ASSUME NEW r \in Run, Provider(r) PROVE run' = run
  BY <1>6 DEF Provider, ProviderDecides, ProviderEnds
<1> QED
  BY <1>1, <1>2, <1>3, <1>4, <1>5, <1>6 DEF NavNext, nav_vars

LEMMA EndsOnEvidence ==
  ASSUME Flight, [NavNext]_nav_vars, NEW q \in Run
  PROVE  /\ Busy(q) /\ ~Busy(q)' => goal[q] \in {"over", "refused"} \/ run'[q].unstated
         /\ Over(q) => Over(q)'
<1>1. CASE run' = run
  BY <1>1 DEF Over, Busy
<1>2. CASE InvalidateRuns
  BY <1>2, InvalidateFields DEF Flight, Over, Busy
<1>3. ASSUME NEW r \in Run, Dispatched(r)
      PROVE  run'[q] = run[q] \/ (~Over(q) /\ (Busy(q)' \/ goal[q] = "refused"))
  <2>1. Honest(r) /\ run \in [Run -> Entry]
    BY DEF Flight, Types
  <2>2. CASE Reserve(r)
    BY <2>1, <2>2 DEF Reserve, Reserved, NoRun, Honest, Early, At, Busy, Over, Entry
  <2>3. CASE NavigateRefused(r)
    BY <2>1, <2>3 DEF NavigateRefused, Honest, At, Busy, Over
  <2>4. CASE AttachNavigation(r)
    BY <2>1, <2>4 DEF AttachNavigation, Honest, At, Busy, Over, Entry
  <2> QED
    BY <1>3, <2>2, <2>3, <2>4 DEF Dispatched
<1>4. ASSUME NEW r \in Run, NEW heard, Reported(r, heard)
      PROVE  /\ Busy(q) /\ ~Busy(q)' => goal[q] = "over" \/ run'[q].unstated
             /\ Over(q) => Over(q)'
  <2>1. CASE q = r
    <3>1. run[q] \in Entry /\ run'[q] = UpdateRemote(run[q], heard)
      BY <1>4, <2>1 DEF Reported, Flight, Types
    <3>2. /\ run'[q].registered = run[q].registered
          /\ run'[q].remote_terminal
               = (run[q].remote_terminal \/ heard \in {"empty", "over"})
          /\ run'[q].unstated
               = (run[q].unstated \/ (heard = "empty" /\ ~run[q].remote_terminal))
          /\ run'[q].unstated \in BOOLEAN /\ run[q].remote_terminal \in BOOLEAN
      BY <3>1, UpdateRemoteFields DEF Entry
    <3>3. heard = "over" => goal[q] = "over"
      BY <1>4, <2>1 DEF Reported, Flight, Honest
    <3> QED
      BY <3>2, <3>3 DEF Busy, Over
  <2>2. CASE q # r
    BY <1>4, <2>2 DEF Reported, Flight, Types, Busy, Over
  <2> QED
    BY <2>1, <2>2
<1>5. ASSUME NEW r \in Run, NEW b \in BOOLEAN,
             run' = [run EXCEPT ![r].cancel_started = b]
      PROVE  /\ run'[q].registered = run[q].registered
             /\ run'[q].remote_terminal = run[q].remote_terminal
  BY <1>5 DEF Flight, Types, Entry
<1>6. ASSUME run'[q] = run[q] PROVE Busy(q)' = Busy(q) /\ Over(q)' = Over(q)
  BY <1>6 DEF Busy, Over
<1> QED
  BY <1>1, <1>2, <1>3, <1>4, <1>5, <1>6, EntryChanges DEF Busy, Over

-----------------------------------------------------------------------------
(* One canceller at a time. *)

\* Whoever cancels a run holds its claim, alone; only a run with an id is ever
\* about to be canceled.
Claim(r) ==
  /\ canceller[r] # "off" \/ caller[r] = "calling"
       => run[r].attached /\ run[r].cancel_started
  /\ caller[r] # "off" => run[r].attached
  /\ canceller[r] = "off" \/ caller[r] # "calling"

Claims == Flight /\ \A r \in Run : Claim(r)

LEMMA ClaimsInit == NavInit => Claims
<1> SUFFICES ASSUME NavInit, NEW r \in Run PROVE Claim(r)
  BY FlightInit DEF Claims
<1> QED
  BY DEF NavInit, Claim

\* A step that leaves the cancellations of a run alone.
LEMMA SameClaim ==
  ASSUME NEW q \in Run, Claim(q),
         canceller'[q] = canceller[q], caller'[q] = caller[q],
         run[q].attached => run'[q].attached,
         run[q].cancel_started => run'[q].cancel_started
  PROVE  Claim(q)'
  BY DEF Claim

LEMMA InvalidateKeepsClaim ==
  ASSUME Claims, InvalidateRuns, caller' = caller, NEW q \in Run
  PROVE  Claim(q)'
<1>1. Claim(q)
  BY DEF Claims
<1> QED
  BY <1>1, InvalidateFields DEF Claims, Flight, Claim, Claimed

LEMMA NavigateKeepsClaim ==
  ASSUME Claims, NEW r \in Run, Navigate(r), NEW q \in Run
  PROVE  Claim(q)'
<1>1. Claim(q) /\ Claim(r) /\ Honest(r) /\ Types
  BY DEF Claims, Flight
<1>2. CASE Recheck(r)
  BY <1>1, <1>2, InvalidateKeepsClaim, SameClaim DEF Recheck
<1>3. CASE Admit(r) \/ Validate(r) \/ ScheduleMonitor(r)
  BY <1>1, <1>3, SameClaim DEF Admit, Validate, ScheduleMonitor, workers
<1>4. CASE NavigateFails(r)
  <2>1. CASE q = r
    <3>1. run[q] \in Entry /\ run'[q] = UpdateRemote(run[q], "open")
      BY <1>1, <1>4, <2>1 DEF NavigateFails, Types
    <3> QED
      BY <1>1, <1>4, <3>1, UpdateRemoteFields, SameClaim DEF NavigateFails, workers
  <2>2. CASE q # r
    BY <1>1, <1>4, <2>2, SameClaim DEF NavigateFails, workers, Types
  <2> QED
    BY <2>1, <2>2
<1>5. CASE Reserve(r) \/ NavigateRefused(r)
  <2>1. ~run[r].attached
    BY <1>1, <1>5 DEF Reserve, NavigateRefused, Honest, Early, At
  <2>2. UNCHANGED <<canceller, caller>> /\ (q # r => run'[q] = run[q])
    BY <1>1, <1>5 DEF Reserve, NavigateRefused, workers, Types
  <2> QED
    BY <1>1, <2>1, <2>2 DEF Claim
<1>6. CASE AttachNavigation(r)
  <2>1. ~run[r].attached
    BY <1>1, <1>6 DEF AttachNavigation, Honest, At
  <2>2. CASE q = r
    BY <1>1, <1>6, <2>1, <2>2
       DEF AttachNavigation, Claim, Types, ThreadTypes, Entry
  <2>3. CASE q # r
    BY <1>1, <1>6, <2>3, SameClaim DEF AttachNavigation, Types, ThreadTypes
  <2> QED
    BY <2>2, <2>3
<1> QED
  BY <1>2, <1>3, <1>4, <1>5, <1>6 DEF Navigate

\* A report does not touch the claim.
LEMMA ReportKeepsClaim ==
  ASSUME Claims, NEW r \in Run, NEW heard,
         run' = [run EXCEPT ![r] = UpdateRemote(run[r], heard)],
         NEW q \in Run, caller' = caller,
         canceller'[q] = canceller[q] \/ (canceller[q] # "off" /\ canceller'[q] # "off")
  PROVE  Claim(q)'
<1>1. Claim(q) /\ run[q] \in Entry
  BY DEF Claims, Flight, Types
<1>2. run'[q] = run[q] \/ run'[q] = UpdateRemote(run[q], heard)
  BY DEF Claims, Flight, Types
<1>3. run'[q].attached = run[q].attached
      /\ run'[q].cancel_started = run[q].cancel_started
  BY <1>1, <1>2, UpdateRemoteFields
<1> QED
  BY <1>1, <1>3 DEF Claim

LEMMA StatusKeepsClaim ==
  ASSUME Claims, NEW r \in Run, Status(r), NEW q \in Run
  PROVE  Claim(q)'
<1>1. Claim(q)
  BY DEF Claims
<1>2. CASE run' = run
  BY <1>1, <1>2, SameClaim
     DEF Status, MonitorAsks, MonitorReports, AskStatus, ReportStatus
<1>3. CASE MonitorReports(r)
  BY <1>3, ReportKeepsClaim DEF MonitorReports
<1>4. CASE ReportStatus(r) /\ run[r].registered
  BY <1>4, ReportKeepsClaim DEF ReportStatus
<1>5. CASE ReportStatus(r) /\ ~run[r].registered
  BY <1>2, <1>5 DEF ReportStatus, Claims, Flight, Types
<1> QED
  BY <1>2, <1>3, <1>4, <1>5 DEF Status, MonitorAsks, AskStatus

LEMMA CancelKeepsClaim ==
  ASSUME Claims, NEW r \in Run, Cancel(r), NEW q \in Run
  PROVE  Claim(q)'
<1>1. Claim(q) /\ Claim(r) /\ Types
  BY DEF Claims, Flight
<1>2. CASE Conclude(r)
  <2>1. canceller'[q] = canceller[q] \/ (canceller[q] # "off" /\ canceller'[q] # "off")
    BY <1>1, <1>2 DEF Conclude, Types, ThreadTypes
  <2> QED
    BY <1>2, <2>1, ReportKeepsClaim DEF Conclude
<1>3. CASE ~Conclude(r) /\ q # r
  BY <1>1, <1>3, SameClaim DEF Cancel, Canceller, AskCancel, ClaimCancel, CallCancel,
     CancellerAsks, CancellerCancels, MarkCancelResult, Types, ThreadTypes
<1>4. CASE q = r
  <2>1. CASE AskCancel(r)
    BY <1>1, <1>4, <2>1 DEF AskCancel, Claim, Types, ThreadTypes
  <2>2. CASE ClaimCancel(r)
    BY <1>1, <1>4, <2>2 DEF ClaimCancel, Claim, Types, ThreadTypes, Entry
  <2>3. CASE CallCancel(r)
    BY <1>1, <1>4, <2>3 DEF CallCancel, Claim, Types, ThreadTypes
  <2>4. CASE CancellerAsks(r) \/ CancellerCancels(r)
    BY <1>1, <1>4, <2>4
       DEF CancellerAsks, CancellerCancels, Claim, Types, ThreadTypes
  <2>5. CASE MarkCancelResult(r)
    BY <1>1, <1>4, <2>5 DEF MarkCancelResult, Claim, Types, ThreadTypes, Entry
  <2> QED
    BY <1>2, <2>1, <2>2, <2>3, <2>4, <2>5 DEF Cancel, Canceller
<1> QED
  BY <1>2, <1>3, <1>4

LEMMA ClaimsNext == Claims /\ [NavNext]_nav_vars => Claims'
<1> SUFFICES ASSUME Claims, [NavNext]_nav_vars, NEW q \in Run PROVE Claim(q)'
  BY FlightNext DEF Claims
<1>1. Claim(q)
  BY DEF Claims
<1>2. CASE UNCHANGED <<run, canceller, caller>>
  BY <1>1, <1>2, SameClaim
<1>3. CASE InvalidateRuns /\ caller' = caller
  BY <1>3, InvalidateKeepsClaim
<1>4. ASSUME Lifecycle \/ Map
      PROVE  UNCHANGED <<run, canceller, caller>> \/ (InvalidateRuns /\ caller' = caller)
  BY <1>4 DEF Lifecycle, Activate, FindReady, AcceptGoals, StopBinding, StopRuns,
     StopSubscriber, StopMonitors, Map, Observe, SubscriberFails, Notify, workers
<1>5. ASSUME NEW r \in Run, Provider(r) PROVE UNCHANGED <<run, canceller, caller>>
  BY <1>5 DEF Provider, ProviderDecides, ProviderEnds, workers
<1>6. ASSUME UNCHANGED nav_vars PROVE UNCHANGED <<run, canceller, caller>>
  BY <1>6 DEF nav_vars, workers
<1> QED
  BY <1>2, <1>3, <1>4, <1>5, <1>6, NavigateKeepsClaim, StatusKeepsClaim,
     CancelKeepsClaim DEF NavNext

-----------------------------------------------------------------------------
(* Runs and their map. *)

Live(r) == Busy(r) /\ ~run[r].invalidated

Unbound == {"inactive", "unbound", "stopping", "draining"}

\* Goals are accepted under a binding only, and bindings count from 1.
BindingOK ==
  /\ bindings \in Nat
  /\ phase \in Unbound \cup {"waiting", "ready", "active"}
  /\ phase \in Unbound <=> binding = 0
  /\ accepting => phase = "active"

\* Between its validation and its reservation a call holds the service lock, so
\* that a change of the map since then has yet to be dealt with.
Sound(r) == At(r, "validated") => /\ lock = r /\ accepting
                                  /\ OnItsMap(r) \/ notifying # {}

Grounded(r) ==
  Live(r) => \/ phase = "unbound"
             \/ binding # 0 /\ (OnItsMap(r) \/ notifying # {})

Bound == BindingOK /\ \A r \in Run : Sound(r) /\ Grounded(r)

\* There is an admission for every call; what it holds does not matter here.
AdmissionOK == admission = [r \in Run |-> admission[r]]

OnMap == Flight /\ AdmissionOK /\ Bound

LEMMA OnMapInit == NavInit => OnMap
<1> SUFFICES ASSUME NavInit PROVE Bound
  BY FlightInit DEF OnMap, AdmissionOK, NavInit
<1> QED
  BY DEF NavInit, Bound, BindingOK, Unbound, Sound, Grounded, Live, Busy, NoRun, At

LEMMA AdmissionNext ==
  ASSUME AdmissionOK, [NavNext]_nav_vars
  PROVE  AdmissionOK'
<1>1. CASE admission' = admission
  BY <1>1 DEF AdmissionOK
<1>2. ASSUME NEW r \in Run, Admit(r) PROVE AdmissionOK'
  BY <1>2 DEF Admit, AdmissionOK
<1>3. ASSUME Lifecycle \/ Map PROVE admission' = admission
  BY <1>3 DEF Lifecycle, Activate, FindReady, AcceptGoals, StopBinding, StopRuns,
     StopSubscriber, StopMonitors, Map, Observe, SubscriberFails, Notify, calls
<1>4. ASSUME NEW r \in Run, Navigate(r), ~Admit(r) PROVE admission' = admission
  BY <1>4 DEF Navigate, Validate, Reserve, NavigateFails, NavigateRefused,
     AttachNavigation, Recheck, ScheduleMonitor
<1>5. ASSUME NEW r \in Run, Status(r) \/ Cancel(r) \/ Provider(r)
      PROVE  admission' = admission
  BY <1>5 DEF Status, MonitorAsks, MonitorReports, AskStatus, ReportStatus, Cancel,
     Canceller, AskCancel, ClaimCancel, CallCancel, CancellerAsks, CancellerCancels,
     Conclude, MarkCancelResult, Provider, ProviderDecides, ProviderEnds, calls
<1> QED
  BY <1>1, <1>2, <1>3, <1>4, <1>5 DEF NavNext, nav_vars, calls

\* A run comes alive by its reservation only.
LEMMA ComesAlive ==
  ASSUME Flight, [NavNext]_nav_vars, NEW q \in Run, Live(q)'
  PROVE  Live(q) \/ Reserve(q)
<1>1. CASE run' = run
  BY <1>1 DEF Live, Busy, Over
<1>2. CASE InvalidateRuns
  BY <1>2, InvalidateFields DEF Flight, Live, Busy, Over
<1>3. ASSUME NEW r \in Run, Dispatched(r) PROVE Live(q) \/ Reserve(q)
  <2>1. Honest(r) /\ run \in [Run -> Entry]
    BY DEF Flight, Types
  <2>2. CASE q # r
    BY <1>3, <2>1, <2>2 DEF Dispatched, Reserve, NavigateRefused, AttachNavigation,
       Live, Busy, Over
  <2>3. CASE q = r /\ NavigateRefused(r)
    BY <2>1, <2>3 DEF NavigateRefused, NoRun, Live, Busy
  <2>4. CASE q = r /\ AttachNavigation(r)
    BY <2>1, <2>4 DEF AttachNavigation, Honest, At, Live, Busy, Over, Entry
  <2> QED
    BY <1>3, <2>2, <2>3, <2>4 DEF Dispatched
<1>4. ASSUME NEW r \in Run, NEW heard, Reported(r, heard) PROVE Live(q)
  <2>1. run[q] \in Entry
        /\ (run'[q] = run[q] \/ run'[q] = UpdateRemote(run[q], heard))
    BY <1>4 DEF Reported, Flight, Types
  <2>2. /\ run'[q].registered = run[q].registered
        /\ run'[q].invalidated = run[q].invalidated
        /\ \/ run'[q].remote_terminal = run[q].remote_terminal
           \/ run'[q].remote_terminal
                = (run[q].remote_terminal \/ heard \in {"empty", "over"})
    BY <2>1, UpdateRemoteFields
  <2> QED
    BY <2>2 DEF Live, Busy, Over
<1>5. ASSUME NEW r \in Run, NEW b \in BOOLEAN,
             run' = [run EXCEPT ![r].cancel_started = b]
      PROVE  Live(q)
  <2>1. /\ run'[q].registered = run[q].registered
        /\ run'[q].invalidated = run[q].invalidated
        /\ run'[q].remote_terminal = run[q].remote_terminal
    BY <1>5 DEF Flight, Types, Entry
  <2> QED
    BY <2>1 DEF Live, Busy, Over
<1> QED
  BY <1>1, <1>2, <1>3, <1>4, <1>5, EntryChanges

\* Invalidation leaves no run alive.
LEMMA InvalidateEndsAll ==
  ASSUME Flight, InvalidateRuns, NEW q \in Run
  PROVE  ~Live(q)'
  BY InvalidateFields DEF Flight, Live, Busy, Over

\* A step that makes no run live and leaves the map, the binding and the calls
\* before their reservation alone.
LEMMA FrameKeepsBound ==
  ASSUME Bound, UNCHANGED <<lifecycle, map>>,
         \A q \in Run : /\ Live(q)' => Live(q)
                        /\ Live(q) \/ At(q, "validated")
                             => admission'[q] = admission[q]
                        /\ At(q, "validated")' => At(q, "validated") /\ lock' = lock
  PROVE  Bound'
<1>1. BindingOK'
  BY DEF Bound, BindingOK, lifecycle
<1>2. ASSUME NEW q \in Run PROVE Sound(q)' /\ Grounded(q)'
  BY DEF Bound, Sound, Grounded, OnItsMap, At, lifecycle, map
<1> QED
  BY <1>1, <1>2 DEF Bound

\* The guard changes: either somebody is to be notified, or no run stood on the
\* map there was.
LEMMA ChangeKeepsBound ==
  ASSUME Bound, NEW state, NEW thread, ChangeGuard(state, thread),
         UNCHANGED lifecycle,
         \A q \in Run : /\ Live(q)' => Live(q)
                        /\ Live(q) \/ At(q, "validated")
                             => admission'[q] = admission[q]
                        /\ At(q, "validated")' => At(q, "validated") /\ lock' = lock
  PROVE  Bound'
<1>1. BindingOK'
  BY DEF Bound, BindingOK, lifecycle
<1>2. ASSUME NEW q \in Run PROVE Sound(q)' /\ Grounded(q)'
  BY DEF Bound, Sound, Grounded, OnItsMap, At, lifecycle, ChangeGuard
<1> QED
  BY <1>1, <1>2 DEF Bound

LEMMA LifecycleKeepsBound ==
  ASSUME OnMap, Lifecycle
  PROVE  Bound'
<1> USE DEF OnMap, Bound, BindingOK, Unbound
<1>1. ASSUME NEW q \in Run PROVE Live(q)' => Live(q)
  <2>1. ~Reserve(q)
    BY DEF Lifecycle, Activate, FindReady, AcceptGoals, StopBinding, StopRuns,
       StopSubscriber, StopMonitors, calls, Reserve, At, Flight, Types, ThreadTypes,
       Goto
  <2> QED
    BY <2>1, ComesAlive DEF NavNext
<1>2. lock = None => \A q \in Run : ~At(q, "validated")
  BY RunAssumption DEF Sound
<1>3. CASE Activate
  BY <1>1, <1>2, <1>3 DEF Activate, calls, Sound, Grounded, At
<1>4. CASE FindReady
  BY <1>1, <1>4 DEF FindReady, calls, map, Sound, Grounded, At, OnItsMap
<1>5. CASE AcceptGoals
  BY <1>1, <1>2, <1>5 DEF AcceptGoals, calls, map, Sound, Grounded, At, OnItsMap
<1>6. CASE StopBinding
  BY <1>1, <1>2, <1>6 DEF StopBinding, calls, map, Sound, Grounded, At
<1>7. CASE StopRuns
  BY <1>7, InvalidateEndsAll DEF StopRuns, calls, map, Sound, Grounded, At, OnItsMap
<1>8. CASE StopSubscriber \/ StopMonitors
  BY <1>1, <1>8 DEF StopSubscriber, StopMonitors, calls, map, Sound, Grounded, At,
     OnItsMap
<1> QED
  BY <1>3, <1>4, <1>5, <1>6, <1>7, <1>8 DEF Lifecycle

LEMMA MapKeepsBound ==
  ASSUME OnMap, Map
  PROVE  Bound'
<1>1. ASSUME NEW q \in Run PROVE Live(q)' => Live(q)
  <2>1. ~Reserve(q)
    BY DEF Map, Observe, SubscriberFails, Notify, calls, Reserve, At, Goto, OnMap,
       Flight, Types, ThreadTypes
  <2> QED
    BY <2>1, ComesAlive DEF NavNext, OnMap
<1>2. UNCHANGED lifecycle /\ UNCHANGED calls
  BY DEF Map, Observe, SubscriberFails, Notify
<1>3. CASE Observe \/ SubscriberFails
  BY <1>1, <1>2, <1>3, ChangeKeepsBound
     DEF Observe, SubscriberFails, OnMap, calls, At
<1>4. ASSUME NEW thread, Notify(thread) PROVE Bound'
  <2>1. \A q \in Run : ~Live(q)' /\ ~At(q, "validated")'
    BY <1>4, InvalidateEndsAll, RunAssumption
       DEF Notify, OnMap, Bound, Sound, At, calls
  <2> QED
    BY <1>2, <2>1 DEF OnMap, Bound, BindingOK, lifecycle, Sound, Grounded
<1> QED
  BY <1>3, <1>4 DEF Map

LEMMA NavigateKeepsBound ==
  ASSUME OnMap, NEW r \in Run, Navigate(r)
  PROVE  Bound'
<1>1. Types /\ Honest(r) /\ Bound
  BY DEF OnMap, Flight
<1>2. Early(r) => ~Live(r)
  BY <1>1 DEF Honest, Live, Busy
<1>3. ASSUME NEW q \in Run, ~Reserve(r) PROVE Live(q)' => Live(q)
  <2>1. CASE Reserve(q)
    BY <1>1, <1>3, <2>1 DEF Reserve, Navigate, At, Goto, Types, ThreadTypes, Admit,
       Validate, NavigateFails, NavigateRefused, AttachNavigation, Recheck,
       ScheduleMonitor
  <2> QED
    BY <2>1, ComesAlive DEF OnMap, NavNext
<1>4. lock = None => \A q \in Run : ~At(q, "validated")
  BY RunAssumption DEF OnMap, Bound, Sound
<1>5. CASE Admit(r)
  <2>1. ASSUME NEW q \in Run
        PROVE  /\ Live(q) \/ At(q, "validated") => admission'[q] = admission[q]
               /\ ~At(q, "validated")'
    <3>1. q # r => admission'[q] = admission[q]
      BY <1>5 DEF Admit, OnMap, AdmissionOK
    <3>2. ~Live(r) /\ \A p \in Run : ~At(p, "validated")
      BY <1>2, <1>4, <1>5 DEF Admit, Early, At
    <3>3. ~At(q, "validated")'
      BY <1>1, <1>5, <3>2 DEF Admit, At, Goto, Types, ThreadTypes
    <3> QED
      BY <3>1, <3>2, <3>3
  <2>2. ~Reserve(r) /\ UNCHANGED lifecycle
    BY <1>5 DEF Admit, Reserve, At
  <2>3. CASE UNCHANGED <<guard, notifying>>
    BY <1>1, <1>3, <1>5, <2>1, <2>2, <2>3, FrameKeepsBound DEF Admit, map
  <2>4. CASE FailGuard(r)
    BY <1>1, <1>3, <2>1, <2>2, <2>4, ChangeKeepsBound DEF FailGuard
  <2> QED
    BY <1>5, <2>3, <2>4 DEF Admit
<1>6. CASE Validate(r)
  <2>1. BindingOK' /\ ~Reserve(r)
    BY <1>1, <1>6 DEF Validate, Reserve, At, Bound, BindingOK, lifecycle
  <2>2. ASSUME NEW q \in Run PROVE Sound(q)'
    BY <1>1, <1>4, <1>6 DEF Validate, Sound, At, Goto, OnItsMap, lifecycle, map, Types,
       ThreadTypes
  <2>3. ASSUME NEW q \in Run PROVE Grounded(q)'
    BY <1>1, <1>3, <1>6, <2>1 DEF Validate, Bound, Grounded, OnItsMap, lifecycle, map
  <2> QED
    BY <2>1, <2>2, <2>3 DEF Bound
<1>7. CASE Reserve(r)
  <2>1. BindingOK' /\ binding # 0
    BY <1>1, <1>7 DEF Reserve, At, Bound, BindingOK, Sound, Unbound, lifecycle
  <2>2. ASSUME NEW q \in Run PROVE ~At(q, "validated")'
    BY <1>1, <1>7 DEF Reserve, Bound, Sound, At, Goto, Types, ThreadTypes
  <2>3. ASSUME NEW q \in Run, Live(q)' PROVE Live(q) \/ q = r
    BY <1>1, <1>7, <2>3, ComesAlive
       DEF OnMap, NavNext, Reserve, At, Goto, Types, ThreadTypes
  <2>4. OnItsMap(r) \/ notifying # {}
    BY <1>1, <1>7 DEF Reserve, Bound, Sound
  <2>5. ASSUME NEW q \in Run PROVE Grounded(q)'
    BY <1>1, <1>7, <2>1, <2>3, <2>4
       DEF Reserve, Bound, Grounded, OnItsMap, lifecycle, map
  <2> QED
    BY <2>1, <2>2, <2>5 DEF Bound, Sound
<1>8. CASE \/ NavigateFails(r) \/ NavigateRefused(r) \/ AttachNavigation(r)
           \/ ScheduleMonitor(r)
  <2>1. ~Reserve(r) /\ UNCHANGED <<lifecycle, map, admission, lock>>
    BY <1>8 DEF NavigateFails, NavigateRefused, AttachNavigation, ScheduleMonitor,
       Reserve, At
  <2>2. \A q \in Run : At(q, "validated")' => At(q, "validated")
    BY <1>1, <1>8 DEF NavigateFails, NavigateRefused, AttachNavigation,
       ScheduleMonitor, At, Goto, Types, ThreadTypes
  <2> QED
    BY <1>1, <1>3, <2>1, <2>2, FrameKeepsBound
<1>9. CASE Recheck(r)
  <2>1. /\ ~Reserve(r) /\ UNCHANGED <<lifecycle, alive, admission, lock>>
        /\ \A q \in Run : ~At(q, "validated")'
    BY <1>1, <1>4, <1>9 DEF Recheck, Reserve, At, Goto, Types, ThreadTypes
  <2>2. CASE UNCHANGED <<guard, notifying>>
    BY <1>1, <1>3, <2>1, <2>2, FrameKeepsBound DEF map
  <2>3. CASE FailGuard(r)
    BY <1>1, <1>3, <2>1, <2>3, ChangeKeepsBound DEF FailGuard
  <2> QED
    BY <1>9, <2>2, <2>3 DEF Recheck
<1> QED
  BY <1>5, <1>6, <1>7, <1>8, <1>9 DEF Navigate

LEMMA OnMapNext == OnMap /\ [NavNext]_nav_vars => OnMap'
<1> SUFFICES ASSUME OnMap, [NavNext]_nav_vars PROVE Bound'
  BY FlightNext, AdmissionNext DEF OnMap
<1>1. ASSUME UNCHANGED <<lifecycle, map, calls>> PROVE Bound'
  <2>1. ASSUME NEW q \in Run PROVE Live(q)' => Live(q)
    BY <1>1, ComesAlive DEF OnMap, Flight, Types, ThreadTypes, Reserve, At, Goto, calls
  <2> QED
    BY <1>1, <2>1, FrameKeepsBound DEF OnMap, calls, At
<1>2. ASSUME NEW r \in Run, Status(r) \/ Cancel(r) \/ Provider(r)
      PROVE  UNCHANGED <<lifecycle, map, calls>>
  BY <1>2 DEF Status, MonitorAsks, MonitorReports, AskStatus, ReportStatus, Cancel,
     Canceller, AskCancel, ClaimCancel, CallCancel, CancellerAsks, CancellerCancels,
     Conclude, MarkCancelResult, Provider, ProviderDecides, ProviderEnds
<1> QED
  BY <1>1, <1>2, LifecycleKeepsBound, MapKeepsBound, NavigateKeepsBound
     DEF NavNext, nav_vars

-----------------------------------------------------------------------------
(* The remaining types. *)

MapTypes ==
  /\ phase \in {"inactive", "waiting", "ready", "active", "unbound", "stopping",
                "draining"}
  /\ binding \in 0..MaxBindings /\ bindings \in 0..MaxBindings
  /\ accepting \in BOOLEAN /\ halt \in BOOLEAN /\ alive \in BOOLEAN
  /\ guard \in [state: {"none", "ready", "other"}, revision: 0..MaxRevision]
  /\ notifying \subseteq Run \cup {"executor"}
  /\ lock \in Run \cup {None}
  /\ admission \in [Run -> [binding: 0..MaxBindings, revision: 0..MaxRevision]]
  /\ marked \subseteq Run /\ attempted \subseteq Run

LEMMA MapTypesInit == NavInit => MapTypes
<1> SUFFICES ASSUME NavInit PROVE MapTypes
  OBVIOUS
<1>1. 0 \in 0..MaxBindings /\ 0 \in 0..MaxRevision
  BY BoundsAssumption
<1>2. admission \in [Run -> [binding: 0..MaxBindings, revision: 0..MaxRevision]]
  BY <1>1 DEF NavInit
<1>3. guard \in [state: {"none", "ready", "other"}, revision: 0..MaxRevision]
  BY <1>1 DEF NavInit
<1> QED
  BY <1>1, <1>2, <1>3 DEF NavInit, MapTypes

LEMMA ChangeIsTyped ==
  ASSUME MapTypes, NEW state \in {"none", "ready", "other"},
         NEW thread \in Run \cup {"executor"}, ChangeGuard(state, thread)
  PROVE  /\ guard' \in [state: {"none", "ready", "other"}, revision: 0..MaxRevision]
         /\ notifying' \subseteq Run \cup {"executor"}
  BY BoundsAssumption DEF MapTypes, ChangeGuard

LEMMA MapTypesNext == MapTypes /\ [NavNext]_nav_vars => MapTypes'
<1> SUFFICES ASSUME MapTypes, [NavNext]_nav_vars PROVE MapTypes'
  OBVIOUS
<1> USE DEF lifecycle, map, calls, workers, provider
<1>0. 0 \in 0..MaxBindings /\ 0 \in 0..MaxRevision
  BY BoundsAssumption
<1>1. CASE Lifecycle
  <2>1. CASE Activate
    <3>1. binding' \in 0..MaxBindings /\ bindings' \in 0..MaxBindings
      BY <2>1, BoundsAssumption DEF Activate, MapTypes
    <3>2. guard' \in [state: {"none", "ready", "other"}, revision: 0..MaxRevision]
      BY <1>0, <2>1 DEF Activate
    <3> QED
      BY <2>1, <3>1, <3>2 DEF Activate, MapTypes
  <2>2. CASE FindReady \/ AcceptGoals \/ StopRuns \/ StopSubscriber
    BY <2>2 DEF FindReady, AcceptGoals, StopRuns, StopSubscriber, MapTypes
  <2>3. CASE StopBinding
    BY <1>0, <2>3 DEF StopBinding, MapTypes
  <2>4. CASE StopMonitors
    BY <2>4 DEF StopMonitors, MapTypes
  <2> QED
    BY <1>1, <2>1, <2>2, <2>3, <2>4 DEF Lifecycle
<1>2. CASE Map
  <2>1. CASE Observe
    BY <2>1, ChangeIsTyped DEF Observe, MapTypes
  <2>2. CASE SubscriberFails
    BY <2>2, ChangeIsTyped DEF SubscriberFails, MapTypes
  <2>3. ASSUME NEW thread, Notify(thread) PROVE MapTypes'
    BY <2>3 DEF Notify, MapTypes
  <2> QED
    BY <1>2, <2>1, <2>2, <2>3 DEF Map
<1>3. ASSUME NEW r \in Run, Navigate(r) PROVE MapTypes'
  <2>1. FailGuard(r) \/ UNCHANGED <<guard, notifying>>
          => /\ guard' \in [state: {"none", "ready", "other"}, revision: 0..MaxRevision]
             /\ notifying' \subseteq Run \cup {"executor"}
    BY ChangeIsTyped DEF FailGuard, MapTypes
  <2>2. CASE Admit(r)
    <3>1. UNCHANGED <<phase, binding, bindings, accepting, halt, alive, lock, marked,
                      attempted>>
      BY <2>2 DEF Admit
    <3>2. FailGuard(r) \/ UNCHANGED <<guard, notifying>>
      BY <2>2 DEF Admit
    <3>3. admission' \in [Run -> [binding: 0..MaxBindings, revision: 0..MaxRevision]]
      BY <2>2 DEF Admit, MapTypes
    <3> QED
      BY <2>1, <3>1, <3>2, <3>3 DEF MapTypes
  <2>3. CASE Recheck(r)
    <3>1. UNCHANGED <<phase, binding, bindings, accepting, halt, alive, lock,
                      admission, marked, attempted>>
      BY <2>3 DEF Recheck
    <3>2. FailGuard(r) \/ UNCHANGED <<guard, notifying>>
      BY <2>3 DEF Recheck
    <3> QED
      BY <2>1, <3>1, <3>2 DEF MapTypes
  <2>4. CASE \/ Validate(r) \/ Reserve(r) \/ NavigateFails(r) \/ NavigateRefused(r)
             \/ AttachNavigation(r) \/ ScheduleMonitor(r)
    BY <2>4 DEF Validate, Reserve, NavigateFails, NavigateRefused, AttachNavigation,
       ScheduleMonitor, MapTypes
  <2> QED
    BY <1>3, <2>2, <2>3, <2>4 DEF Navigate
<1>4. ASSUME NEW r \in Run, Status(r) \/ Cancel(r) \/ Provider(r) PROVE MapTypes'
  BY <1>4 DEF Status, MonitorAsks, MonitorReports, AskStatus, ReportStatus, Cancel,
     Canceller, AskCancel, ClaimCancel, CallCancel, CancellerAsks, CancellerCancels,
     Conclude, MarkCancelResult, Provider, ProviderDecides, ProviderEnds, MapTypes
<1>5. CASE UNCHANGED nav_vars
  BY <1>5 DEF nav_vars, MapTypes
<1> QED
  BY <1>1, <1>2, <1>3, <1>4, <1>5 DEF NavNext

-----------------------------------------------------------------------------
(* Theorems *)

\* Every reachable state of the skill is well typed.
THEOREM NavTypeCorrect == NavSpec => []NavTypeOK
<1>1. Flight /\ MapTypes => NavTypeOK
  BY DEF Flight, Types, ThreadTypes, Entry, MapTypes, NavTypeOK
<1> QED
  BY <1>1, FlightInit, FlightNext, MapTypesInit, MapTypesNext, PTL DEF NavSpec

\* However many calls are made, and whatever is lost, refused, canceled or
\* invalidated: two goals are outstanding at the provider only after an answer that
\* knows one of the two runs and gives no state of it.
THEOREM OneGoalAtATime == NavSpec => []OverlapNeedsEmptyState
<1>1. Flight => OverlapNeedsEmptyState
  BY DEF Flight, Honest, OneBusy, OverlapNeedsEmptyState
<1> QED
  BY <1>1, FlightInit, FlightNext, PTL DEF NavSpec

\* The single-flight latch opens on the provider's word that the goal is over
\* or refused, or on its answer without a state, and no slower poll closes it
\* again.
THEOREM LatchNeedsEvidence == NavSpec => LatchOpensOnEvidence
<1>1. Flight /\ [NavNext]_nav_vars
        => [\A r \in Run :
              /\ Busy(r) /\ ~Busy(r)'
                   => goal[r] \in {"over", "refused"} \/ run'[r].unstated
              /\ Over(r) => Over(r)']_nav_vars
  BY EndsOnEvidence
<1> QED
  BY <1>1, FlightInit, FlightNext, PTL DEF NavSpec, LatchOpensOnEvidence

\* The operator's cancel, an invalidation and a retry never cancel one run side
\* by side, and each holds the claim while it does.
THEOREM OneCanceller == NavSpec => []CancelIsExclusive
<1>1. Claims => CancelIsExclusive
  BY DEF Claims, Claim, CancelIsExclusive
<1> QED
  BY <1>1, ClaimsInit, ClaimsNext, PTL DEF NavSpec

\* A live run stands on the map and the binding it was validated on, or what
\* changed them is about to invalidate it.
THEOREM OnItsMapOrEnding == NavSpec => []RunsAreOnTheirMap
<1>1. OnMap => RunsAreOnTheirMap
  BY DEF OnMap, Bound, Grounded, Live, RunsAreOnTheirMap
<1> QED
  BY <1>1, OnMapInit, OnMapNext, PTL DEF NavSpec

\* A deactivation leaves no live run behind.
THEOREM UnboundMeansEnded == NavSpec => []NoLiveRunWhenUnbound
<1>1. OnMap => NoLiveRunWhenUnbound
  BY DEF OnMap, Bound, Grounded, Live, NoLiveRunWhenUnbound
<1> QED
  BY <1>1, OnMapInit, OnMapNext, PTL DEF NavSpec

-----------------------------------------------------------------------------
(* The lifecycle of RobotTrack.  A thread comes alive in Launch only, and   *)
(* what is launched holds the handle; so the reservation of ReserveTrack    *)
(* has to outlive every _stop_runtime that runs in between.                 *)

LifecycleTypeOK ==
  /\ handle \in Runtime \cup {NoRuntime}
  /\ stage \in [Runtime -> {"new", "starting", "running", "exited", "settled", "dead"}]
  /\ activation # "idle" => starting \in Runtime

OnlyHandleAlive == \A t \in Runtime : Alive(t) => t = handle

HandleReserved ==
  /\ activation = "reserved" => handle = starting /\ stage[starting] = "new"
  /\ activation = "abandoned" => stage[starting] = "new"

ActiveIsBacked ==
  active => handle \in Runtime /\ stage[handle] \in {"running", "exited"}

LifecycleInv == LifecycleTypeOK /\ OnlyHandleAlive /\ HandleReserved /\ ActiveIsBacked

LEMMA LifecycleInitially ==
  ASSUME LifecycleInit
  PROVE  LifecycleInv
BY DEF LifecycleInit, LifecycleInv, LifecycleTypeOK, OnlyHandleAlive, HandleReserved,
  ActiveIsBacked, Alive

LEMMA ActivationKeeps ==
  ASSUME LifecycleInv, ReserveTrack \/ Launch \/ Ready \/ Commit \/ GiveUp
  PROVE  LifecycleInv'
<1> USE LifecycleAssumption
    DEF LifecycleInv, LifecycleTypeOK, OnlyHandleAlive, HandleReserved, ActiveIsBacked, Alive
<1>1. CASE ReserveTrack
  BY <1>1 DEF ReserveTrack, ByActivation
<1>2. CASE Launch
  <2>1. CASE activation' = "waiting" /\ Enter(starting, "starting")
    BY <1>2, <2>1 DEF Launch, ByActivation, Enter
  <2>2. CASE activation' = "abandoned" /\ UNCHANGED stage
    BY <1>2, <2>2 DEF Launch, ByActivation
  <2> QED
    BY <1>2, <2>1, <2>2 DEF Launch
<1>3. CASE Ready
  BY <1>3 DEF Ready, stop_vars
<1>4. CASE Commit
  BY <1>4 DEF Commit, stop_vars
<1>5. CASE GiveUp
  <2>1. activation' = "idle" /\ UNCHANGED <<active, stage, starting>>
    BY <1>5 DEF GiveUp
  <2>2. \/ handle' = handle
        \/ handle' = NoRuntime /\ handle = starting /\ ~Alive(starting)
    BY <1>5 DEF GiveUp
  <2> QED
    BY <2>1, <2>2
<1> QED
  BY <1>1, <1>2, <1>3, <1>4, <1>5

LEMMA RuntimeKeeps ==
  ASSUME LifecycleInv, NEW t \in Runtime,
         RunRuntime(t) \/ Exit(t) \/ Finalize(t) \/ Die(t)
  PROVE  LifecycleInv'
<1> USE DEF LifecycleInv, LifecycleTypeOK, OnlyHandleAlive, HandleReserved, ActiveIsBacked, Alive,
    Enter, ByRuntime, activation_vars
<1>1. CASE RunRuntime(t)
  BY <1>1 DEF RunRuntime
<1>2. CASE Exit(t)
  BY <1>2 DEF Exit
<1>3. CASE Finalize(t)
  BY <1>3 DEF Finalize
<1>4. CASE Die(t)
  BY <1>4 DEF Die
<1> QED
  BY <1>1, <1>2, <1>3, <1>4

LEMMA StopKeeps ==
  ASSUME LifecycleInv, BeginStop \/ TellRuntime \/ EndStop
  PROVE  LifecycleInv'
<1> USE LifecycleAssumption
    DEF LifecycleInv, LifecycleTypeOK, OnlyHandleAlive, HandleReserved, ActiveIsBacked, Alive,
    ByStop, activation_vars
<1>1. CASE BeginStop
  BY <1>1 DEF BeginStop
<1>2. CASE TellRuntime
  BY <1>2 DEF TellRuntime
<1>3. CASE EndStop
  BY <1>3 DEF EndStop
<1> QED
  BY <1>1, <1>2, <1>3

\* One thread alive is a set of at most one element.
LEMMA OwnedByHandle ==
  ASSUME LifecycleInv
  PROVE  RuntimeIsOwned
<1>1. {t \in Runtime : Alive(t)} \subseteq {handle}
  BY DEF LifecycleInv, OnlyHandleAlive
<1>2. /\ Cardinality({handle}) = 1 /\ IsFiniteSet({handle})
      /\ Cardinality({t \in Runtime : Alive(t)}) <= Cardinality({handle})
  BY <1>1, FS_Singleton, FS_Subset
<1>3. Cardinality({t \in Runtime : Alive(t)}) <= 1
  BY <1>2
<1>4. active => handle # NoRuntime /\ stage[handle] \in {"running", "exited"}
  BY LifecycleAssumption DEF LifecycleInv, ActiveIsBacked
<1> QED
  BY <1>3, <1>4 DEF RuntimeIsOwned

\* Whatever number of threads is started, and whichever join times out, there is
\* never a second set of ROS publishers, and an active provider has a runtime
\* whose finalizer is still to come (RobotTrackLifecycleProvider).
THEOREM RuntimeOwned == LifecycleSpec => []RuntimeIsOwned
<1>1. LifecycleInit => LifecycleInv
  BY LifecycleInitially
<1>2. LifecycleInv /\ [LifecycleNext]_lifecycle_vars => LifecycleInv'
  <2> SUFFICES ASSUME LifecycleInv, [LifecycleNext]_lifecycle_vars PROVE LifecycleInv'
    OBVIOUS
  <2>1. CASE UNCHANGED lifecycle_vars
    BY <2>1 DEF lifecycle_vars, runtime_vars, activation_vars, LifecycleInv, LifecycleTypeOK,
       OnlyHandleAlive, HandleReserved, ActiveIsBacked, Alive
  <2>2. CASE ReserveTrack \/ Launch \/ Ready \/ Commit \/ GiveUp
    BY <2>2, ActivationKeeps
  <2>3. CASE \E t \in Runtime : RunRuntime(t) \/ Exit(t) \/ Finalize(t) \/ Die(t)
    BY <2>3, RuntimeKeeps
  <2>4. CASE BeginStop \/ TellRuntime \/ EndStop
    BY <2>4, StopKeeps
  <2> QED
    BY <2>1, <2>2, <2>3, <2>4 DEF LifecycleNext
<1>3. LifecycleInv => RuntimeIsOwned
  BY OwnedByHandle
<1> QED
  BY <1>1, <1>2, <1>3, PTL DEF LifecycleSpec

-----------------------------------------------------------------------------
(* The camera: every frame on its way, from the last one shown to the records *)
(* in the socket, is before what comes after it, by connection and number.    *)

WireRecord == [sequence : Nat, age : Int, image : BOOLEAN, trouble : BOOLEAN]

Fields == {"generation", "sequence", "age"}

CameraTypes ==
  /\ wire \in Seq(WireRecord) /\ record_sequence \in Nat
  /\ generation \in Nat
  /\ reader \in {"connecting", "opened", "reading", "ended", "waiting"}
  /\ processor \in {"idle", "looking", "decoding", "decoded", "publishing", "published"}
  /\ DOMAIN mailbox = Fields /\ mailbox.generation \in Nat /\ mailbox.sequence \in Nat
  /\ DOMAIN in_hand = Fields /\ in_hand.generation \in Nat /\ in_hand.sequence \in Nat
  /\ mailbox.age \in Int /\ in_hand.age \in Int
  /\ shown.generation \in Nat /\ shown.sequence \in Nat

Connected ==
  /\ active_connection # 0 => reader \in {"reading", "ended"} /\ active_connection = generation
  /\ reader \in {"opened", "reading", "ended"} => generation # 0
  /\ wire # <<>> => reader \in {"opened", "reading"}

\* What the socket still holds, and the daemon will number, follows g, s.
Passed(g, s) ==
  /\ g <= generation
  /\ g = generation /\ reader \in {"opened", "reading"}
       => s < record_sequence /\ \A i \in 1..Len(wire) : s < wire[i].sequence

WireOrdered ==
  /\ \A i \in 1..Len(wire) : wire[i].sequence < record_sequence
  /\ \A i, j \in 1..Len(wire) : i < j => wire[i].sequence < wire[j].sequence

FramesOrdered ==
  /\ Passed(shown.generation, shown.sequence)
  /\ Passed(in_hand.generation, in_hand.sequence)
  /\ Passed(mailbox.generation, mailbox.sequence)
  /\ mailbox.generation = 0 => mailbox = NoImage
  /\ mailbox.generation # 0 =>
       /\ reader \in {"reading", "ended"} /\ mailbox.generation = generation
       /\ Before(in_hand.generation, in_hand.sequence, mailbox.generation, mailbox.sequence)
       /\ Before(shown.generation, shown.sequence, mailbox.generation, mailbox.sequence)
  /\ processor \in {"looking", "decoding", "decoded", "publishing"} =>
       /\ in_hand.generation # 0
       /\ Before(shown.generation, shown.sequence, in_hand.generation, in_hand.sequence)

\* A frame that passed both looks is of the connection that is not replaced before the
\* reader has waited, and time does not pass.
Released ==
  processor = "publishing" =>
    /\ in_hand.age <= FrameAge /\ in_hand.generation = generation
    /\ reader \in {"reading", "ended", "waiting"}

BridgeInv == CameraTypes /\ Connected /\ WireOrdered /\ FramesOrdered /\ Released

LEMMA NoImageFields ==
  /\ DOMAIN NoImage = Fields /\ NoImage.generation = 0 /\ NoImage.sequence = 0
  /\ NoImage.age = NoStamp
  BY DEF NoImage, Fields

\* The frames keep their order when the socket and the counters do.
LEMMA BridgeInitially ==
  ASSUME BridgeInit
  PROVE  BridgeInv
<1> USE NoImageFields DEF BridgeInit, NoStamp
<1>1. CameraTypes
  BY DEF CameraTypes
<1>2. Connected /\ WireOrdered /\ FramesOrdered /\ Released
  BY DEF Connected, WireOrdered, FramesOrdered, Passed, Released
<1> QED
  BY <1>1, <1>2 DEF BridgeInv

\* A record at the end of the socket is numbered by the daemon, those it held stay.
LEMMA Sent ==
  ASSUME CameraTypes, NEW e \in WireRecord, wire' = Append(wire, e)
  PROVE  /\ wire' \in Seq(WireRecord) /\ Len(wire') = Len(wire) + 1 /\ wire' # <<>>
         /\ \A i \in 1..Len(wire) : wire'[i] = wire[i]
         /\ wire'[Len(wire) + 1] = e
  BY DEF CameraTypes

\* What is left of the socket is what stood behind its first record.
LEMMA Taken ==
  ASSUME CameraTypes, wire # <<>>, wire' = Tail(wire)
  PROVE  /\ wire' \in Seq(WireRecord) /\ Len(wire') = Len(wire) - 1
         /\ \A i \in 1..Len(wire') : wire'[i] = wire[i + 1] /\ i + 1 \in 1..Len(wire)
         /\ Head(wire) = wire[1] /\ 1 \in 1..Len(wire)
  BY DEF CameraTypes

LEMMA WireNumbers ==
  ASSUME CameraTypes
  PROVE  \A i \in 1..Len(wire) : wire[i].sequence \in Nat /\ wire[i].age \in Int
<1> SUFFICES ASSUME NEW i \in 1..Len(wire)
             PROVE  wire[i].sequence \in Nat /\ wire[i].age \in Int
  OBVIOUS
<1>1. wire[i] \in WireRecord
  BY DEF CameraTypes
<1> QED
  BY <1>1 DEF WireRecord

LEMMA SendKeeps ==
  ASSUME BridgeInv, SendRecord
  PROVE  BridgeInv'
<1> USE DEF BridgeInv
<1>1. PICK image \in BOOLEAN, trouble \in BOOLEAN :
        wire' = Append(wire, [sequence |-> record_sequence, age |-> 0,
                              image |-> image, trouble |-> trouble])
  BY DEF SendRecord
<1> DEFINE e == [sequence |-> record_sequence, age |-> 0, image |-> image, trouble |-> trouble]
<1>2. e \in WireRecord /\ e.sequence = record_sequence
  BY DEF WireRecord, CameraTypes
<1> HIDE DEF e
<1>3. /\ wire' \in Seq(WireRecord) /\ Len(wire') = Len(wire) + 1 /\ wire' # <<>>
      /\ \A i \in 1..Len(wire) : wire'[i] = wire[i]
      /\ wire'[Len(wire) + 1] = e
  BY <1>1, <1>2, Sent DEF e
<1>4. record_sequence' = record_sequence + 1 /\ record_sequence \in Nat /\ Len(wire) \in Nat
  BY DEF SendRecord, CameraTypes
<1>5. UNCHANGED <<reader_vars, mailbox, processor_vars, running>>
      /\ reader \in {"opened", "reading"}
  BY DEF SendRecord
<1>6. CameraTypes' /\ Connected'
  BY <1>3, <1>4, <1>5 DEF CameraTypes, Connected, reader_vars, processor_vars
<1>7. \A i \in 1..Len(wire') : i \in 1..Len(wire) \/ i = Len(wire) + 1
  BY <1>3, <1>4
<1>8. \A i \in 1..Len(wire) : wire[i].sequence \in Nat /\ wire[i].sequence < record_sequence
  BY WireNumbers DEF WireOrdered
<1>9. WireOrdered'
  <2>1. \A i \in 1..Len(wire') : wire'[i].sequence < record_sequence'
    BY <1>2, <1>3, <1>4, <1>7, <1>8
  <2>2. ASSUME NEW i \in 1..Len(wire'), NEW j \in 1..Len(wire'), i < j
        PROVE  wire'[i].sequence < wire'[j].sequence
    <3>1. i \in 1..Len(wire)
      BY <1>3, <1>4, <2>2
    <3>2. CASE j \in 1..Len(wire)
      BY <1>3, <2>2, <3>1, <3>2 DEF WireOrdered
    <3>3. CASE j = Len(wire) + 1
      BY <1>2, <1>3, <1>8, <3>1, <3>3
    <3> QED
      BY <1>7, <3>2, <3>3
  <2> QED
    BY <2>1, <2>2 DEF WireOrdered
<1>10. ASSUME NEW g \in Nat, NEW s \in Nat, Passed(g, s)
       PROVE  Passed(g, s)'
  BY <1>2, <1>3, <1>4, <1>5, <1>7, <1>10 DEF Passed, reader_vars
<1>11. FramesOrdered' /\ Released'
  BY <1>5, <1>10 DEF FramesOrdered, Released, CameraTypes, reader_vars, processor_vars, Passed
<1> QED
  BY <1>6, <1>9, <1>11

\* The reader without a record: the socket is as it was, or emptied.
LEMMA ReaderKeeps ==
  ASSUME BridgeInv,
         RestartDaemon \/ Connect \/ ConnectFails \/ ActivateConnection \/ ReadFails
  PROVE  BridgeInv'
<1> USE DEF ByReader, reader_vars, processor_vars, camera_state
<1>0. UNCHANGED <<mailbox, processor_vars>>
  BY DEF RestartDaemon, Connect, ConnectFails, ActivateConnection, ReadFails
<1>1. CASE RestartDaemon
  <2>1. /\ reader \in {"connecting", "waiting"} /\ wire = <<>> /\ record_sequence' = 1
        /\ UNCHANGED <<wire, reader_vars>>
    BY <1>1 DEF RestartDaemon, BridgeInv, Connected
  <2> QED
    BY <1>0, <2>1 DEF BridgeInv, CameraTypes, Connected, WireOrdered, FramesOrdered, Released,
       Passed
<1>2. CASE Connect
  <2>1. /\ reader = "connecting" /\ reader' = "opened" /\ wire = <<>>
        /\ generation' = generation + 1 /\ generation \in Nat
        /\ UNCHANGED <<wire, record_sequence, active_connection>>
    BY <1>2 DEF Connect, BridgeInv, Connected, CameraTypes
  <2>2. CameraTypes' /\ WireOrdered'
    BY <1>0, <2>1 DEF BridgeInv, CameraTypes, WireOrdered
  <2>3. Connected' /\ Released'
    BY <1>0, <2>1 DEF BridgeInv, Connected, Released
  <2>4. ASSUME NEW g \in Nat, NEW s \in Nat, Passed(g, s)
        PROVE  Passed(g, s)'
    <3>1. g < generation'
      BY <2>1, <2>4 DEF Passed
    <3> QED
      BY <2>1, <3>1 DEF Passed
  <2>5. mailbox.generation = 0
    BY <2>1 DEF BridgeInv, FramesOrdered
  <2>6. FramesOrdered'
    BY <1>0, <2>4, <2>5 DEF BridgeInv, FramesOrdered, CameraTypes
  <2> QED
    BY <2>2, <2>3, <2>6 DEF BridgeInv
<1>3. CASE ConnectFails \/ ActivateConnection \/ ReadFails
  <2>1. /\ UNCHANGED <<generation, record_sequence>>
        /\ \/ reader = "connecting" /\ reader' = "waiting"
              /\ UNCHANGED <<wire, active_connection>>
           \/ reader = "opened" /\ reader' = "reading" /\ wire' = wire
              /\ active_connection' = generation
           \/ reader = "reading" /\ reader' = "ended" /\ wire' = <<>>
              /\ UNCHANGED active_connection
    BY <1>3 DEF ConnectFails, ActivateConnection, ReadFails
  <2>2. CameraTypes'
    <3>1. wire' = wire \/ wire' = <<>>
      BY <2>1
    <3>2. <<>> \in Seq(WireRecord) /\ wire \in Seq(WireRecord)
      BY DEF BridgeInv, CameraTypes
    <3> QED
      BY <1>0, <2>1, <3>1, <3>2 DEF BridgeInv, CameraTypes
  <2>3. Connected' /\ Released'
    BY <1>0, <2>1 DEF BridgeInv, Connected, Released
  <2>4. WireOrdered'
    BY <1>0, <2>1 DEF BridgeInv, WireOrdered
  <2>5. ASSUME NEW g, NEW s, Passed(g, s)
        PROVE  Passed(g, s)'
    BY <2>1, <2>5 DEF Passed
  <2>6. mailbox.generation # 0 => reader' \in {"reading", "ended"}
    BY <2>1 DEF BridgeInv, FramesOrdered
  <2>7. FramesOrdered'
    BY <1>0, <2>1, <2>5, <2>6 DEF BridgeInv, FramesOrdered
  <2> QED
    BY <2>2, <2>3, <2>4, <2>7 DEF BridgeInv
<1> QED
  BY <1>1, <1>2, <1>3

LEMMA ReceiveKeeps ==
  ASSUME BridgeInv, Receive
  PROVE  BridgeInv'
<1> USE DEF BridgeInv
<1>1. /\ reader = "reading" /\ wire # <<>> /\ wire' = Tail(wire)
      /\ UNCHANGED <<record_sequence, reader_vars, processor_vars, running>>
      /\ mailbox' = IF Head(wire).image
                    THEN [generation |-> generation, sequence |-> Head(wire).sequence,
                          age |-> Head(wire).age]
                    ELSE mailbox
  BY DEF Receive, ByReader
<1>2. /\ wire' \in Seq(WireRecord) /\ Len(wire') = Len(wire) - 1
      /\ \A i \in 1..Len(wire') : wire'[i] = wire[i + 1] /\ i + 1 \in 1..Len(wire)
      /\ Head(wire) = wire[1] /\ 1 \in 1..Len(wire)
  BY <1>1, Taken
<1>3. \A i \in 1..Len(wire) : wire[i].sequence \in Nat
  BY WireNumbers
<1>4. WireOrdered'
  <2>1. \A i \in 1..Len(wire') : wire'[i].sequence < record_sequence'
    BY <1>1, <1>2 DEF WireOrdered
  <2>2. ASSUME NEW i \in 1..Len(wire'), NEW j \in 1..Len(wire'), i < j
        PROVE  wire'[i].sequence < wire'[j].sequence
    <3>1. i + 1 \in 1..Len(wire) /\ j + 1 \in 1..Len(wire) /\ i + 1 < j + 1
      BY <1>2, <2>2
    <3>2. wire[i + 1].sequence < wire[j + 1].sequence
      BY <3>1 DEF WireOrdered
    <3> QED
      BY <1>2, <3>2
  <2> QED
    BY <2>1, <2>2 DEF WireOrdered
<1>5. ASSUME NEW g \in Nat, NEW s \in Nat, Passed(g, s)
      PROVE  Passed(g, s)'
  <2>1. ASSUME g = generation, NEW i \in 1..Len(wire') PROVE s < wire'[i].sequence
    BY <1>1, <1>2, <1>5, <2>1 DEF Passed
  <2> QED
    BY <1>1, <1>5, <2>1 DEF Passed, reader_vars
<1>6. PICK n \in Nat : n = wire[1].sequence
  BY <1>2, <1>3
<1>7. ASSUME Head(wire).image
      PROVE  DOMAIN mailbox' = Fields /\ mailbox'.generation = generation /\ mailbox'.sequence = n
  BY <1>1, <1>2, <1>6, <1>7 DEF Fields
<1>8. CameraTypes' /\ Connected'
  <2>1. /\ DOMAIN mailbox' = Fields /\ mailbox'.generation \in Nat /\ mailbox'.sequence \in Nat
        /\ mailbox'.age \in Int
    <3>1. Head(wire).age \in Int
      BY <1>2, WireNumbers DEF CameraTypes
    <3> QED
      BY <1>1, <1>7, <3>1 DEF CameraTypes
  <2> QED
    BY <1>1, <1>2, <2>1 DEF CameraTypes, Connected, reader_vars, processor_vars
<1>9. Passed(generation, n)'
  <2>1. ASSUME NEW i \in 1..Len(wire') PROVE n < wire'[i].sequence
    <3>1. 1 < i + 1 /\ i + 1 \in 1..Len(wire)
      BY <1>2, <2>1
    <3> QED
      BY <1>2, <1>6, <3>1 DEF WireOrdered
  <2>2. n < record_sequence
    BY <1>2, <1>6 DEF WireOrdered
  <2> QED
    BY <1>1, <2>1, <2>2 DEF Passed, reader_vars, CameraTypes
<1>10. ASSUME NEW g \in Nat, NEW s \in Nat, Passed(g, s)
       PROVE  Before(g, s, generation, n)
  BY <1>1, <1>2, <1>6, <1>10 DEF Passed, Before, CameraTypes
<1>11. FramesOrdered'
  <2>1. generation' = generation /\ reader' = "reading" /\ generation # 0
    BY <1>1 DEF reader_vars, Connected
  <2>2. CASE Head(wire).image
    BY <1>1, <1>5, <1>7, <1>9, <1>10, <2>1, <2>2 DEF FramesOrdered, CameraTypes, processor_vars
  <2>3. CASE ~Head(wire).image
    BY <1>1, <1>5, <2>1, <2>3 DEF FramesOrdered, CameraTypes, processor_vars
  <2> QED
    BY <2>2, <2>3
<1>12. Released'
  BY <1>1 DEF Released, reader_vars, processor_vars
<1> QED
  BY <1>4, <1>8, <1>11, <1>12

LEMMA DisconnectKeeps ==
  ASSUME BridgeInv, Disconnect
  PROVE  BridgeInv'
<1> USE DEF ByReader, reader_vars, processor_vars, camera_state
<1>1. /\ reader = "ended" /\ reader' = "waiting" /\ active_connection' = 0 /\ wire = <<>>
      /\ UNCHANGED <<wire, generation, record_sequence, processor_vars>>
      /\ mailbox' = IF mailbox.generation = generation THEN NoImage ELSE mailbox
  BY DEF Disconnect, BridgeInv, Connected
<1>2. mailbox' = NoImage \/ (mailbox' = mailbox /\ mailbox.generation = 0)
  BY <1>1 DEF BridgeInv, FramesOrdered
<1>3. mailbox' = NoImage
  BY <1>2, NoImageFields DEF BridgeInv, FramesOrdered
<1>4. CameraTypes' /\ Connected' /\ WireOrdered' /\ Released'
  BY <1>1, <1>3, NoImageFields
  DEF NoStamp, BridgeInv, CameraTypes, Connected, WireOrdered, Released
<1>5. ASSUME NEW g, NEW s, Passed(g, s)
      PROVE  Passed(g, s)'
  BY <1>1, <1>5 DEF Passed
<1>6. Passed(0, 0)
  BY DEF BridgeInv, CameraTypes, Connected, Passed
<1>7. FramesOrdered'
  BY <1>1, <1>3, <1>5, <1>6, NoImageFields DEF BridgeInv, FramesOrdered
<1> QED
  BY <1>4, <1>7 DEF BridgeInv

\* The processor moves the frame it took; nothing else moves.
LEMMA ProcessorKeeps ==
  ASSUME BridgeInv, TakeFrame \/ LookFirst \/ LookAgain \/ Decode \/ Publish \/ NoteRecovery
  PROVE  BridgeInv'
<1> USE NoImageFields DEF ByProcessor, reader_vars, NoStamp
<1>1. UNCHANGED <<wire, record_sequence, reader, generation, active_connection>>
  BY DEF TakeFrame, LookFirst, LookAgain, Look, Decode, Publish, NoteRecovery
<1>2. Connected' /\ WireOrdered'
  BY <1>1 DEF BridgeInv, Connected, WireOrdered
<1>3. ASSUME NEW g, NEW s, Passed(g, s)
      PROVE  Passed(g, s)'
  BY <1>1, <1>3 DEF Passed
<1>4. Passed(0, 0)
  BY DEF BridgeInv, CameraTypes, Connected, Passed
<1>5. CASE TakeFrame
  <2>1. /\ processor' = "looking" /\ in_hand' = mailbox /\ mailbox' = NoImage
        /\ mailbox.generation # 0 /\ shown' = shown
    BY <1>5 DEF TakeFrame, BridgeInv, FramesOrdered
  <2> QED
    BY <1>1, <1>2, <1>3, <1>4, <2>1 DEF BridgeInv, CameraTypes, FramesOrdered, Released
<1>6. CASE processor' = "idle" /\ in_hand' = NoImage /\ UNCHANGED <<mailbox, shown>>
  BY <1>1, <1>2, <1>3, <1>4, <1>6
  DEF BridgeInv, CameraTypes, FramesOrdered, Released, Before
<1>7. CASE Publish
  <2>1. /\ processor = "publishing" /\ shown' = in_hand /\ processor' = "published"
        /\ UNCHANGED <<mailbox, in_hand>>
    BY <1>7 DEF Publish
  <2> QED
    BY <1>1, <1>2, <1>3, <2>1 DEF BridgeInv, CameraTypes, FramesOrdered, Released
<1>8. ASSUME NEW here, NEW there, here \in {"looking", "decoded"},
             there \in {"decoding", "publishing"}, Look(here, there)
      PROVE  BridgeInv'
  <2>1. UNCHANGED <<mailbox, shown>> /\ processor = here
    BY <1>8 DEF Look
  <2>2. CASE processor' = "idle" /\ in_hand' = NoImage
    BY <1>6, <2>1, <2>2
  <2>3. CASE /\ ~Invalidated /\ ~(in_hand.age > FrameAge)
             /\ processor' = there /\ UNCHANGED in_hand
    <3>1. in_hand.generation # 0 /\ in_hand.age <= FrameAge
      BY <1>8, <2>1, <2>3, CameraAssumption DEF BridgeInv, FramesOrdered, CameraTypes
    <3>2. in_hand.generation = generation /\ reader \in {"reading", "ended"}
      BY <2>3, <3>1 DEF Invalidated, BridgeInv, Connected
    <3> QED
      BY <1>1, <1>2, <1>3, <1>8, <2>1, <2>3, <3>1, <3>2
      DEF BridgeInv, CameraTypes, FramesOrdered, Released
  <2> QED
    BY <1>8, <2>2, <2>3 DEF Look, Drop, Reject
<1>9. CASE LookFirst \/ LookAgain
  BY <1>8, <1>9 DEF LookFirst, LookAgain
<1>10. CASE Decode
  <2>1. processor = "decoding" /\ UNCHANGED <<mailbox, shown>>
    BY <1>10 DEF Decode
  <2>2. CASE processor' = "decoded" /\ in_hand' = in_hand
    BY <1>1, <1>2, <1>3, <2>1, <2>2 DEF BridgeInv, CameraTypes, FramesOrdered, Released
  <2> QED
    BY <1>6, <1>10, <2>1, <2>2 DEF Decode, Reject, Drop
<1>11. CASE NoteRecovery
  BY <1>6, <1>11 DEF NoteRecovery, Drop
<1> QED
  BY <1>5, <1>7, <1>9, <1>10, <1>11

LEMMA StopBridgeKeeps ==
  ASSUME BridgeInv, StopBridge
  PROVE  BridgeInv'
<1>1. /\ active_connection' = 0 /\ mailbox' = NoImage
      /\ UNCHANGED <<wire, record_sequence, reader, generation, processor, in_hand, shown>>
  BY DEF StopBridge, processor_vars
<1>2. ASSUME NEW g, NEW s, Passed(g, s)
      PROVE  Passed(g, s)'
  BY <1>1, <1>2 DEF Passed
<1>3. Passed(0, 0)
  BY DEF BridgeInv, CameraTypes, Connected, Passed
<1>4. CameraTypes' /\ Connected' /\ WireOrdered' /\ Released'
  BY <1>1, NoImageFields DEF NoStamp, BridgeInv, CameraTypes, Connected, WireOrdered, Released
<1>5. FramesOrdered'
  BY <1>1, <1>2, <1>3, NoImageFields DEF BridgeInv, FramesOrdered
<1> QED
  BY <1>4, <1>5 DEF BridgeInv

LEMMA CameraTimeKeeps ==
  ASSUME BridgeInv, CameraTimePasses
  PROVE  BridgeInv'
<1>1. /\ processor # "publishing"
      /\ reader' = IF reader = "waiting" THEN "connecting" ELSE reader
      /\ wire' = [i \in 1..Len(wire) |-> [wire[i] EXCEPT !.age = Older(@, TooOld)]]
      /\ mailbox' = [mailbox EXCEPT !.age = Older(@, TooOld)]
      /\ in_hand' = [in_hand EXCEPT !.age = Older(@, TooOld)]
      /\ UNCHANGED <<record_sequence, generation, active_connection, processor, shown>>
  BY DEF CameraTimePasses
<1>2. \A age \in Int : Older(age, TooOld) \in Int
  BY CameraAssumption DEF Older, TooOld
<1>3. wire \in Seq(WireRecord) /\ Len(wire) \in Nat
  BY DEF BridgeInv, CameraTypes
<1>4. ASSUME NEW i \in 1..Len(wire)
      PROVE  [wire[i] EXCEPT !.age = Older(@, TooOld)] \in WireRecord
  <2>1. wire[i] \in WireRecord
    BY <1>3
  <2> QED
    BY <1>2, <2>1 DEF WireRecord
<1>5. wire' \in Seq(WireRecord) /\ Len(wire') = Len(wire)
  BY <1>1, <1>3, <1>4
<1>6. \A i \in 1..Len(wire) : wire'[i].sequence = wire[i].sequence
  <2> SUFFICES ASSUME NEW i \in 1..Len(wire) PROVE wire'[i].sequence = wire[i].sequence
    OBVIOUS
  <2>1. wire[i] \in WireRecord /\ wire'[i] = [wire[i] EXCEPT !.age = Older(@, TooOld)]
    BY <1>1, <1>3
  <2> QED
    BY <2>1 DEF WireRecord
<1>7. /\ DOMAIN mailbox' = Fields /\ DOMAIN in_hand' = Fields
      /\ mailbox'.age \in Int /\ in_hand'.age \in Int
      /\ mailbox'.generation = mailbox.generation /\ mailbox'.sequence = mailbox.sequence
      /\ in_hand'.generation = in_hand.generation /\ in_hand'.sequence = in_hand.sequence
  BY <1>1, <1>2 DEF BridgeInv, CameraTypes, Fields
<1>8. wire = <<>> => wire' = <<>>
  BY <1>3, <1>5
<1>9. CameraTypes' /\ Connected' /\ WireOrdered' /\ Released'
  <2>1. CameraTypes'
    BY <1>1, <1>5, <1>7 DEF BridgeInv, CameraTypes
  <2>2. Connected' /\ Released'
    BY <1>1, <1>8 DEF BridgeInv, Connected, Released
  <2>3. WireOrdered'
    BY <1>1, <1>5, <1>6 DEF BridgeInv, WireOrdered
  <2> QED
    BY <2>1, <2>2, <2>3
<1>10. ASSUME NEW g, NEW s, Passed(g, s)
       PROVE  Passed(g, s)'
  BY <1>1, <1>5, <1>6, <1>10 DEF Passed
<1>11. mailbox'.generation = 0 => mailbox' = NoImage
  <2> SUFFICES ASSUME mailbox'.generation = 0 PROVE mailbox' = NoImage
    OBVIOUS
  <2>1. mailbox = NoImage
    BY <1>7 DEF BridgeInv, FramesOrdered
  <2>2. Older(NoStamp, TooOld) = NoStamp
    BY DEF Older
  <2> QED
    BY <1>1, <2>1, <2>2 DEF NoImage
<1>12. FramesOrdered'
  BY <1>1, <1>7, <1>10, <1>11 DEF BridgeInv, FramesOrdered
<1> QED
  BY <1>9, <1>12 DEF BridgeInv

LEMMA BridgeKeeps == BridgeInv /\ [BridgeNext]_bridge_vars => BridgeInv'
<1> SUFFICES ASSUME BridgeInv, [BridgeNext]_bridge_vars PROVE BridgeInv'
  OBVIOUS
<1>1. CASE UNCHANGED bridge_vars
  BY <1>1 DEF bridge_vars, reader_vars, processor_vars, BridgeInv, CameraTypes, Connected,
     WireOrdered, FramesOrdered, Passed, Released
<1>2. CASE BridgeNext
  BY <1>2, SendKeeps, ReaderKeeps, ReceiveKeeps, DisconnectKeeps, ProcessorKeeps,
     StopBridgeKeeps, CameraTimeKeeps DEF BridgeNext
<1> QED
  BY <1>1, <1>2

\* Whatever is published is younger than FrameAge, of the newest connection and after
\* what was published before it: however slow the decoder, however often the daemon
\* starts to count again, whatever number of frames and connections.
THEOREM FramesAreCurrent == BridgeSpec => PublicationIsCurrent
<1>1. BridgeInit => BridgeInv
  BY BridgeInitially
<1>2. BridgeInv /\ [BridgeNext]_bridge_vars => BridgeInv'
  BY BridgeKeeps
<1>3. ASSUME BridgeInv, BridgeNext, shown' # shown
      PROVE  /\ shown'.age <= FrameAge /\ shown'.generation = generation
             /\ Before(shown.generation, shown.sequence, shown'.generation, shown'.sequence)
  <2>1. Publish
    BY <1>3 DEF BridgeNext, SendRecord, RestartDaemon, Connect, ConnectFails,
       ActivateConnection, Receive, ReadFails, Disconnect, TakeFrame, LookFirst, LookAgain,
       Look, Decode, NoteRecovery, StopBridge, CameraTimePasses, ByReader, processor_vars
  <2> QED
    BY <1>3, <2>1 DEF Publish, BridgeInv, Released, FramesOrdered
<1>4. BridgeInv /\ [BridgeNext]_bridge_vars =>
        [shown' # shown
           => /\ shown'.age <= FrameAge /\ shown'.generation = generation
              /\ Before(shown.generation, shown.sequence, shown'.generation, shown'.sequence)
        ]_bridge_vars
  BY <1>3
<1> QED
  BY <1>1, <1>2, <1>4, PTL DEF BridgeSpec, PublicationIsCurrent

-----------------------------------------------------------------------------
(* The relay of the motion state: a heartbeat is never younger than the look at   *)
(* the approval it stands for, wherever it waits, nor a verified graph than the   *)
(* last moment of one exact publisher.                                            *)

AgesOK ==
  /\ {heartbeat_pipe, heartbeat, started, graph_verified} \subseteq Int
  /\ approved_age \in Nat /\ endpoint_age \in Nat
  /\ heartbeat_pipe >= NoStamp /\ heartbeat >= NoStamp /\ graph_verified >= NoStamp

\* stamp is of a moment at which the age of the fact was 0.
Vouches(stamped, age) == stamped # NoStamp => age <= stamped

BeatsVouch ==
  /\ approved => approved_age = 0
  /\ Vouches(heartbeat_pipe, approved_age) /\ Vouches(heartbeat, approved_age)

GraphVouches ==
  /\ DOMAIN graph = {"gid", "polls"} /\ graph.polls \in Nat
  /\ OneExact(endpoints) => endpoint_age = 0
  /\ Vouches(graph_verified, endpoint_age)
  /\ graph.polls = StablePolls => graph_verified # NoStamp

\* The worker is started once, and knows whom it relays.
OneWriter ==
  /\ supervisor = "starting" => relay = "none"
  /\ relay # "ended" =>
       /\ relayed.by = {} \/ relayed.by = {message_gid}
       /\ relayed.by # {} => message_gid # NoWriter

RelayInv == AgesOK /\ BeatsVouch /\ GraphVouches /\ OneWriter

NoGraph == [gid |-> NoWriter, polls |-> 0]

LEMMA NoGraphFields == DOMAIN NoGraph = {"gid", "polls"} /\ NoGraph.polls = 0
  BY DEF NoGraph

LEMMA AgesGrow ==
  ASSUME NEW stamped \in Int, NEW age \in Nat, NEW limit \in Nat, stamped >= NoStamp,
         Vouches(stamped, age)
  PROVE  /\ Older(stamped, limit) \in Int /\ Older(stamped, limit) >= NoStamp
         /\ Older(age, limit) \in Nat
         /\ Vouches(Older(stamped, limit), Older(age, limit))
         /\ Vouches(Older(stamped, limit), 0)
         /\ Older(stamped, limit) = NoStamp => stamped = NoStamp
  BY DEF Older, Vouches, NoStamp

\* The worker goes, and with it what it knew.
LEMMA EndsClean ==
  ASSUME RelayInv, WorkerEnds, UNCHANGED world, supervisor' # "starting"
  PROVE  RelayInv'
<1>1. graph' = NoGraph
  BY DEF WorkerEnds, NoGraph
<1>2. AgesOK' /\ BeatsVouch'
  BY DEF RelayInv, AgesOK, BeatsVouch, Vouches, WorkerEnds, world, NoStamp
<1>3. GraphVouches'
  BY <1>1, NoGraphFields, MotionRelayAssumption
  DEF RelayInv, GraphVouches, Vouches, WorkerEnds, world, OneExact
<1>4. OneWriter'
  BY DEF OneWriter, WorkerEnds
<1> QED
  BY <1>2, <1>3, <1>4 DEF RelayInv

\* The supervisor looks at the approval before it beats.
LEMMA SupervisorKeeps ==
  ASSUME RelayInv, LaunchWorker \/ Supervise \/ RequestStop \/ KillSupervisor
  PROVE  RelayInv'
<1>1. UNCHANGED <<started, heartbeat, graph_verified, gid_vars, sample_vars, world>>
  BY DEF LaunchWorker, Supervise, RequestStop, KillSupervisor, BySupervisor
<1>2. heartbeat_pipe' = heartbeat_pipe \/ (heartbeat_pipe' = 0 /\ approved)
  <2>1. LaunchWorker => heartbeat_pipe' = heartbeat_pipe \/ (heartbeat_pipe' = 0 /\ approved)
    BY DEF LaunchWorker, ContractStands
  <2>2. Supervise => heartbeat_pipe' = heartbeat_pipe \/ (heartbeat_pipe' = 0 /\ approved)
    BY DEF Supervise, RoundFails, FailRound, Beat, ContractStands
  <2> QED
    BY <2>1, <2>2 DEF RequestStop, KillSupervisor
<1>3. supervisor' # "starting" /\ (relay' = relay \/ (relay = "none" /\ relay' = "launched"))
  BY DEF LaunchWorker, Supervise, FailRound, RequestStop, KillSupervisor, RelayInv, OneWriter
<1>4. AgesOK' /\ BeatsVouch'
  BY <1>1, <1>2 DEF RelayInv, AgesOK, BeatsVouch, Vouches, world, NoStamp
<1>5. GraphVouches'
  BY <1>1 DEF RelayInv, GraphVouches, Vouches, gid_vars, world, OneExact
<1>6. OneWriter'
  BY <1>1, <1>3 DEF RelayInv, OneWriter, gid_vars, sample_vars
<1> QED
  BY <1>4, <1>5, <1>6 DEF RelayInv

\* A heartbeat that is read is as old as it was in the pipe.
LEMMA DrainKeeps ==
  ASSUME RelayInv, DrainHeartbeat
  PROVE  /\ {heartbeat_pipe', heartbeat'} \subseteq Int
         /\ heartbeat_pipe' >= NoStamp /\ heartbeat' >= NoStamp
         /\ Vouches(heartbeat_pipe', approved_age) /\ Vouches(heartbeat', approved_age)
         /\ HeartbeatFresh => approved_age <= HeartbeatAge
  BY MotionRelayAssumption
  DEF RelayInv, AgesOK, BeatsVouch, DrainHeartbeat, Vouches, HeartbeatFresh, NoStamp

LEMMA PollKeeps ==
  ASSUME RelayInv, Poll
  PROVE  RelayInv'
<1>1. /\ relay = "running" /\ DrainHeartbeat
      /\ relay' \in {"running", "faulted"}
      /\ UNCHANGED <<supervisor_vars, world, started, message_gid, stable_samples, sample_vars>>
  BY DEF Poll, ByRelay, LatchFault, Working
<1>2. AgesOK' /\ BeatsVouch'
  <2>1. graph_verified' = graph_verified \/ graph_verified' = 0
    BY DEF Poll
  <2> QED
    BY <1>1, <2>1, DrainKeeps DEF RelayInv, AgesOK, BeatsVouch, world, NoStamp
<1>3. GraphVouches'
  <2>1. CASE UNCHANGED <<graph, graph_verified>>
    BY <1>1, <2>1 DEF RelayInv, GraphVouches, world, OneExact, Vouches
  <2>2. CASE /\ GraphIsExact
             /\ graph' = [gid |-> CHOOSE writer \in endpoints : TRUE,
                          polls |-> IF GraphBound THEN graph.polls ELSE graph.polls + 1]
             /\ graph_verified' = IF graph'.polls = StablePolls THEN 0 ELSE graph_verified
    <3>1. endpoint_age = 0
      BY <2>2 DEF GraphIsExact, OneExact, RelayInv, GraphVouches
    <3>2. DOMAIN graph' = {"gid", "polls"} /\ graph'.polls \in Nat
      BY <2>2 DEF RelayInv, GraphVouches
    <3>3. Vouches(graph_verified', 0)
      BY <2>2 DEF RelayInv, AgesOK, Vouches, NoStamp
    <3> QED
      BY <1>1, <2>2, <3>1, <3>2, <3>3 DEF GraphVouches, world, OneExact, NoStamp
  <2> QED
    BY <2>1, <2>2 DEF Poll
<1>4. OneWriter'
  BY <1>1 DEF RelayInv, OneWriter, supervisor_vars, sample_vars
<1> QED
  BY <1>2, <1>3, <1>4 DEF RelayInv

\* A message that passes the guard is of the writer the guard has bound.
LEMMA IdentifiedRelays ==
  ASSUME RelayInv, relay = "running", NEW writer \in Writer,
         NEW stamped \in {"fresh", "old", "future", "invalid", "replayed"},
         Identified(writer, stamped)
  PROVE  /\ relay' \in {"running", "faulted"}
         /\ \/ UNCHANGED <<message_gid, relayed>>
            \/ message_gid' = writer /\ message_gid \in {NoWriter, writer}
               /\ (relayed' = relayed \/ relayed'.by = relayed.by \cup {writer})
<1>1. ASSUME Sample(writer, stamped)
      PROVE  /\ relay' \in {"running", "faulted"}
             /\ relayed' = relayed \/ relayed'.by = relayed.by \cup {writer}
  <2> DEFINE published == [by |-> relayed.by \cup {writer}, turn |-> ~relayed.turn]
  <2>1. published.by = relayed.by \cup {writer}
    BY Zenon
  <2> HIDE DEF published
  <2>2. CASE stamped = "fresh"
    <3>1. \/ ready_emitted /\ relayed' = published /\ Working
          \/ (Working \/ EmitReady) /\ relayed' = relayed
      BY <1>1, <2>2 DEF Sample, published
    <3> QED
      BY <2>1, <3>1 DEF Working, EmitReady
  <2>3. CASE stamped # "fresh"
    BY <1>1, <2>3 DEF Sample, LatchFault, Working, sample_vars
  <2> QED
    BY <2>2, <2>3
<1> QED
  BY <1>1 DEF Identified, LatchFault, Working, sample_vars

LEMMA MessageKeeps ==
  ASSUME RelayInv, ObserveMessage
  PROVE  /\ RelayInv'
         /\ relayed' # relayed =>
              /\ Cardinality(relayed'.by) = 1
              /\ approved_age <= HeartbeatAge
              /\ endpoint_age <= GraphAge
<1>1. /\ relay = "running" /\ DrainHeartbeat
      /\ UNCHANGED <<supervisor_vars, world, started, graph_verified, graph>>
  BY DEF ObserveMessage, ByRelay
<1>2. \/ relay' \in {"running", "faulted"} /\ UNCHANGED <<message_gid, relayed>>
      \/ /\ HeartbeatFresh /\ GraphBound /\ graph_verified <= GraphAge
         /\ \E writer \in Writer :
              /\ relay' \in {"running", "faulted"}
              /\ \/ UNCHANGED <<message_gid, relayed>>
                 \/ message_gid' = writer /\ message_gid \in {NoWriter, writer}
                    /\ (relayed' = relayed \/ relayed'.by = relayed.by \cup {writer})
  <2>1. PICK writer \in Writer, stamped \in {"fresh", "old", "future", "invalid", "replayed"},
          wellformed \in BOOLEAN :
          \/ LatchFault /\ UNCHANGED <<message_gid, stable_samples, sample_vars>>
          \/ /\ HeartbeatFresh /\ GraphBound /\ graph_verified <= GraphAge
             /\ Identified(writer, stamped)
          \/ Working /\ UNCHANGED <<message_gid, stable_samples, sample_vars>>
    BY DEF ObserveMessage
  <2> QED
    BY <1>1, <2>1, IdentifiedRelays DEF LatchFault, Working, sample_vars
<1>3. AgesOK' /\ BeatsVouch'
  BY <1>1, DrainKeeps DEF RelayInv, AgesOK, BeatsVouch, world
<1>4. GraphVouches'
  BY <1>1 DEF RelayInv, GraphVouches, Vouches, world, OneExact
<1>5. ASSUME relayed' # relayed
      PROVE  \E writer \in Writer :
               message_gid' = writer /\ relayed'.by = {writer}
  <2>1. PICK writer \in Writer :
          /\ message_gid' = writer /\ message_gid \in {NoWriter, writer}
          /\ relayed'.by = relayed.by \cup {writer}
    BY <1>2, <1>5
  <2>2. relayed.by = {} \/ relayed.by = {writer}
    BY <1>1, <2>1 DEF RelayInv, OneWriter
  <2> QED
    BY <2>1, <2>2
<1>6. OneWriter'
  <2>1. relay' \in {"running", "faulted"} /\ UNCHANGED supervisor
    BY <1>1, <1>2 DEF supervisor_vars
  <2>2. CASE relayed' # relayed
    BY <1>1, <1>5, <2>1, <2>2, MotionRelayAssumption DEF RelayInv, OneWriter
  <2>3. CASE relayed' = relayed
    <3>1. message_gid' = message_gid
          \/ (message_gid' \in Writer /\ message_gid \in {NoWriter, message_gid'})
      BY <1>2, <2>3
    <3> QED
      BY <1>1, <2>1, <2>3, <3>1, MotionRelayAssumption DEF RelayInv, OneWriter
  <2> QED
    BY <2>2, <2>3
<1>7. ASSUME relayed' # relayed
      PROVE  /\ Cardinality(relayed'.by) = 1
             /\ approved_age <= HeartbeatAge
             /\ endpoint_age <= GraphAge
  <2>1. HeartbeatFresh /\ GraphBound /\ graph_verified <= GraphAge
    BY <1>2, <1>7
  <2>2. endpoint_age <= graph_verified
    BY <2>1 DEF GraphBound, RelayInv, GraphVouches, Vouches
  <2>3. endpoint_age <= GraphAge
    BY <2>1, <2>2, MotionRelayAssumption DEF RelayInv, AgesOK
  <2> QED
    BY <1>1, <1>5, <1>7, <2>1, <2>3, DrainKeeps, FS_Singleton
<1> QED
  BY <1>3, <1>4, <1>6, <1>7 DEF RelayInv

LEMMA WorldKeeps ==
  ASSUME RelayInv, EndpointsChange \/ ApprovalChanges \/ RelayTimePasses \/ Construct
  PROVE  RelayInv'
<1>1. UNCHANGED <<supervisor, graph, message_gid, relayed>>
  BY DEF EndpointsChange, ApprovalChanges, RelayTimePasses, Construct, ByRelay, gid_vars,
     sample_vars, supervisor_vars
<1>2. OneWriter'
  <2>1. relay' = relay \/ (relay = "launched" /\ relay' = "running")
    BY DEF EndpointsChange, ApprovalChanges, RelayTimePasses, Construct
  <2> QED
    BY <1>1, <2>1 DEF RelayInv, OneWriter
<1>3. CASE EndpointsChange
  <2>1. AgesOK' /\ BeatsVouch'
    BY <1>3 DEF EndpointsChange, RelayInv, AgesOK, BeatsVouch, Vouches
  <2>2. GraphVouches'
    BY <1>1, <1>3 DEF EndpointsChange, RelayInv, AgesOK, GraphVouches, Vouches, NoStamp
  <2> QED
    BY <1>2, <2>1, <2>2 DEF RelayInv
<1>4. CASE ApprovalChanges
  BY <1>1, <1>2, <1>4
  DEF ApprovalChanges, RelayInv, AgesOK, BeatsVouch, GraphVouches, Vouches, NoStamp, OneExact
<1>5. CASE Construct
  BY <1>1, <1>2, <1>5
  DEF Construct, ByRelay, world, RelayInv, AgesOK, BeatsVouch, GraphVouches, Vouches, OneExact
<1>6. CASE RelayTimePasses
  <2>1. /\ heartbeat_pipe' = Older(heartbeat_pipe, HeartbeatAge + 1)
        /\ heartbeat' = Older(heartbeat, HeartbeatAge + 1)
        /\ started' = Older(started, InitialTime + 1)
        /\ graph_verified' = Older(graph_verified, GraphAge + 1)
        /\ approved_age' = IF approved THEN 0 ELSE Older(approved_age, HeartbeatAge + 1)
        /\ endpoint_age' = IF OneExact(endpoints) THEN 0 ELSE Older(endpoint_age, GraphAge + 1)
        /\ UNCHANGED <<endpoints, approved>>
    BY <1>6 DEF RelayTimePasses, BeatOlder, GraphOlder
  <2>2. /\ HeartbeatAge + 1 \in Nat /\ GraphAge + 1 \in Nat
        /\ Older(started, InitialTime + 1) \in Int
    BY MotionRelayAssumption DEF RelayInv, AgesOK, Older
  <2>3. AgesOK' /\ BeatsVouch'
    <3>1. /\ heartbeat_pipe' \in Int /\ heartbeat_pipe' >= NoStamp
          /\ approved_age' \in Nat /\ Vouches(heartbeat_pipe', approved_age')
      BY <2>1, <2>2, AgesGrow DEF RelayInv, AgesOK, BeatsVouch
    <3>2. /\ heartbeat' \in Int /\ heartbeat' >= NoStamp
          /\ Vouches(heartbeat', approved_age')
      BY <2>1, <2>2, AgesGrow DEF RelayInv, AgesOK, BeatsVouch
    <3>3. /\ graph_verified' \in Int /\ graph_verified' >= NoStamp /\ endpoint_age' \in Nat
      BY <2>1, <2>2, AgesGrow DEF RelayInv, AgesOK, GraphVouches
    <3>4. approved' => approved_age' = 0
      BY <2>1
    <3> QED
      BY <2>1, <2>2, <3>1, <3>2, <3>3, <3>4 DEF AgesOK, BeatsVouch
  <2>4. GraphVouches'
    BY <1>1, <2>1, <2>2, AgesGrow DEF RelayInv, AgesOK, GraphVouches, OneExact
  <2> QED
    BY <1>2, <2>3, <2>4 DEF RelayInv
<1> QED
  BY <1>3, <1>4, <1>5, <1>6

LEMMA RelayKeeps == RelayInv /\ [RelayNext]_relay_vars => RelayInv'
<1> SUFFICES ASSUME RelayInv, [RelayNext]_relay_vars PROVE RelayInv'
  OBVIOUS
<1>1. CASE UNCHANGED relay_vars
  BY <1>1 DEF relay_vars, supervisor_vars, gid_vars, sample_vars, world, RelayInv, AgesOK,
     BeatsVouch, GraphVouches, OneWriter, Vouches, OneExact
<1>2. CASE Reap \/ ExitWorker \/ CrashWorker
  <2>1. WorkerEnds /\ UNCHANGED world /\ supervisor' # "starting"
    BY <1>2 DEF Reap, ExitWorker, CrashWorker, ByRelay, supervisor_vars, RelayInv, OneWriter
  <2> QED
    BY <2>1, EndsClean
<1>3. CASE LaunchWorker \/ Supervise \/ RequestStop \/ KillSupervisor
  BY <1>3, SupervisorKeeps
<1> QED
  BY <1>1, <1>2, <1>3, PollKeeps, MessageKeeps, WorldKeeps DEF RelayNext

\* Whatever the relay publishes comes from one writer, at most HeartbeatAge after the
\* approval stood and at most GraphAge after the topic had one exact publisher: for any
\* publishers, limits and numbers of samples, and a supervisor or worker that stalls, is
\* killed or crashes.
THEOREM RelayAttested == RelaySpec => RelayedIsAttested
<1>1. RelayInit => RelayInv
  <2> SUFFICES ASSUME RelayInit PROVE RelayInv
    OBVIOUS
  <2>1. graph = NoGraph
    BY DEF RelayInit, NoGraph
  <2>2. relayed.by = {}
    BY DEF RelayInit
  <2> QED
    BY <2>1, <2>2, NoGraphFields, MotionRelayAssumption
    DEF RelayInit, RelayInv, AgesOK, BeatsVouch, GraphVouches, OneWriter, Vouches, NoStamp
<1>2. RelayInv /\ [RelayNext]_relay_vars => RelayInv'
  BY RelayKeeps
<1>3. RelayInv /\ [RelayNext]_relay_vars =>
        [relayed' # relayed =>
           /\ Cardinality(relayed'.by) = 1
           /\ approved_age <= HeartbeatAge
           /\ endpoint_age <= GraphAge]_relay_vars
  <2> SUFFICES ASSUME RelayInv, RelayNext, relayed' # relayed
               PROVE  /\ Cardinality(relayed'.by) = 1
                      /\ approved_age <= HeartbeatAge
                      /\ endpoint_age <= GraphAge
    OBVIOUS
  <2>1. ObserveMessage
    BY DEF RelayNext, LaunchWorker, Supervise, RequestStop, KillSupervisor, Reap, Construct,
       Poll, ExitWorker, CrashWorker, EndpointsChange, ApprovalChanges, RelayTimePasses,
       BySupervisor, WorkerEnds, sample_vars
  <2> QED
    BY <2>1, MessageKeeps
<1> QED
  BY <1>1, <1>2, <1>3, PTL DEF RelaySpec, RelayedIsAttested

-----------------------------------------------------------------------------
(* The person in the box, and the distance of that person                          *)

\* A box without a person has no flow, one with a person no candidate, and a candidate
\* has been sighted as often as it counts.
TargetOK ==
  /\ box \in Person \cup {Nobody} /\ candidate_box \in Person \cup {Nobody}
  /\ flow \in -1..TrackedFrames /\ blind \in Nat
  /\ box = Nobody => flow = -1
  /\ flow >= 0 => blind <= flow
  /\ box # Nobody => candidate_box = Nobody
  /\ candidate_box # Nobody => /\ candidate_count \in 1..(Confirmation - 1)
                               /\ <<candidate_box, candidate_count>> \in sightings

\* A jump that is pending has as many votes as it counts.
JumpOK ==
  /\ votes \in [Depth -> Nat] /\ jump \in Depth \cup {0}
  /\ jump_count \in Nat /\ jump_count < JumpConfirmation
  /\ jump \in Depth => votes[jump] >= jump_count

EstimatorInv == TargetOK /\ JumpOK

LEMMA EstimatorLimits ==
  /\ Confirmation \in Nat \ {0} /\ Memory \in Nat \ {0}
  /\ TrackedFrames \in Nat \ {0} /\ JumpConfirmation \in Nat \ {0}
  /\ Nobody \notin Person /\ 0 \notin Depth
  BY EstimatorAssumption

LEMMA FlowGoesOn ==
  ASSUME TargetOK, NEW flows \in BOOLEAN, Continue(flows)
  PROVE  /\ \/ flow >= 0 /\ flow' = flow + 1 /\ flow' <= TrackedFrames /\ box' = box
            \/ flow' = -1
         /\ box' \in {box, Nobody}
  BY EstimatorLimits DEF TargetOK, Continue

\* A frame on which found were detected moves the box; one that appears, or stays a
\* candidate, was sighted that often.
Chosen(found, near) ==
  /\ box' \in Person \cup {Nobody} /\ candidate_box' \in Person \cup {Nobody}
  /\ flow' \in -1..TrackedFrames
  /\ flow' = 0 \/ flow' = -1 \/ (flow >= 0 /\ flow' = flow + 1)
  /\ box' = Nobody => flow' = -1
  /\ box' # Nobody => candidate_box' = Nobody
  /\ candidate_box' # Nobody
       => /\ candidate_count' \in 1..(Confirmation - 1)
          /\ <<candidate_box', candidate_count'>> \in Sighted(found, near)
  /\ box = Nobody /\ flow' >= 0 => <<box', Confirmation>> \in Sighted(found, near)

\* Who was found was sighted once, and once more than whom it matches.
LEMMA SightedAgain ==
  ASSUME NEW found, NEW near \in BOOLEAN, NEW p \in found
  PROVE  /\ <<p, 1>> \in Sighted(found, near)
         /\ \A q : \A n \in 1..(Confirmation - 1) :
              (p = q \/ near) /\ <<q, n>> \in sightings
                => <<p, n + 1>> \in Sighted(found, near)
<1> USE EstimatorLimits
<1>1. <<p, 1>> \in Sighted(found, near)
  BY DEF Sighted
<1>2. ASSUME NEW q, NEW n \in 1..(Confirmation - 1), p = q \/ near, <<q, n>> \in sightings
      PROVE  <<p, n + 1>> \in Sighted(found, near)
  <2>1. AtMost(n + 1, Confirmation) = n + 1 /\ n + 1 \in 1..Confirmation
    BY DEF AtMost
  <2> QED
    BY <1>2, <2>1 DEF Sighted
<1> QED
  BY <1>1, <1>2

LEMMA TargetSelected ==
  ASSUME TargetOK, NEW found \in SUBSET Person, NEW near \in BOOLEAN, NEW flows \in BOOLEAN,
         SelectTarget(found, near, flows)
  PROVE  Chosen(found, near)
<1> USE EstimatorLimits DEF Chosen
<1>0. \A p \in Person : Select(p) =>
        /\ box' = p /\ box' # Nobody /\ candidate_box' = Nobody /\ flow' = 0
        /\ 0 \in -1..TrackedFrames
  BY DEF Select
<1>1. CASE Acquire(found, near, flows)
  <2>1. box = Nobody /\ flow = -1
    BY <1>1 DEF Acquire, TargetOK
  <2>2. PICK p \in found, n \in 1..Confirmation :
          /\ <<p, n>> \in Sighted(found, near)
          /\ \/ Select(p) /\ n = Confirmation
             \/ /\ candidate_box' = p /\ candidate_count' = n /\ n < Confirmation
                /\ Continue(flows)
    <3>1. CASE candidate_box # Nobody /\ Matches(found, candidate_box, near) # {}
      <4>1. PICK p \in Matches(found, candidate_box, near) :
              IF candidate_count + 1 >= Confirmation THEN Select(p)
              ELSE /\ candidate_box' = p /\ candidate_count' = candidate_count + 1
                   /\ Continue(flows)
        BY <1>1, <3>1 DEF Acquire
      <4>2. p \in found /\ (p = candidate_box \/ near)
        BY DEF Matches
      <4>3. candidate_count \in 1..(Confirmation - 1)
            /\ <<candidate_box, candidate_count>> \in sightings
        BY <3>1 DEF TargetOK
      <4>4. candidate_count + 1 \in 1..Confirmation
        BY <4>3
      <4>5. \A q : \A n \in 1..(Confirmation - 1) :
              (p = q \/ near) /\ <<q, n>> \in sightings
                => <<p, n + 1>> \in Sighted(found, near)
        BY <4>2, SightedAgain
      <4>6. <<p, candidate_count + 1>> \in Sighted(found, near)
        BY <4>2, <4>3, <4>5
      <4> QED
        BY <4>1, <4>2, <4>3, <4>4, <4>6
    <3>2. CASE ~(candidate_box # Nobody /\ Matches(found, candidate_box, near) # {})
      <4>1. PICK p \in found :
              IF Confirmation = 1 THEN Select(p)
              ELSE /\ candidate_box' = p /\ candidate_count' = 1
                   /\ Continue(flows)
        BY <1>1, <3>2 DEF Acquire
      <4>2. <<p, 1>> \in Sighted(found, near) /\ 1 \in 1..Confirmation
        BY SightedAgain
      <4> QED
        BY <4>1, <4>2
    <3> QED
      BY <3>1, <3>2
  <2>3. CASE Select(p) /\ n = Confirmation
    BY <1>0, <2>1, <2>2, <2>3
  <2>4. CASE /\ candidate_box' = p /\ candidate_count' = n /\ n < Confirmation
             /\ Continue(flows)
    <3>1. flow' = -1 /\ box' = Nobody
      BY <2>1, <2>4, FlowGoesOn
    <3> QED
      BY <2>2, <2>4, <3>1
  <2> QED
    BY <2>2, <2>3, <2>4
<1>2. CASE Forget(found, flows)
  BY <1>2, FlowGoesOn DEF Forget, TargetOK
<1>3. CASE Follow(found, near, flows)
  <2>1. box # Nobody /\ candidate_box = Nobody
    BY <1>3 DEF Follow, TargetOK
  <2>2. \/ \E p \in found : Select(p)
        \/ Continue(flows) /\ candidate_box' = candidate_box
    BY <1>3 DEF Follow, Matches
  <2>3. CASE \E p \in found : Select(p)
    BY <1>0, <2>1, <2>3
  <2>4. CASE Continue(flows) /\ candidate_box' = candidate_box
    BY <2>1, <2>4, FlowGoesOn DEF TargetOK
  <2> QED
    BY <2>2, <2>3, <2>4
<1> QED
  BY <1>1, <1>2, <1>3 DEF SelectTarget

LEMMA DepthRead ==
  ASSUME JumpOK, NEW metres \in Depth, Reading(metres)
  PROVE  /\ JumpOK'
         /\ report' \in {0, metres}
         /\ report' # 0 /\ accepted \notin {0, report'}
              => votes[report'] >= JumpConfirmation - 1
<1> USE EstimatorLimits
<1>1. ASSUME Accept(metres)
      PROVE  JumpOK' /\ report' = metres
  BY <1>1 DEF Accept, JumpOK
<1>2. CASE accepted \in {0, metres}
  BY <1>1, <1>2 DEF Reading
<1>3. CASE accepted \notin {0, metres}
  <2> DEFINE count == IF jump = metres THEN jump_count + 1 ELSE 1
  <2>1. count \in Nat /\ count <= votes[metres] + 1 /\ count >= 1
    BY DEF JumpOK
  <2>2. \/ count >= JumpConfirmation /\ Accept(metres)
        \/ /\ count < JumpConfirmation /\ report' = 0
           /\ jump' = metres /\ jump_count' = count
           /\ votes' = [d \in Depth |-> IF d = metres
                                          THEN AtMost(votes[d] + 1, JumpConfirmation) ELSE 0]
    BY <1>3, <2>1 DEF Reading
  <2> HIDE DEF count
  <2>3. CASE count >= JumpConfirmation /\ Accept(metres)
    <3>1. votes[metres] >= JumpConfirmation - 1
      BY <2>1, <2>3 DEF JumpOK
    <3> QED
      BY <1>1, <2>3, <3>1
  <2>4. CASE /\ count < JumpConfirmation /\ report' = 0
             /\ jump' = metres /\ jump_count' = count
             /\ votes' = [d \in Depth |-> IF d = metres
                                          THEN AtMost(votes[d] + 1, JumpConfirmation) ELSE 0]
    <3>1. AtMost(votes[metres] + 1, JumpConfirmation) \in Nat
          /\ AtMost(votes[metres] + 1, JumpConfirmation) >= count
      BY <2>1, <2>4 DEF AtMost, JumpOK
    <3> QED
      BY <2>1, <2>4, <3>1 DEF JumpOK
  <2> QED
    BY <2>2, <2>3, <2>4
<1> QED
  BY <1>2, <1>3

LEMMA PairEarns ==
  ASSUME EstimatorInv, NEW found \in SUBSET Person, NEW near \in BOOLEAN,
         NEW flows \in BOOLEAN, OnPair(found, near, flows)
  PROVE  /\ EstimatorInv'
         /\ report' # 0
              => /\ blind' <= TrackedFrames
                 /\ box = Nobody => <<box', Confirmation>> \in sightings'
                 /\ accepted \notin {0, report'} => votes[report'] >= JumpConfirmation - 1
<1> USE EstimatorLimits
<1>1. Chosen(found, near)
  BY TargetSelected DEF OnPair, EstimatorInv
<1>2. /\ blind' = (IF flow' = 0 THEN 0 ELSE AtMost(blind + 1, Blind))
      /\ sightings' = Sighted(found, near)
  BY DEF OnPair
<1>3. blind' \in Nat /\ (flow' >= 0 => blind' <= flow')
  <2>1. CASE flow' = 0 \/ flow' = -1
    BY <1>2, <2>1 DEF AtMost, Blind, EstimatorInv, TargetOK
  <2>2. CASE flow >= 0 /\ flow' = flow + 1
    BY <1>1, <1>2, <2>2 DEF AtMost, Blind, EstimatorInv, TargetOK
  <2> QED
    BY <1>1, <2>1, <2>2 DEF Chosen
<1>4. TargetOK'
  BY <1>1, <1>2, <1>3 DEF Chosen, TargetOK
<1>5. NoReading \/ (HasBox /\ \E metres \in Depth : Reading(metres))
  BY DEF OnPair
<1>6. NoReading => JumpOK' /\ report' = 0
  BY DEF NoReading, JumpOK, EstimatorInv
<1>7. JumpOK'
  BY <1>5, <1>6, DepthRead DEF EstimatorInv
<1>8. report' # 0 =>
        /\ HasBox
        /\ accepted \notin {0, report'} => votes[report'] >= JumpConfirmation - 1
  BY <1>5, <1>6, DepthRead DEF EstimatorInv
<1>9. HasBox => /\ blind' <= TrackedFrames
                /\ box = Nobody => <<box', Confirmation>> \in sightings'
  BY <1>1, <1>2, <1>3 DEF HasBox, Chosen, EstimatorInv, TargetOK
<1> QED
  BY <1>4, <1>7, <1>8, <1>9 DEF EstimatorInv

\* A person gets into an empty box when the detector has seen that person, or one who
\* matched in turn, in enough frames in a row, and a distance that jumps is reported
\* when it has been read often enough in a row: for any persons, distances and limits.
THEOREM DistanceEarned == EstimatorSpec => DistanceIsEarned
<1> USE EstimatorLimits
<1>1. EstimatorInit => EstimatorInv
  BY DEF EstimatorInit, EstimatorInv, TargetOK, JumpOK, Blind
<1>2. ASSUME EstimatorInv, [EstimatorNext]_estimator_vars
      PROVE  EstimatorInv'
  <2>1. CASE UNCHANGED estimator_vars
    BY <1>2, <2>1 DEF estimator_vars, target_vars, EstimatorInv, TargetOK, JumpOK
  <2>2. CASE OnRefusedPair
    BY <1>2, <2>2 DEF OnRefusedPair, target_vars, EstimatorInv, TargetOK, JumpOK
  <2>3. CASE Reset
    BY <2>3 DEF Reset, EstimatorInv, TargetOK, JumpOK, Blind
  <2> QED
    BY <1>2, <2>1, <2>2, <2>3, PairEarns DEF EstimatorNext
<1>3. ASSUME EstimatorInv, EstimatorNext, report' # 0
      PROVE  /\ blind' <= TrackedFrames
             /\ box = Nobody => <<box', Confirmation>> \in sightings'
             /\ accepted \notin {0, report'} => votes[report'] >= JumpConfirmation - 1
  BY <1>3, PairEarns DEF EstimatorNext, OnRefusedPair, Reset
<1>4. EstimatorInv /\ [EstimatorNext]_estimator_vars =>
        [report' # 0
           => /\ blind' <= TrackedFrames
              /\ box = Nobody => <<box', Confirmation>> \in sightings'
              /\ accepted \notin {0, report'} => votes[report'] >= JumpConfirmation - 1
        ]_estimator_vars
  BY <1>3
<1> QED
  BY <1>1, <1>2, <1>4, PTL DEF EstimatorSpec, DistanceIsEarned

-----------------------------------------------------------------------------
(* The odometry gate: what a receipt says of its stamp, and what a quarantine  *)
(* waits for                                                                   *)

\* A state that was received so long ago was measured at most StampAge before.
ReceiptBounds ==
  /\ DOMAIN stamp = Source \cup {"odometry"}
  /\ \A source \in Source : stamp[source] \in Int
  /\ state_age \in Int /\ state_age >= NoStamp
  /\ state_age # NoStamp =>
       active_source \in Source /\ stamp[active_source] <= StampAge + state_age

RunFields == {"marker", "samples", "start", "last"}

RunOK(c) ==
  /\ DOMAIN c = RunFields
  /\ c.samples \in Int /\ c.start \in Int /\ c.last \in Int

MarkerTypes ==
  /\ DOMAIN marker = {"bound", "pending", "changed"}
  /\ RunOK(candidate) /\ RunOK(steady)
  /\ steady.marker # "none" => steady.samples >= 1 /\ steady.start >= 0
  /\ disturbed \in BOOLEAN
  /\ marker.bound \in {"none", Zero} \cup Reviewed

\* The candidate is no longer than the run of samples it is taken from.
Within(c, whole) ==
  /\ c.marker = whole.marker /\ c.last = whole.last
  /\ c.samples <= whole.samples /\ c.start <= whole.start

\* Under quarantine the candidate is a part of the unbroken run; outside it there is
\* no candidate, and no odd marker without a run that was long enough since.
Quarantined ==
  /\ ~marker.changed
  /\ state_valid => ~marker.pending
  /\ disturbed => marker.pending
  /\ ~marker.pending => candidate.marker = "none"
  /\ candidate.marker = "none" \/ Within(candidate, steady)

GateInv ==
  /\ ReceiptBounds
  /\ profile.recovery => MarkerTypes /\ Quarantined

LEMMA CandidateFields ==
  /\ RunOK(NoCandidate) /\ NoCandidate.marker = "none"
  /\ \A value : /\ RunOK(Begun(value)) /\ Begun(value).marker = value
                /\ Begun(value).start = 0 /\ Begun(value).samples = 1
                /\ Begun(value).last = 0
  BY DEF NoCandidate, Begun, RunOK, RunFields, NoStamp

\* A step that accepts no state, acknowledges nothing and takes no time.
Keeping ==
  /\ UNCHANGED <<profile, active_source, state_age, marker, candidate, steady, disturbed>>
  /\ state_valid' = state_valid \/ state_valid' = FALSE
  /\ stamp' = stamp \/ \E age : stamp' = [stamp EXCEPT !["odometry"] = age]

LEMMA GateSteps ==
  ASSUME GateNext
  PROVE  \/ Keeping
         \/ \E source \in Source, age \in 0..StampAge, good \in BOOLEAN, value \in Marker :
              AcceptState(source, age, good, value) /\ UNCHANGED profile
              /\ state_valid' \in BOOLEAN
         \/ AcknowledgeMarker
         \/ GateTimePasses
<1>1. RefuseState /\ NothingObserved /\ UNCHANGED <<profile, stamp>> => Keeping
  BY DEF RefuseState, Keeping, NothingObserved
<1>2. ASSUME NEW fresh, Ignore(fresh), NothingObserved, UNCHANGED <<profile, stamp>>
      PROVE  Keeping
  BY <1>2 DEF Ignore, Keeping, state_vars, NothingObserved
<1>3. ASSUME NEW source \in Source, NEW age \in 0..(StampAge + 1), NEW good \in BOOLEAN,
             NEW value \in Marker, OnSportModeState(source, age, good, value)
      PROVE  \/ Keeping
             \/ /\ AcceptState(source, age, good, value) /\ UNCHANGED profile
                /\ state_valid' \in BOOLEAN /\ age \in 0..StampAge
  BY <1>1, <1>2, <1>3, GateAssumption DEF OnSportModeState
<1>4. ASSUME NEW source \in Source, OnMalformedState(source)
      PROVE  Keeping
  BY <1>1, <1>4 DEF OnMalformedState
<1>5. ASSUME NEW age, NEW pose, OnExternalOdometry(age, pose)
      PROVE  Keeping
  BY <1>5 DEF OnExternalOdometry, OdometryUntouched, state_vars, PublishOdometry, Keeping
<1>6. OnRefusedOdometry \/ CheckInterlock \/ OpenSession \/ CloseSession => Keeping
  BY DEF OnRefusedOdometry, CheckInterlock, OpenSession, CloseSession, OdometryUntouched,
     state_vars, Keeping
<1> QED
  BY <1>3, <1>4, <1>5, <1>6, GateAssumption DEF GateNext

LEMMA ReceiptKept ==
  ASSUME GateInv, GateNext
  PROVE  ReceiptBounds'
<1> USE GateAssumption DEF GateInv, ReceiptBounds
<1>1. CASE Keeping
  <2>1. "odometry" \notin Source
    BY DEF Source
  <2> QED
    BY <1>1, <2>1 DEF Keeping
<1>2. CASE AcknowledgeMarker
  BY <1>2 DEF AcknowledgeMarker
<1>3. ASSUME NEW source \in Source, NEW age \in 0..StampAge, NEW good, NEW value,
             AcceptState(source, age, good, value)
      PROVE  ReceiptBounds'
  <2>1. /\ stamp' = [stamp EXCEPT ![source] = age]
        /\ active_source' = source /\ state_age' = 0
    BY <1>3 DEF AcceptState
  <2> QED
    BY <2>1 DEF NoStamp
<1>4. CASE GateTimePasses
  <2>1. /\ stamp' = [s \in DOMAIN stamp |-> Older(stamp[s], StampAge + ReceiptTimeout + 1)]
        /\ state_age' = Older(state_age, ReceiptTimeout + 1)
        /\ active_source' = active_source
    BY <1>4 DEF GateTimePasses
  <2>2. \A n \in Int, limit \in Nat : Older(n, limit) \in Int
    BY DEF Older
  <2>3. ASSUME NEW s \in Int, NEW a \in Nat, s <= StampAge + a
        PROVE  Older(s, StampAge + ReceiptTimeout + 1)
                 <= StampAge + Older(a, ReceiptTimeout + 1)
    BY <2>3 DEF Older, NoStamp
  <2>4. /\ DOMAIN stamp' = Source \cup {"odometry"}
        /\ \A source \in Source :
             /\ stamp'[source] = Older(stamp[source], StampAge + ReceiptTimeout + 1)
             /\ stamp'[source] \in Int
    BY <2>1, <2>2
  <2>5. state_age' \in Int /\ state_age' >= NoStamp /\ (state_age' # NoStamp => state_age \in Nat)
    BY <2>1 DEF Older, NoStamp
  <2>6. ASSUME state_age' # NoStamp
        PROVE  active_source' \in Source /\ stamp'[active_source'] <= StampAge + state_age'
    <3>1. state_age \in Nat /\ state_age # NoStamp
      BY <2>5, <2>6 DEF NoStamp
    <3>2. active_source \in Source /\ stamp[active_source] \in Int
          /\ stamp[active_source] <= StampAge + state_age
      BY <3>1
    <3> QED
      BY <2>1, <2>3, <2>4, <3>1, <3>2
  <2> QED
    BY <2>4, <2>5, <2>6
<1> QED
  BY <1>1, <1>2, <1>3, <1>4, GateSteps

\* Under recovery a marker is bound, or quarantined, or recovers when it has been stable.
LEMMA MarkerObserved ==
  ASSUME MarkerTypes, profile.recovery, ~marker.changed, NEW value \in Marker,
         NEW answer \in BOOLEAN, ObserveMarker(value, answer)
  PROVE  \/ /\ ~marker.pending /\ answer /\ marker' = [marker EXCEPT !.bound = value]
            /\ candidate' = candidate
            /\ \/ value \in Reviewed /\ marker.bound = "none"
               \/ value = Zero /\ marker.bound = "none"
               \/ value = marker.bound
               \/ {value, marker.bound} \subseteq Reviewed
         \/ /\ ~marker.pending /\ ~answer /\ candidate' = NoCandidate
            /\ marker' = [marker EXCEPT !.pending = TRUE]
         \/ /\ marker.pending /\ ~answer /\ value \notin Reviewed
            /\ marker' = marker /\ candidate' = NoCandidate
         \/ /\ marker.pending /\ ~answer /\ value \in Reviewed
            /\ marker' = marker /\ candidate' = Advanced(value)
         \/ /\ marker.pending /\ answer /\ value \in Reviewed
            /\ LongEnough(Advanced(value))
            /\ candidate' = NoCandidate
            /\ marker' = [marker EXCEPT !.bound = value, !.pending = FALSE]
<1>1. CASE marker.pending
  BY <1>1 DEF ObserveMarker, Recover, Stable, LongEnough
<1>2. CASE ~marker.pending
  BY <1>2 DEF ObserveMarker, Quarantine, Eligibles
<1> QED
  BY <1>1, <1>2

\* One more sample: the unbroken run has it, and the candidate stays a part of it.
LEMMA OneMore ==
  ASSUME NEW c, RunOK(c), NEW value, NEW gap \in BOOLEAN,
         NEW longer, longer = IF gap THEN Begun(value)
                              ELSE [c EXCEPT !.samples = Older(@, StableSamples), !.last = 0]
  PROVE  /\ RunOK(longer) /\ longer.last = 0
         /\ gap => longer.marker = value /\ longer.samples = 1 /\ longer.start = 0
         /\ ~gap => /\ longer.marker = c.marker /\ longer.start = c.start
                    /\ longer.samples = Older(c.samples, StableSamples)
<1>1. CASE gap
  BY <1>1, CandidateFields
<1>2. CASE ~gap
  BY <1>2, GateAssumption DEF RunOK, RunFields, Older
<1> QED
  BY <1>1, <1>2

LEMMA SampleObserved ==
  ASSUME MarkerTypes, NEW value \in Marker, Observed(value)
  PROVE  /\ RunOK(steady') /\ disturbed' \in BOOLEAN
         /\ steady'.marker # "none" => steady'.samples >= 1 /\ steady'.start >= 0
         /\ disturbed' => Odd(value) \/ (disturbed /\ ~LongEnough(steady'))
         /\ value \in Reviewed
              => /\ RunOK(Advanced(value)) /\ Advanced(value).marker = value
                 /\ steady'.marker = value
                 /\ candidate.marker = "none" \/ Within(candidate, steady)
                      => Within(Advanced(value), steady')
<1> USE GateAssumption, CandidateFields
<1> DEFINE gap == candidate.marker # value \/ candidate.last > ReceiptTimeout
           break == steady.marker # value \/ steady.last > ReceiptTimeout
<1>1. /\ disturbed' = (Odd(value) \/ (disturbed /\ ~LongEnough(steady')))
      /\ value \notin Reviewed => steady' = NoCandidate
      /\ value \in Reviewed
           => steady' = IF break THEN Begun(value)
                        ELSE [steady EXCEPT !.samples = Older(@, StableSamples), !.last = 0]
  BY DEF Observed
<1>2. disturbed' \in BOOLEAN /\ (disturbed' => Odd(value) \/ (disturbed /\ ~LongEnough(steady')))
  BY <1>1 DEF Odd
<1>3. CASE value \notin Reviewed
  BY <1>1, <1>2, <1>3
<1>4. CASE value \in Reviewed
  <2>1. /\ RunOK(Advanced(value)) /\ Advanced(value).last = 0
        /\ gap => /\ Advanced(value).marker = value
                  /\ Advanced(value).samples = 1 /\ Advanced(value).start = 0
        /\ ~gap => /\ Advanced(value).marker = candidate.marker
                   /\ Advanced(value).start = candidate.start
                   /\ Advanced(value).samples = Older(candidate.samples, StableSamples)
    BY OneMore DEF MarkerTypes, Advanced
  <2>2. /\ RunOK(steady') /\ steady'.last = 0
        /\ break => steady'.marker = value /\ steady'.samples = 1 /\ steady'.start = 0
        /\ ~break => /\ steady'.marker = steady.marker /\ steady'.start = steady.start
                     /\ steady'.samples = Older(steady.samples, StableSamples)
    <3>1. RunOK(steady) /\ break \in BOOLEAN
      BY DEF MarkerTypes
    <3>2. steady' = IF break THEN Begun(value)
                    ELSE [steady EXCEPT !.samples = Older(@, StableSamples), !.last = 0]
      BY <1>1, <1>4
    <3> HIDE DEF break
    <3> QED
      BY <3>1, <3>2, OneMore
  <2>3. value # "none" /\ Advanced(value).marker = value /\ steady'.marker = value
    BY <2>1, <2>2
  <2>4. steady'.samples >= 1 /\ steady'.start >= 0
    BY <2>2, <2>3 DEF MarkerTypes, RunOK, Older
  <2>5. ASSUME candidate.marker = "none" \/ Within(candidate, steady)
        PROVE  Within(Advanced(value), steady')
    <3>1. CASE gap
      BY <2>1, <2>2, <2>3, <2>4, <3>1 DEF Within
    <3>2. CASE ~gap
      <4>1. Within(candidate, steady) /\ ~break
        BY <2>3, <2>5, <3>2 DEF Within
      <4> QED
        BY <2>1, <2>2, <2>3, <3>2, <4>1 DEF Within, MarkerTypes, RunOK, Older
    <3> QED
      BY <3>1, <3>2
  <2> QED
    BY <1>2, <2>1, <2>2, <2>3, <2>4, <2>5
<1> QED
  BY <1>3, <1>4

LEMMA AcceptKeepsQuarantine ==
  ASSUME GateInv, NEW source \in Source, NEW age \in 0..StampAge, NEW good \in BOOLEAN,
         NEW value \in Marker, AcceptState(source, age, good, value), UNCHANGED profile,
         state_valid' \in BOOLEAN, profile.recovery
  PROVE  /\ MarkerTypes' /\ Quarantined'
         /\ marker.pending /\ ~marker'.pending
              => steady'.marker = marker'.bound /\ LongEnough(steady')
<1> USE GateAssumption, CandidateFields
<1>1. IF good THEN ObserveMarker(value, state_valid') /\ Observed(value)
      ELSE ~state_valid' /\ UNCHANGED <<marker, candidate>> /\ NothingObserved
  BY DEF AcceptState
<1>2. MarkerTypes /\ Quarantined /\ ~marker.changed
  BY DEF GateInv, Quarantined
<1>3. CASE ~good
  BY <1>1, <1>2, <1>3 DEF NothingObserved, MarkerTypes, Quarantined
<1>4. CASE good
  <2>0. ObserveMarker(value, state_valid') /\ Observed(value)
    BY <1>1, <1>4
  <2> DEFINE steps == /\ RunOK(steady') /\ disturbed' \in BOOLEAN
                      /\ steady'.marker # "none" => steady'.samples >= 1 /\ steady'.start >= 0
  <2>a. steps /\ (disturbed' => Odd(value) \/ (disturbed /\ ~LongEnough(steady')))
    BY <1>2, <2>0, SampleObserved
  <2>b. ASSUME value \in Reviewed
        PROVE  /\ RunOK(Advanced(value)) /\ steady'.marker = value
               /\ Within(Advanced(value), steady')
    BY <1>2, <2>0, <2>b, SampleObserved DEF Quarantined
  <2> HIDE DEF steps
  <2>1. CASE /\ ~marker.pending /\ state_valid' /\ marker' = [marker EXCEPT !.bound = value]
             /\ candidate' = candidate
             /\ \/ value \in Reviewed /\ marker.bound = "none"
                \/ value = Zero /\ marker.bound = "none"
                \/ value = marker.bound
                \/ {value, marker.bound} \subseteq Reviewed
    <3>1. /\ DOMAIN marker' = {"bound", "pending", "changed"} /\ marker'.bound = value
          /\ ~marker'.pending /\ marker'.changed = marker.changed
      BY <1>2, <2>1 DEF MarkerTypes
    <3>2. value \in {"none", Zero} \cup Reviewed /\ ~Odd(value)
      BY <1>2, <2>1 DEF MarkerTypes, Odd
    <3>3. candidate.marker = "none" /\ ~disturbed'
      BY <1>2, <2>a, <2>1, <3>2 DEF Quarantined
    <3> QED
      BY <1>2, <2>a, <2>1, <3>1, <3>2, <3>3 DEF MarkerTypes, Quarantined, steps
  <2>2. CASE /\ ~marker.pending /\ ~state_valid' /\ candidate' = NoCandidate
             /\ marker' = [marker EXCEPT !.pending = TRUE]
    <3>1. /\ DOMAIN marker' = {"bound", "pending", "changed"} /\ marker'.bound = marker.bound
          /\ marker'.pending /\ marker'.changed = marker.changed
      BY <1>2, <2>2 DEF MarkerTypes
    <3> QED
      BY <1>2, <2>a, <2>2, <3>1 DEF MarkerTypes, Quarantined, steps
  <2>3. CASE /\ marker.pending /\ ~state_valid' /\ value \notin Reviewed
             /\ marker' = marker /\ candidate' = NoCandidate
    BY <1>2, <2>a, <2>3 DEF MarkerTypes, Quarantined, steps
  <2>4. CASE /\ marker.pending /\ ~state_valid' /\ value \in Reviewed
             /\ marker' = marker /\ candidate' = Advanced(value)
    BY <1>2, <2>a, <2>b, <2>4 DEF MarkerTypes, Quarantined, steps
  <2>5. CASE /\ marker.pending /\ state_valid' /\ value \in Reviewed
             /\ LongEnough(Advanced(value))
             /\ candidate' = NoCandidate
             /\ marker' = [marker EXCEPT !.bound = value, !.pending = FALSE]
    <3>1. /\ DOMAIN marker' = {"bound", "pending", "changed"} /\ marker'.bound = value
          /\ ~marker'.pending /\ marker'.changed = marker.changed
      BY <1>2, <2>5 DEF MarkerTypes
    <3>2. LongEnough(steady') /\ steady'.marker = value
      BY <2>a, <2>b, <2>5 DEF LongEnough, Within, RunOK, steps
    <3>3. ~disturbed'
      BY <2>a, <2>5, <3>2 DEF Odd
    <3> QED
      BY <1>2, <2>a, <2>5, <3>1, <3>2, <3>3 DEF MarkerTypes, Quarantined, steps
  <2> QED
    BY <1>2, <2>0, <2>1, <2>2, <2>3, <2>4, <2>5, MarkerObserved
<1> QED
  BY <1>3, <1>4

\* A run of samples grows old, and a part of it stays one.
LEMMA RunAges ==
  ASSUME NEW c, RunOK(c)
  PROVE  /\ RunOK(RunAged(c)) /\ RunAged(c).marker = c.marker /\ RunAged(c).samples = c.samples
         /\ RunAged(c).start = Older(c.start, StableTime)
         /\ RunAged(c).last = Older(c.last, ReceiptTimeout + 1)
  BY GateAssumption DEF RunOK, RunFields, RunAged, Older

LEMMA GateKeeps ==
  ASSUME GateInv, [GateNext]_gate_vars
  PROVE  GateInv'
<1>1. CASE UNCHANGED gate_vars
  BY <1>1 DEF gate_vars, state_vars, odom_vars, GateInv, ReceiptBounds, MarkerTypes,
     Quarantined
<1>2. CASE GateNext
  <2>1. ReceiptBounds'
    BY <1>2, ReceiptKept
  <2>2. CASE Keeping
    BY <2>1, <2>2 DEF Keeping, GateInv, MarkerTypes, Quarantined
  <2>3. ASSUME NEW source \in Source, NEW age \in 0..StampAge, NEW good \in BOOLEAN,
               NEW value \in Marker, AcceptState(source, age, good, value),
               UNCHANGED profile, state_valid' \in BOOLEAN
        PROVE  GateInv'
    BY <2>1, <2>3, AcceptKeepsQuarantine DEF GateInv
  <2>4. CASE AcknowledgeMarker
    <3>1. ~profile.recovery /\ profile' = profile
      BY <2>4 DEF AcknowledgeMarker, GateInv, Quarantined
    <3> QED
      BY <2>1, <3>1 DEF GateInv
  <2>5. CASE GateTimePasses
    <3> SUFFICES ASSUME profile.recovery PROVE MarkerTypes' /\ Quarantined'
      BY <2>1, <2>5 DEF GateInv, GateTimePasses
    <3>1. /\ candidate' = RunAged(candidate) /\ steady' = RunAged(steady)
          /\ UNCHANGED <<marker, state_valid, disturbed>>
      BY <2>5 DEF GateTimePasses
    <3>2. MarkerTypes /\ Quarantined
      BY DEF GateInv
    <3>3. /\ RunOK(candidate') /\ RunOK(steady')
          /\ candidate'.marker = candidate.marker /\ steady'.marker = steady.marker
          /\ candidate'.samples = candidate.samples /\ steady'.samples = steady.samples
          /\ candidate'.start = Older(candidate.start, StableTime)
          /\ steady'.start = Older(steady.start, StableTime)
          /\ candidate'.last = Older(candidate.last, ReceiptTimeout + 1)
          /\ steady'.last = Older(steady.last, ReceiptTimeout + 1)
      BY <3>1, <3>2, RunAges DEF MarkerTypes
    <3>4. steady.start >= 0 => steady'.start >= 0
      BY <3>2, <3>3 DEF MarkerTypes, RunOK, Older
    <3>5. Within(candidate, steady) => Within(candidate', steady')
      BY <3>2, <3>3, GateAssumption DEF Within, MarkerTypes, RunOK, Older, NoStamp
    <3> QED
      BY <3>1, <3>2, <3>3, <3>4, <3>5 DEF MarkerTypes, Quarantined
  <2> QED
    BY <1>2, <2>2, <2>3, <2>4, <2>5, GateSteps
<1> QED
  BY <1>1, <1>2

LEMMA GateStarts ==
  ASSUME GateInit
  PROVE  GateInv
<1> USE CandidateFields, GateAssumption DEF GateInit
<1>1. /\ DOMAIN marker = {"bound", "pending", "changed"} /\ marker.bound = "none"
      /\ ~marker.pending /\ ~marker.changed
  OBVIOUS
<1>2. ReceiptBounds
  BY DEF ReceiptBounds, NoStamp
<1>3. MarkerTypes /\ Quarantined
  BY <1>1 DEF MarkerTypes, Quarantined
<1> QED
  BY <1>2, <1>3 DEF GateInv

LEMMA OnlyFreshPublishes ==
  ASSUME GateNext, canonical' # "none"
  PROVE  StateIsFresh
<1>1. \A source, age, good, value :
        OnSportModeState(source, age, good, value) => canonical' = "none"
  BY DEF OnSportModeState, NothingPublished
<1>2. \A age, pose : OnExternalOdometry(age, pose) => canonical' = "none" \/ StateIsFresh
  BY DEF OnExternalOdometry, NothingPublished
<1> QED
  BY <1>1, <1>2 DEF GateNext, OnMalformedState, OnRefusedOdometry, CheckInterlock, OpenSession,
     CloseSession, AcknowledgeMarker, GateTimePasses, NothingPublished

\* Canonical odometry has a valid sport state behind it that was measured no longer ago
\* than its stamp and its receipt allow together, for any limits, markers and poses.
THEOREM OutputWitnessed == GateSpec => OutputIsWitnessed
<1>1. GateInit => GateInv
  BY GateStarts
<1>2. GateInv /\ [GateNext]_gate_vars => GateInv'
  BY GateKeeps
<1>3. GateInv /\ [GateNext]_gate_vars =>
        [canonical' # "none"
           => state_valid /\ stamp[active_source] <= StampAge + ReceiptTimeout]_gate_vars
  <2> SUFFICES ASSUME GateInv, GateNext, canonical' # "none"
               PROVE  state_valid /\ stamp[active_source] <= StampAge + ReceiptTimeout
    OBVIOUS
  <2>1. state_valid /\ state_age # NoStamp /\ state_age <= ReceiptTimeout
    BY OnlyFreshPublishes DEF StateIsFresh, Fresh
  <2> QED
    BY <2>1, GateAssumption DEF GateInv, ReceiptBounds
<1> QED
  BY <1>1, <1>2, <1>3, PTL DEF GateSpec, OutputIsWitnessed

\* A quarantine ends on the reviewed marker that an unbroken run of samples has shown
\* for the whole time of a recovery, and an odd marker keeps canonical odometry shut
\* until there was such a run, whatever markers, gaps and changes of the stream come in
\* between: for any markers, times and numbers of samples.
THEOREM RecoveryStable == GateSpec => RecoveryNeedsStableMarker
<1>1. GateInit => GateInv
  BY GateStarts
<1>2. GateInv /\ [GateNext]_gate_vars => GateInv'
  BY GateKeeps
<1>3. ASSUME GateInv, GateNext, profile.recovery, marker.pending, ~marker'.pending
      PROVE  steady'.marker = marker'.bound /\ LongEnough(steady')
  <2>1. ~Keeping /\ ~GateTimePasses
    BY <1>3 DEF Keeping, GateTimePasses
  <2>2. ~AcknowledgeMarker
    BY <1>3 DEF AcknowledgeMarker, GateInv, Quarantined
  <2> QED
    BY <1>3, <2>1, <2>2, GateSteps, AcceptKeepsQuarantine
<1>4. ASSUME GateInv, GateNext, profile.recovery, canonical' # "none"
      PROVE  ~disturbed
  <2>1. state_valid
    BY <1>4, OnlyFreshPublishes DEF StateIsFresh, Fresh
  <2> QED
    BY <1>4, <2>1 DEF GateInv, Quarantined
<1>5. GateInv /\ [GateNext]_gate_vars =>
        [profile.recovery
           => /\ marker.pending /\ ~marker'.pending
                   => steady'.marker = marker'.bound /\ LongEnough(steady')
              /\ canonical' # "none" => ~disturbed]_gate_vars
  BY <1>3, <1>4
<1> QED
  BY <1>1, <1>2, <1>5, PTL DEF GateSpec, RecoveryNeedsStableMarker

-----------------------------------------------------------------------------
(* The distance a robot is sent forward on: what the worker holds of an epoch  *)
(* that is still valid comes from an estimator that was reset after the last   *)
(* invalidation.                                                               *)

TrackShape ==
  /\ DOMAIN work = {"age", "current", "distance", "sound"}
  /\ DOMAIN measured = {"age", "distance", "sound"}
  /\ distance_worker \in {"waiting", "resetting", "checking", "estimating", "measured",
                          "raised", "delivering", "failed"}

\* A reset that failed, or that is due since, is made before the next estimate.
ResetIsOwed ==
  memory \/ reset_due \/ distance_worker = "resetting" \/ ros = "closed"

NothingCurrent ==
  ros \in {"invalidating", "closed"} => pending = NoStamp /\ ~work.current

WorkIsSound ==
  work.current => /\ distance_worker \in {"checking", "estimating"} => memory
                  /\ distance_worker \in {"measured", "delivering"} => work.sound

\* What an invalidation has revoked is there until the ROS thread has cleared it.
MeasuredIsSound ==
  measured.age # NoStamp => measured.sound \/ ros = "invalidating"

TrackInv ==
  TrackShape /\ ResetIsOwed /\ NothingCurrent /\ WorkIsSound /\ MeasuredIsSound

LEMMA TrackInitially == TrackInit => TrackInv
  BY DEF TrackInit, TrackInv, TrackShape, ResetIsOwed, NothingCurrent, WorkIsSound,
         MeasuredIsSound, NoWork, NoMeasurement

LEMMA RevokeKeeps == ASSUME TrackInv, Revoke PROVE TrackInv'
  BY DEF TrackInv, TrackShape, ResetIsOwed, NothingCurrent, WorkIsSound, MeasuredIsSound,
         Revoke

LEMMA FrameKeeps ==
  ASSUME TrackInv, NEW matches \in BOOLEAN, OnImage(matches) \/ OnDepth(matches)
  PROVE  TrackInv'
<1>1. ros = "spinning"
  BY DEF OnImage, OnDepth, OnFrame
<1>2. \/ Revoke
      \/ /\ UNCHANGED <<reset_due, distance_worker, work, memory, measured, ros>>
  BY DEF OnImage, OnDepth, OnFrame, Decide, Submit, distance_worker_vars
<1> QED
  BY <1>1, <1>2, RevokeKeeps
     DEF TrackInv, TrackShape, ResetIsOwed, NothingCurrent, WorkIsSound, MeasuredIsSound

\* The worker's thread: a pair is taken, the estimator is reset.
LEMMA TakeKeeps == ASSUME TrackInv, Take \/ ResetSucceeds \/ ResetFails PROVE TrackInv'
<1> USE DEF TrackInv, TrackShape, ResetIsOwed, NothingCurrent, WorkIsSound,
            MeasuredIsSound, ByDistanceWorker
<1>1. CASE Take
  <2>1. ros \notin {"invalidating", "closed"} /\ memory' = memory
    BY <1>1 DEF Take
  <2>2. /\ DOMAIN work' = {"age", "current", "distance", "sound"}
        /\ distance_worker' \in {"resetting", "checking"}
        /\ distance_worker' = "checking" => ~reset_due
    BY <1>1 DEF Take, NoWork
  <2>3. distance_worker' = "checking" => memory
    BY <1>1, <2>1, <2>2 DEF Take
  <2>4. UNCHANGED <<measured, ros>>
    BY <1>1 DEF Take
  <2> QED
    BY <1>1, <2>1, <2>2, <2>3, <2>4 DEF Take
<1>2. CASE ResetSucceeds
  BY <1>2 DEF ResetSucceeds
<1>3. CASE ResetFails
  BY <1>3 DEF ResetFails
<1> QED
  BY <1>1, <1>2, <1>3

LEMMA CheckKeeps ==
  ASSUME TrackInv,
         \/ Check("checking", "estimating")
         \/ Check("measured", "delivering") \/ Check("raised", "failed")
  PROVE  TrackInv'
  BY DEF TrackInv, TrackShape, ResetIsOwed, NothingCurrent, WorkIsSound, MeasuredIsSound,
         ByDistanceWorker, Check, Wait, NoWork

\* An estimate that is still of this epoch was made with a memory that is.
LEMMA EstimateKeeps == ASSUME TrackInv, Estimate PROVE TrackInv'
<1> USE DEF TrackInv, TrackShape, ResetIsOwed, NothingCurrent, WorkIsSound,
            MeasuredIsSound, ByDistanceWorker
<1>1. /\ UNCHANGED <<memory, measured, ros, reset_due, pending>>
      /\ distance_worker = "estimating"
  BY DEF Estimate
<1>2. CASE distance_worker' = "raised" /\ UNCHANGED work
  BY <1>1, <1>2
<1>3. ASSUME distance_worker' = "measured", NEW answer,
             work' = [work EXCEPT !.distance = answer, !.sound = work.current /\ memory]
      PROVE  TrackInv'
  <2>1. DOMAIN work' = DOMAIN work /\ work'.current = work.current
    BY <1>3
  <2>2. work'.sound = (work.current /\ memory)
    BY <1>3, Zenon
  <2>3. work.current => memory
    BY DEF Estimate
  <2>4. work'.current => work'.sound
    BY <2>1, <2>2, <2>3
  <2> QED
    BY <1>1, <1>3, <2>1, <2>4
<1> QED
  BY <1>2, <1>3 DEF Estimate

LEMMA DeliverKeeps == ASSUME TrackInv, CommitEstimate \/ ReportError PROVE TrackInv'
<1> USE DEF TrackInv, TrackShape, ResetIsOwed, NothingCurrent, WorkIsSound,
            MeasuredIsSound, ByDistanceWorker
<1>1. /\ distance_worker' = "waiting" /\ work' = NoWork
      /\ UNCHANGED <<memory, ros, reset_due, pending>>
      /\ distance_worker \in {"delivering", "failed"}
  BY DEF CommitEstimate, ReportError, Wait
<1>2. /\ DOMAIN work' = {"age", "current", "distance", "sound"} /\ ~work'.current
  BY <1>1 DEF NoWork
<1>3. /\ DOMAIN NoMeasurement = {"age", "distance", "sound"}
      /\ NoMeasurement.age = NoStamp
  BY DEF NoMeasurement
<1>4. ASSUME distance_worker = "delivering", work.current
      PROVE  /\ DOMAIN Committed = {"age", "distance", "sound"}
             /\ Committed.age # NoStamp => Committed.sound
  <2> DEFINE Estimated == [age |-> work.age, distance |-> work.distance,
                       sound |-> work.sound /\ work.current]
  <2>1. Committed \in {Estimated, NoMeasurement}
    BY DEF Committed
  <2>2. DOMAIN Estimated = {"age", "distance", "sound"}
    BY Zenon
  <2>3. Estimated.sound = (work.sound /\ work.current)
    BY Zenon
  <2>4. Estimated.sound
    BY <1>4, <2>3
  <2> HIDE DEF Estimated
  <2> QED
    BY <1>3, <2>1, <2>2, <2>4
<1>5. measured' \in {measured, NoMeasurement}
        \/ (distance_worker = "delivering" /\ work.current /\ measured' = Committed)
  BY DEF CommitEstimate, ReportError
<1> QED
  BY <1>1, <1>2, <1>3, <1>4, <1>5

\* The ROS thread, and time.
LEMMA RosKeeps ==
  ASSUME TrackInv,
         \/ OnRefusedFrame \/ ClearMeasurement \/ PlanChanges \/ SetTarget
         \/ BeginDispatch \/ Dispatch \/ Close
  PROVE  TrackInv'
<1> USE DEF TrackInv, TrackShape, ResetIsOwed, NothingCurrent, WorkIsSound,
            MeasuredIsSound, NoMeasurement, distance_worker_vars
<1>1. CASE OnRefusedFrame
  BY <1>1, RevokeKeeps DEF OnRefusedFrame
<1>2. CASE ClearMeasurement
  BY <1>2 DEF ClearMeasurement
<1>3. CASE PlanChanges \/ SetTarget
  BY <1>3 DEF PlanChanges, SetTarget
<1>4. CASE BeginDispatch
  BY <1>4 DEF BeginDispatch
<1>5. CASE Dispatch
  BY <1>5 DEF Dispatch
<1>6. CASE Close
  BY <1>6 DEF Close
<1> QED
  BY <1>1, <1>2, <1>3, <1>4, <1>5, <1>6

LEMMA TrackTimeKeeps == ASSUME TrackInv, TrackTimePasses PROVE TrackInv'
<1> USE DEF TrackInv, TrackShape, ResetIsOwed, NothingCurrent, WorkIsSound, MeasuredIsSound
<1>1. /\ UNCHANGED <<reset_due, distance_worker, memory, ros>>
      /\ pending = NoStamp => pending' = NoStamp
      /\ measured.age = NoStamp => measured'.age = NoStamp
      /\ measured'.sound = measured.sound /\ DOMAIN measured' = DOMAIN measured
      /\ work'.current = work.current /\ work'.sound = work.sound
      /\ DOMAIN work' = DOMAIN work
  BY DEF TrackTimePasses, Older, Aged
<1> QED
  BY <1>1

LEMMA TrackKeeps == ASSUME TrackInv, [TrackNext]_track_vars PROVE TrackInv'
<1>1. CASE UNCHANGED track_vars
  BY <1>1 DEF track_vars, distance_worker_vars, TrackInv, TrackShape, ResetIsOwed,
              NothingCurrent, WorkIsSound, MeasuredIsSound
<1>2. CASE TrackNext
  BY <1>2, FrameKeeps, TakeKeeps, CheckKeeps, EstimateKeeps, DeliverKeeps, RosKeeps,
     TrackTimeKeeps DEF TrackNext, Work
<1> QED
  BY <1>1, <1>2

\* Whatever resets fail, whichever pairs are replaced, and wherever between its steps an
\* invalidation falls: the robot is sent forward on a distance that no invalidation has
\* followed, young enough at the start of the dispatch, under an active plan.
THEOREM ForwardWitnessed == TrackSpec => ForwardIsWitnessed
<1>1. TrackInit => TrackInv
  BY TrackInitially
<1>2. TrackInv /\ [TrackNext]_track_vars => TrackInv'
  BY TrackKeeps
<1>3. ASSUME TrackInv, TrackNext, ros = "dispatching", ros' = "spinning",
             dispatched' = "forward"
      PROVE  measured.sound /\ AgeAtNow <= MeasurementAge /\ plan
  <2>1. Dispatch
    BY <1>3 DEF TrackNext, OnImage, OnDepth, OnFrame, OnRefusedFrame, ClearMeasurement,
                Work, Take, ResetSucceeds, ResetFails, Check, Estimate, CommitEstimate,
                ReportError, ByDistanceWorker, PlanChanges, SetTarget, BeginDispatch,
                Close, TrackTimePasses
  <2>2. plan /\ Forward
    BY <1>3, <2>1 DEF Dispatch
  <2> QED
    BY <1>3, <2>2 DEF Forward, TrackInv, MeasuredIsSound
<1>4. TrackInv /\ [TrackNext]_track_vars
        => [ros = "dispatching" /\ ros' = "spinning" /\ dispatched' = "forward"
              => measured.sound /\ AgeAtNow <= MeasurementAge /\ plan]_track_vars
  BY <1>3
<1> QED
  BY <1>1, <1>2, <1>4, PTL DEF TrackSpec, ForwardIsWitnessed

-----------------------------------------------------------------------------
(* The sport actions: as long as nothing has failed, the worker and the daemon *)
(* take turns, with one command or one reply between them.                     *)

JobFields == {"name", "state", "cancel", "stopped"}

Postures == {"up", "handstand", "crouched"}

SportShape ==
  /\ DOMAIN job = Request /\ \A r \in Request : DOMAIN job[r] = JobFields
  /\ at \in {"idle", "connecting", "closing", "closed"} \cup Waiting
  /\ at = "idle" <=> active_job = "none"
  /\ at # "idle" => /\ active_job \in Request /\ job[active_job].name \in DOMAIN Plans
                    /\ step \in 1..Len(Plan)
  /\ posture \in Postures
  /\ calling => at \in Waiting

\* A socket that is not open holds nothing.
SocketIsEmpty == inbox = <<>> /\ outbox = <<>>

Answered == outbox = <<TRUE>>

\* What was sent is the command the worker is at, and is answered once.
OneExchange ==
  /\ ~calling => SocketIsEmpty
  /\ calling => \/ SocketIsEmpty
                \/ inbox = <<Command>> /\ outbox = <<>>
                \/ inbox = <<>> /\ outbox \in {<<TRUE>>, <<FALSE>>}
  /\ outbox # <<>> => attached = "worker"

\* The robot is in the posture the worker believes it in, or in the one of a command
\* whose answer is on its way.
PostureIsKnown ==
  /\ at = "connecting" => posture = "up" /\ stance = "up"
  /\ at \in {"arm", "step", "hold", "stop"} =>
       /\ ~calling \/ inbox # <<>> => stance = posture
       /\ Answered => stance = IF Command.posture # "same" THEN Command.posture ELSE posture
  /\ at = "hold" /\ Plan[step].op = "Move" => Plan[step].posture \in {"same", posture}
  /\ at \in {"exit", "standup"} /\ Answered => stance = "up"
  /\ at \in {"disarm", "closing", "closed"} => stance = "up"

Settled == arm_owner = "nobody" /\ mover = "nobody"

\* Once the disarm is answered, nobody's command is still to come.
DisarmHolds ==
  /\ at = "disarm" /\ Answered => Settled
  /\ at \in {"closing", "closed"} => Settled /\ (attached = "gone" => abandoned = <<>>)

SportInv ==
  /\ SportShape
  /\ at \in {"idle", "connecting", "closed"} => SocketIsEmpty
  /\ ~failed => OneExchange /\ PostureIsKnown /\ DisarmHolds

LEMMA SportInitially == SportInit => SportInv
  BY SportAssumption
     DEF SportInit, SportInv, SportShape, JobFields, Postures, NoJob, SocketIsEmpty, Waiting,
         OneExchange, PostureIsKnown, DisarmHolds

\* What a plan may ask for.
LEMMA PlanFacts ==
  ASSUME SportShape, at # "idle"
  PROVE  /\ Len(Plan) \in Nat \ {0}
         /\ Plan[step] \in Step /\ Plan[step].posture \in {"same"} \cup Postures
<1>1. Plan \in Seq(Step) /\ Plan # <<>>
  BY SportAssumption DEF SportShape, Plan
<1>2. step \in 1..Len(Plan)
  BY DEF SportShape
<1>3. Plan[step] \in Step
  BY <1>1, <1>2
<1> QED
  BY <1>1, <1>3 DEF Step, Postures

\* The run and its plan, over steps that change the rest of its record.
SameRun ==
  /\ active_job' = active_job
  /\ DOMAIN job' = Request
  /\ \A r \in Request : DOMAIN job'[r] = JobFields /\ job'[r].name = job[r].name

LEMMA RunKept ==
  ASSUME SportShape,
         \/ job' = job
         \/ \E r \in Request : \E value : \/ job' = [job EXCEPT ![r].cancel = value]
                                         \/ job' = [job EXCEPT ![r].state = value],
         active_job' = active_job
  PROVE  SameRun
  BY DEF SportShape, SameRun, JobFields

LEMMA PlanKept ==
  ASSUME SportShape, SameRun, at # "idle"
  PROVE  Plan' = Plan /\ job'[active_job'].name \in DOMAIN Plans
  BY DEF SportShape, SameRun, Plan

LEMMA CommandKept ==
  ASSUME Plan' = Plan, UNCHANGED <<at, step>>
  PROVE  Command' = Command
  BY DEF Command

\* The calls of the services, and steps of the daemon that answer nothing.
LEMMA BesidesTheWorker ==
  ASSUME SportInv, SameRun, UNCHANGED worker_vars, UNCHANGED stance,
         \/ UNCHANGED <<inbox, outbox>>
         \/ inbox' = <<>> /\ outbox' = <<>>,
         outbox' # <<>> /\ attached = "worker" => attached' = "worker",
         ~failed /\ Settled /\ (attached = "gone" => abandoned = <<>>) => Settled',
         ~failed /\ at \in {"closing", "closed"} /\ (attached = "gone" => abandoned = <<>>)
           => (attached' = "gone" => abandoned' = <<>>)
  PROVE  SportInv'
<1>1. SportShape'
  BY PlanKept DEF SportInv, SportShape, SameRun, worker_vars
<1>2. at \in {"idle", "connecting", "closed"} => SocketIsEmpty'
  BY DEF SportInv, SocketIsEmpty
<1>3. ASSUME ~failed
      PROVE  OneExchange' /\ PostureIsKnown' /\ DisarmHolds'
  <2>1. CASE at = "idle"
    BY <1>3, <2>1, <1>2
       DEF SportInv, SportShape, Waiting, worker_vars, OneExchange, PostureIsKnown, DisarmHolds
  <2>2. CASE at # "idle"
    <3>1. Plan' = Plan /\ Command' = Command
      BY <2>2, PlanKept, CommandKept DEF SportInv, worker_vars
    <3>2. UNCHANGED <<at, step, calling, posture, stance>>
      BY DEF worker_vars
    <3>3. OneExchange'
      <4>1. CASE UNCHANGED <<inbox, outbox>>
        BY <1>3, <3>1, <3>2, <4>1 DEF SportInv, OneExchange, SocketIsEmpty
      <4>2. CASE inbox' = <<>> /\ outbox' = <<>>
        BY <1>3, <3>2, <4>2 DEF SportInv, OneExchange, SocketIsEmpty
      <4> QED
        BY <4>1, <4>2
    <3>4. Answered' => Answered
      <4>1. <<TRUE>> # <<>>
        OBVIOUS
      <4> QED
        BY <4>1 DEF Answered
    <3>5. PostureIsKnown'
      BY <1>3, <3>1, <3>2, <3>4 DEF SportInv, PostureIsKnown
    <3>6. DisarmHolds'
      <4>1. Answered => attached = "worker"
        BY <1>3 DEF SportInv, OneExchange, Answered
      <4> QED
        BY <1>3, <3>2, <3>4, <4>1 DEF SportInv, DisarmHolds
    <3> QED
      BY <3>3, <3>5, <3>6
  <2> QED
    BY <2>1, <2>2
<1> QED
  BY <1>1, <1>2, <1>3 DEF SportInv, worker_vars

LEMMA ServiceKeeps ==
  ASSUME SportInv,
         (\E r \in Request : CancelRequest(r)) \/ Shutdown \/ StopManagedDaemon
  PROVE  SportInv'
<1> USE DEF ServiceOnly, Settled, socket_vars, chassis, worker_vars
<1>1. ASSUME NEW r \in Request, CancelRequest(r) PROVE SportInv'
  <2>1. SameRun
    BY <1>1, RunKept DEF CancelRequest, SportInv
  <2> QED
    BY <1>1, <2>1, BesidesTheWorker DEF CancelRequest
<1>2. CASE Shutdown
  <2>1. active_job \in Request \cup {"none"}
    BY DEF SportInv, SportShape
  <2>2. SameRun
    BY <1>2, <2>1, RunKept DEF Shutdown, SportInv
  <2> QED
    BY <1>2, <2>2, BesidesTheWorker DEF Shutdown
<1>3. CASE StopManagedDaemon
  <2>1. SameRun
    BY <1>3, RunKept DEF StopManagedDaemon, SportInv
  <2> QED
    BY <1>3, <2>1, BesidesTheWorker DEF StopManagedDaemon
<1> QED
  BY <1>1, <1>2, <1>3

LEMMA DaemonKeeps ==
  ASSUME SportInv, AttachWorker \/ HandleAbandoned \/ DetachWorker \/ Watchdog
  PROVE  SportInv'
<1> USE DEF ByDaemon, Settled, socket_vars, chassis, worker_vars, FailStop, Daemon!Fault,
            Daemon!Disarm, Daemon!Halt
<1>1. SameRun
  BY RunKept DEF SportInv, AttachWorker, HandleAbandoned, DetachWorker, Watchdog
<1>2. CASE AttachWorker
  <2>1. at \notin {"closing", "closed"}
    BY <1>2 DEF AttachWorker, Waiting
  <2> QED
    BY <1>1, <1>2, <2>1, BesidesTheWorker DEF AttachWorker
<1>3. CASE HandleAbandoned
  BY <1>1, <1>3, BesidesTheWorker DEF HandleAbandoned
<1>4. CASE DetachWorker
  BY <1>1, <1>4, BesidesTheWorker DEF DetachWorker
<1>5. CASE Watchdog
  BY <1>1, <1>5, BesidesTheWorker DEF Watchdog
<1> QED
  BY <1>2, <1>3, <1>4, <1>5

LEMMA CommandHandled == ASSUME SportInv, HandleCommand PROVE SportInv'
<1>1. SameRun
  BY RunKept DEF SportInv, HandleCommand, ByDaemon
<1>2. UNCHANGED <<active_job, at, step, calling, posture, failed, attached, abandoned>>
  BY DEF HandleCommand, ByDaemon, worker_vars
<1>3. attached = "worker" /\ inbox # <<>> /\ at \notin {"idle", "connecting", "closed"}
  BY DEF HandleCommand, SportInv, SocketIsEmpty
<1>4. SportShape'
  BY <1>1, <1>2, PlanKept DEF SportInv, SportShape, SameRun
<1>5. ASSUME ~failed
      PROVE  OneExchange' /\ PostureIsKnown' /\ DisarmHolds'
  <2>1. calling /\ inbox = <<Command>> /\ outbox = <<>> /\ at \in Waiting
    BY <1>3, <1>5 DEF SportInv, SportShape, OneExchange, SocketIsEmpty
  <2>2. Command' = Command /\ Plan' = Plan
    BY <1>1, <1>2, <1>3, PlanKept, CommandKept DEF SportInv
  <2>3. Head(inbox) = Command /\ Tail(inbox) = <<>>
    BY <2>1
  <2>4. PICK ok \in BOOLEAN :
          /\ Perform(Command, ok) /\ outbox' = Append(outbox, ok)
          /\ stance' = IF ok /\ Command.posture # "same" THEN Command.posture ELSE stance
    BY <2>3 DEF HandleCommand
  <2>5. inbox' = <<>> /\ outbox' = <<ok>>
    BY <2>1, <2>3, <2>4 DEF HandleCommand
  <2>6. OneExchange'
    BY <1>2, <1>3, <2>1, <2>5 DEF OneExchange
  <2>7. Answered' <=> ok
    BY <2>5 DEF Answered
  <2>8. PostureIsKnown'
    <3>1. at \in {"arm", "step", "hold", "stop"} => stance = posture
      BY <1>5, <2>1 DEF SportInv, PostureIsKnown
    <3>2. at \in {"exit", "standup"} => Command.posture = "up"
      BY DEF Command
    <3>3. at = "disarm" => Command.posture = "same" /\ stance = "up"
      BY <1>5 DEF Command, SportInv, PostureIsKnown
    <3>4. at = "hold" /\ Plan[step].op = "Move" => Plan[step].posture \in {"same", posture}
      BY <1>5 DEF SportInv, PostureIsKnown
    <3>5. at # "closing"
      BY <2>1 DEF Waiting
    <3> QED
      BY <1>2, <1>3, <2>1, <2>2, <2>4, <2>5, <2>7, <3>1, <3>2, <3>3, <3>4, <3>5
         DEF PostureIsKnown
  <2>9. DisarmHolds'
    <3>1. at = "disarm" /\ ok => Settled'
      <4> SUFFICES ASSUME at = "disarm", ok PROVE Settled'
        OBVIOUS
      <4>1. Command.op = "Disarm"
        BY DEF Command
      <4> QED
        BY <2>4, <4>1 DEF Perform, Daemon!Release, Settled
    <3>2. at \notin {"closing", "closed"}
      BY <2>1 DEF Waiting
    <3> QED
      BY <1>2, <2>7, <3>1, <3>2 DEF DisarmHolds
  <2> QED
    BY <2>6, <2>8, <2>9
<1> QED
  BY <1>2, <1>3, <1>4, <1>5 DEF SportInv

-----------------------------------------------------------------------------
(* The worker of a run *)

LEMMA ExecuteKeeps ==
  ASSUME SportInv, NEW r \in Request, NEW name \in DOMAIN Plans, Execute(r, name)
  PROVE  SportInv'
<1>1. at = "idle" /\ SocketIsEmpty
  BY DEF Execute, SportInv, SportShape
<1>2. /\ at' = "connecting" /\ active_job' = r /\ calling' = FALSE /\ step' = 1
      /\ posture' = "up" /\ stance' = "up" /\ UNCHANGED <<inbox, outbox>>
  BY DEF Execute, socket_vars
<1>3. /\ DOMAIN job' = Request /\ \A s \in Request : DOMAIN job'[s] = JobFields
      /\ job'[r].name = name
  BY DEF Execute, SportInv, SportShape, NoJob, JobFields
<1>4. Plans[name] \in Seq(Step) /\ Plans[name] # <<>>
  BY SportAssumption
<1>5. Plan' = Plans[name]
  BY <1>2, <1>3 DEF Plan
<1>6. step' \in 1..Len(Plan)'
  BY <1>2, <1>4, <1>5
<1>7. SportShape'
  BY <1>2, <1>3, <1>6, SportAssumption DEF SportShape, Postures
<1> QED
  BY <1>1, <1>2, <1>7
     DEF SportInv, OneExchange, PostureIsKnown, DisarmHolds, SocketIsEmpty, Answered

LEMMA ConnectKeeps == ASSUME SportInv, ConnectSocket PROVE SportInv'
<1>1. /\ at = "connecting" /\ inbox' = <<>> /\ outbox' = <<>> /\ calling' = FALSE
      /\ \/ at' = "arm" /\ UNCHANGED failed
         \/ at' = "closed" /\ failed' = TRUE
      /\ UNCHANGED <<active_job, step, posture, stance>>
  BY DEF ConnectSocket, Goes, ByWorker
<1>2. SameRun
  <2>1. active_job \in Request
    BY <1>1 DEF SportInv, SportShape
  <2>2. active_job' = active_job
    BY <1>1
  <2>3. job' = job \/ \E value : job' = [job EXCEPT ![active_job].state = value]
    BY DEF ConnectSocket, Reports
  <2> QED
    BY <2>1, <2>2, <2>3, RunKept DEF SportInv
<1>3. SportShape'
  BY <1>1, <1>2, PlanKept DEF SportInv, SportShape, SameRun, Waiting
<1>4. SocketIsEmpty'
  BY <1>1 DEF SocketIsEmpty
<1>5. ASSUME ~failed, at' = "arm"
      PROVE  OneExchange' /\ PostureIsKnown' /\ DisarmHolds'
  BY <1>1, <1>4, <1>5 DEF SportInv, OneExchange, PostureIsKnown, DisarmHolds, Answered,
                          SocketIsEmpty
<1> QED
  BY <1>1, <1>3, <1>4, <1>5 DEF SportInv

LEMMA CallKeeps == ASSUME SportInv, CallDaemon PROVE SportInv'
<1>1. /\ at \in Waiting /\ ~calling /\ calling' = TRUE
      /\ UNCHANGED <<active_job, job, at, step, posture, stance, outbox, failed>>
      /\ inbox' \in {inbox, Append(inbox, Command)}
  BY DEF CallDaemon, ByWorker
<1>2. SameRun
  BY <1>1, RunKept DEF SportInv
<1>3. SportShape'
  BY <1>1, <1>2, PlanKept DEF SportInv, SportShape, SameRun
<1>4. ASSUME ~failed
      PROVE  OneExchange' /\ PostureIsKnown' /\ DisarmHolds'
  <2>1. inbox = <<>> /\ outbox = <<>>
    BY <1>1, <1>4 DEF SportInv, OneExchange, SocketIsEmpty
  <2>2. Command' = Command /\ Plan' = Plan
    BY <1>1, <1>2, PlanKept, CommandKept DEF SportInv, Waiting
  <2>3. Append(inbox, Command) = <<Command>>
    BY <2>1
  <2>4. OneExchange'
    BY <1>1, <2>1, <2>2, <2>3 DEF OneExchange, SocketIsEmpty
  <2>5. PostureIsKnown' /\ DisarmHolds'
    BY <1>1, <1>4, <2>1, <2>2
       DEF SportInv, PostureIsKnown, DisarmHolds, Answered, Waiting
  <2> QED
    BY <2>4, <2>5
<1> QED
  BY <1>1, <1>3, <1>4 DEF SportInv, Waiting

LEMMA HoldKeeps == ASSUME SportInv, NoticeCancel \/ EndHold PROVE SportInv'
<1>1. /\ at \in {"step", "hold"} /\ ~calling /\ calling' = FALSE
      /\ UNCHANGED <<active_job, job, posture, stance, inbox, outbox, failed>>
      /\ \/ at' = "stop" /\ UNCHANGED step
         \/ at' = "step" /\ step < Len(Plan) /\ step' = step + 1
  BY DEF NoticeCancel, EndHold, Goes, ByWorker, socket_vars
<1>2. Plan' = Plan
  BY <1>1 DEF Plan
<1>3. SportShape'
  <2>1. step \in 1..Len(Plan) /\ Len(Plan) \in Nat
    BY <1>1, PlanFacts DEF SportInv, SportShape
  <2>2. step' \in 1..Len(Plan)'
    BY <1>1, <1>2, <2>1
  <2> QED
    BY <1>1, <2>2 DEF SportInv, SportShape, Waiting
<1>4. ASSUME ~failed
      PROVE  OneExchange' /\ PostureIsKnown' /\ DisarmHolds'
  <2>1. inbox = <<>> /\ outbox = <<>> /\ stance = posture
    BY <1>1, <1>4 DEF SportInv, OneExchange, SocketIsEmpty, PostureIsKnown
  <2> QED
    BY <1>1, <2>1 DEF OneExchange, SocketIsEmpty, PostureIsKnown, DisarmHolds, Answered
<1> QED
  BY <1>1, <1>3, <1>4 DEF SportInv

LEMMA OneElement == ASSUME NEW x PROVE Head(<<x>>) = x /\ Tail(<<x>>) = <<>>
  OBVIOUS

\* A call that has returned: with the answer to it, or as a failure.
LEMMA ReturnShape ==
  ASSUME SportInv, NEW ok \in BOOLEAN, Return(ok), ByWorker
  PROVE  /\ SportShape' /\ SameRun /\ Plan' = Plan
         /\ at' \notin {"idle", "connecting", "closed"}
<1>1. calling /\ at \in Waiting /\ at # "idle"
  BY DEF Return, SportInv, SportShape, Waiting
<1>2. SameRun
  <2>1. active_job' = active_job /\ active_job \in Request
    BY <1>1 DEF ByWorker, SportInv, SportShape
  <2>2. job' = job \/ \E value : job' = [job EXCEPT ![active_job].state = value]
    BY DEF Return, Reports
  <2> QED
    BY <2>1, <2>2, RunKept DEF SportInv
<1>3. Plan' = Plan /\ job'[active_job'].name \in DOMAIN Plans
  BY <1>1, <1>2, PlanKept DEF SportInv
<1>4. posture' \in Postures
  <2>1. posture \in Postures /\ Plan[step].posture \in {"same"} \cup Postures
    BY <1>1, PlanFacts DEF SportInv, SportShape
  <2>2. at = "step" => Command = Plan[step]
    BY DEF Command
  <2> QED
    BY <2>1, <2>2 DEF Return
<1>5. calling' = FALSE /\ at' \in {"step", "hold", "stop", "exit", "standup", "disarm", "closing"}
  BY <1>1 DEF Return, Goes, AfterCleanup, Waiting
<1> QED
  BY <1>1, <1>2, <1>3, <1>4, <1>5
     DEF SportInv, SportShape, SameRun, Return, ByWorker, Waiting

LEMMA CallReturns == ASSUME SportInv, ReadReply \/ CallFails PROVE SportInv'
<1> DEFINE mine == Head(outbox) /\ Len(outbox) = 1 /\ inbox = <<>>
<1>1. CASE CallFails
  <2>1. Return(FALSE) /\ ByWorker
    BY <1>1 DEF CallFails
  <2>2. failed'
    BY <2>1 DEF Return
  <2> QED
    BY <2>1, <2>2, ReturnShape DEF SportInv
<1>2. CASE ReadReply
  <2>1. mine \in BOOLEAN /\ Return(mine) /\ ByWorker
    BY <1>2 DEF ReadReply
  <2>2. SportShape' /\ Plan' = Plan /\ at' \notin {"idle", "connecting", "closed"}
    <3> HIDE DEF mine
    <3> QED
      BY <2>1, ReturnShape
  <2>3. ASSUME ~failed'
        PROVE  OneExchange' /\ PostureIsKnown' /\ DisarmHolds'
    <3>1. ~failed /\ mine
      <4> HIDE DEF mine
      <4> QED
        BY <2>1, <2>3 DEF Return
    <3>2. Answered /\ inbox = <<>> /\ attached = "worker"
      <4>1. outbox # <<>>
        BY <1>2 DEF ReadReply
      <4>2. inbox = <<>> /\ outbox \in {<<TRUE>>, <<FALSE>>} /\ attached = "worker"
        BY <3>1, <4>1 DEF SportInv, OneExchange, SocketIsEmpty
      <4>3. Head(<<FALSE>>) = FALSE
        BY OneElement, Zenon
      <4>4. Head(outbox)
        BY <3>1, Zenon
      <4>5. outbox # <<FALSE>>
        BY <4>3, <4>4, Zenon
      <4> QED
        BY <4>2, <4>5, Zenon DEF Answered
    <3>3. outbox' = <<>> /\ UNCHANGED <<inbox, attached, abandoned, stance, arm_owner, mover>>
      <4>1. outbox' = Tail(outbox)
        BY <1>2 DEF ReadReply
      <4>3. Tail(<<TRUE>>) = <<>>
        BY OneElement, Zenon
      <4>2. UNCHANGED <<inbox, attached, abandoned, stance, arm_owner, mover>>
        BY <1>2 DEF ReadReply, ByWorker, chassis
      <4> QED
        BY <3>2, <4>1, <4>2, <4>3 DEF Answered
    <3>4. /\ calling' = FALSE /\ UNCHANGED step
          /\ posture' = IF at = "step" /\ Command.posture # "same" THEN Command.posture
                        ELSE posture
          /\ at = "arm" => at' = "step"
          /\ at \in {"step", "hold"} => at' = "hold"
          /\ at \notin {"arm", "step", "hold"} => at' = AfterCleanup(at)
      <4> HIDE DEF mine
      <4> QED
        BY <2>1, <3>1 DEF Return, Goes
    <3>5. at \in Waiting
      BY <2>1 DEF Return, SportInv, SportShape
    <3>6. OneExchange'
      BY <3>2, <3>3, <3>4 DEF OneExchange, SocketIsEmpty
    <3>7. ~Answered'
      BY <3>3 DEF Answered
    <3>8. /\ at \in {"arm", "step", "hold", "stop"} =>
               stance = IF Command.posture # "same" THEN Command.posture ELSE posture
          /\ at \in {"exit", "standup", "disarm"} => stance = "up"
          /\ at = "disarm" => Settled
          /\ at = "hold" /\ Plan[step].op = "Move" => Plan[step].posture \in {"same", posture}
      BY <3>1, <3>2 DEF SportInv, PostureIsKnown, DisarmHolds
    <3>9. /\ at = "step" => Command = Plan[step]
          /\ at = "hold" /\ Plan[step].op = "Move" => Command = Plan[step]
          /\ at = "hold" /\ Plan[step].op # "Move" => Command.posture = "same"
          /\ at \in {"arm", "stop"} => Command.posture = "same"
      BY DEF Command
    <3>10. posture \in Postures
      BY DEF SportInv, SportShape
    <3>11. PostureIsKnown' /\ DisarmHolds'
      <4>1. CASE at = "arm"
        BY <2>2, <3>3, <3>4, <3>7, <3>8, <3>9, <4>1 DEF PostureIsKnown, DisarmHolds
      <4>2. CASE at \in {"step", "hold"}
        BY <2>2, <3>3, <3>4, <3>7, <3>8, <3>9, <4>2 DEF PostureIsKnown, DisarmHolds
      <4>3. CASE at = "stop"
        <5>1. /\ stance = posture
              /\ at' \in {"exit", "standup", "disarm"}
              /\ at' = "disarm" => posture = "up"
          BY <3>4, <3>8, <3>9, <3>10, <4>3 DEF AfterCleanup, Postures
        <5> QED
          BY <3>3, <3>7, <5>1 DEF PostureIsKnown, DisarmHolds
      <4>4. CASE at \in {"exit", "standup"}
        <5>1. at' = "disarm" /\ stance = "up"
          BY <3>4, <3>8, <4>4 DEF AfterCleanup
        <5> QED
          BY <3>3, <3>7, <5>1 DEF PostureIsKnown, DisarmHolds
      <4>5. CASE at = "disarm"
        <5>1. at' = "closing" /\ stance = "up" /\ Settled
          BY <3>4, <3>8, <4>5 DEF AfterCleanup
        <5> QED
          BY <3>2, <3>3, <3>7, <5>1 DEF PostureIsKnown, DisarmHolds, Settled
      <4> QED
        BY <3>5, <4>1, <4>2, <4>3, <4>4, <4>5 DEF Waiting
    <3> QED
      BY <3>6, <3>11
  <2> HIDE DEF mine
  <2> QED
    BY <2>2, <2>3 DEF SportInv
<1> QED
  BY <1>1, <1>2

LEMMA CloseKeeps == ASSUME SportInv, CloseSocket PROVE SportInv'
<1>1. /\ at = "closing" /\ at' = "closed" /\ calling' = FALSE
      /\ inbox' = <<>> /\ outbox' = <<>>
      /\ UNCHANGED <<active_job, job, step, posture, stance, failed, arm_owner, mover>>
  BY DEF CloseSocket, Goes, ByWorker, chassis
<1>2. SportShape'
  BY <1>1 DEF SportInv, SportShape, Waiting, Plan
<1>3. SocketIsEmpty'
  BY <1>1 DEF SocketIsEmpty
<1>4. ASSUME ~failed
      PROVE  OneExchange' /\ PostureIsKnown' /\ DisarmHolds'
  <2>1. /\ inbox = <<>> /\ stance = "up" /\ Settled
        /\ attached = "gone" => abandoned = <<>>
    BY <1>1, <1>4 DEF SportInv, SportShape, Waiting, OneExchange, SocketIsEmpty,
                      PostureIsKnown, DisarmHolds
  <2>2. attached' = "gone" => abandoned' = <<>>
    BY <2>1 DEF CloseSocket
  <2> QED
    BY <1>1, <1>3, <2>1, <2>2
       DEF OneExchange, SocketIsEmpty, PostureIsKnown, DisarmHolds, Settled, Answered
<1> QED
  BY <1>1, <1>2, <1>3, <1>4 DEF SportInv

LEMMA EndKeeps == ASSUME SportInv, EndRun PROVE SportInv'
<1>1. /\ at = "closed" /\ at' = "idle" /\ active_job' = "none" /\ posture' = "up"
      /\ UNCHANGED <<calling, inbox, outbox>> /\ failed' = FALSE
  BY DEF EndRun, socket_vars
<1>2. active_job \in Request /\ SocketIsEmpty /\ ~calling
  BY <1>1 DEF SportInv, SportShape, Waiting
<1>3. SportShape'
  BY <1>1, <1>2 DEF SportInv, SportShape, EndRun, JobFields, Postures
<1> QED
  BY <1>1, <1>2, <1>3
     DEF SportInv, OneExchange, PostureIsKnown, DisarmHolds, SocketIsEmpty

LEMMA SportKeeps == ASSUME SportInv, [SportNext]_sport_vars PROVE SportInv'
<1>1. CASE UNCHANGED sport_vars
  <2>1. /\ UNCHANGED worker_vars /\ UNCHANGED <<inbox, outbox, attached, abandoned>>
        /\ UNCHANGED <<job, active_job, stance, arm_owner, mover>>
    BY <1>1 DEF sport_vars, socket_vars, chassis
  <2>2. SameRun
    BY <2>1, RunKept DEF SportInv
  <2> QED
    BY <2>1, <2>2, BesidesTheWorker DEF Settled
<1>2. CASE SportNext
  BY <1>2, ServiceKeeps, DaemonKeeps, CommandHandled, ExecuteKeeps, ConnectKeeps, CallKeeps,
     HoldKeeps, CallReturns, CloseKeeps, EndKeeps DEF SportNext, Worker, ChassisLoop
<1> QED
  BY <1>1, <1>2

\* Only the last step of a run ends it.
LEMMA RunEnds ==
  ASSUME SportInv, SportNext, NEW r \in Request, job[r].state \notin EndStates,
         job'[r].state \in EndStates \ {"FAILED"}
  PROVE  EndRun /\ ~failed
<1>1. CASE EndRun
  <2>1. job'[r].state \in {job[r].state, IF failed THEN "FAILED"
                                         ELSE IF cancelled THEN "CANCELLED" ELSE "SDK_ACCEPTED"}
    BY <1>1 DEF EndRun, SportInv, SportShape, JobFields, Waiting
  <2> QED
    BY <1>1, <2>1 DEF EndStates
<1>2. CASE ~EndRun
  <2>1. job'[r].state \in {job[r].state, "QUEUED", "CONNECTING", "RUNNING"}
    <3>1. ASSUME NEW s \in Request, NEW name, Execute(s, name)
          PROVE  job'[r].state \in {job[r].state, "QUEUED"}
      BY <3>1 DEF Execute, SportInv, SportShape, NoJob, JobFields
    <3>2. ASSUME NEW s \in Request, CancelRequest(s) PROVE job'[r].state = job[r].state
      BY <3>2 DEF CancelRequest, SportInv, SportShape, JobFields
    <3>3. CASE Shutdown
      BY <3>3 DEF Shutdown, SportInv, SportShape, JobFields
    <3>4. ASSUME NEW state, Reports(state), active_job \in Request
          PROVE  job'[r].state \in {job[r].state, state}
      BY <3>4 DEF Reports, SportInv, SportShape, JobFields
    <3>5. CASE ConnectSocket
      BY <3>4, <3>5 DEF ConnectSocket, SportInv, SportShape
    <3>6. ASSUME NEW ok, Return(ok) PROVE job'[r].state \in {job[r].state, "RUNNING"}
      <4>1. active_job \in Request
        BY <3>6 DEF Return, SportInv, SportShape, Waiting
      <4>2. job' = job \/ Reports("RUNNING")
        BY <3>6 DEF Return
      <4> QED
        BY <3>4, <4>1, <4>2
    <3>7. CASE ReadReply \/ CallFails
      BY <3>6, <3>7 DEF ReadReply, CallFails
    <3> QED
      BY <1>2, <3>1, <3>2, <3>3, <3>5, <3>7
         DEF SportNext, Worker, ChassisLoop, StopManagedDaemon, CallDaemon, NoticeCancel,
             EndHold, CloseSocket, AttachWorker, HandleCommand, HandleAbandoned, DetachWorker,
             Watchdog, ByDaemon
  <2> QED
    BY <2>1 DEF EndStates
<1> QED
  BY <1>1, <1>2

\* For any requests and plans, and whatever is lost, late, refused or cancelled: a run that
\* is not reported as failed has had every one of its commands answered, so that the daemon
\* is disarmed, the robot at rest and every posture of the run undone.
THEOREM CleanEnd == SportSpec => CleanEndIsSafe
<1>1. SportInit => SportInv
  BY SportInitially
<1>2. SportInv /\ [SportNext]_sport_vars => SportInv'
  BY SportKeeps
<1>3. ASSUME SportInv, SportNext, NEW r \in Request, job[r].state \notin EndStates,
             job'[r].state \in EndStates \ {"FAILED"}
      PROVE  arm_owner = "nobody" /\ mover = "nobody" /\ stance = "up"
  <2>1. at = "closed" /\ ~failed
    BY <1>3, RunEnds DEF EndRun
  <2> QED
    BY <1>3, <2>1 DEF SportInv, PostureIsKnown, DisarmHolds, Settled
<1>4. SportInv /\ [SportNext]_sport_vars
        => [\A r \in Request :
              job[r].state \notin EndStates /\ job'[r].state \in EndStates \ {"FAILED"}
                => arm_owner = "nobody" /\ mover = "nobody" /\ stance = "up"]_sport_vars
  BY <1>3
<1> QED
  BY <1>1, <1>2, <1>4, PTL DEF SportSpec, CleanEndIsSafe

=============================================================================
