-------------------------- MODULE HandsfreeObserver --------------------------
(* The acceptance test of the cancellation of hands-free mode: an observer     *)
(* polls two end points of a running client and listens to its events, tells   *)
(* the operator when to switch hands-free off, and decides from what it has    *)
(* received whether the client fell silent at once.                            *)
(*                                                                             *)
(* The client is the environment: it speaks, works and is switched on and off  *)
(* as it likes.  What the observer receives was true when it was produced, not *)
(* when it is read: a reply waits between the two, and so does an event.       *)
(* Transcripts are numbered: the code tells different texts apart, no more.    *)
(* Only the operator's one click after the READY line is expected of him.      *)
EXTENDS Naturals, Sequences

CONSTANTS
  WindowLength,     \* --duration-seconds, in poll intervals
  AfterDisable,     \* MIN_POST_DISABLE_OBSERVATION_SECONDS, in poll intervals
  SampleGap,        \* MAX_ENDPOINT_SAMPLE_GAP_SECONDS, in poll intervals
  Transcripts       \* bound: texts the client hears

ASSUME ObserverAssumption ==
  /\ WindowLength \in Nat /\ AfterDisable \in Nat \ {0} /\ SampleGap \in Nat \ {0}
  /\ AfterDisable <= WindowLength /\ Transcripts \in Nat

VARIABLES
  client,         \* hands-free is on, and what was heard last
  click,          \* what was heard last at the operator's click; <<>> before it
  stream,         \* events on their way
  run_stage,      \* what the observer is about
  elapsed,        \* time since it began
  polls,          \* per end point: the request, its reply, the time since a sample
  socket,         \* the connection of the events
  tracker,        \* AcceptanceTracker
  failing,        \* failure_reasons: what was received rules a pass out
  acceptance,
  evidence,       \* evidence files that are visible
  witnessed       \* history: something received contradicts the click

observer_vars == <<client, click, stream, run_stage, elapsed, polls, socket, tracker,
                   failing, acceptance, evidence, witnessed>>
truth == <<client, click>>
report == <<acceptance, evidence>>

EndPoints == {"status", "plans"}
Unheard == Transcripts + 1
\* "target": one of LATE_EVENT_KINDS; "faulty": an error, an unknown kind, or
\* what is not of the schema.  The other kinds count for nothing.
EventKinds == {"accepted", "target", "faulty"}

-----------------------------------------------------------------------------
(* The client and its operator *)

Speak ==
  /\ client.transcript < Transcripts
  /\ client' = [client EXCEPT !.transcript = @ + 1]
  /\ UNCHANGED click

\* Before the READY line anybody uses the switch; after it the operator clicks
\* once, and what happens to it then is seen as it happens.
Switch ==
  /\ client' = [client EXCEPT !.enabled = ~@]
  /\ click' = IF tracker.ready /\ click = <<>> /\ client.enabled
                THEN <<client.transcript>> ELSE click

Emit(kind) ==
  /\ socket = "open" /\ stream = <<>>
  /\ stream' = <<[kind |-> kind, late |-> click # <<>>]>>

\* A client that can no longer pass stands still: a bound, its verdict is
\* decided.
ClientActs ==
  \/ /\ ~failing
     /\ Speak \/ Switch
     /\ UNCHANGED <<stream, run_stage, elapsed, polls, socket, tracker,
                    failing, report, witnessed>>
  \/ /\ ~failing
     /\ \E kind \in EventKinds : Emit(kind)
     /\ UNCHANGED <<truth, run_stage, elapsed, polls, socket, tracker,
                    failing, report, witnessed>>

-----------------------------------------------------------------------------
(* AcceptanceTracker *)

Ready(t) ==
  /\ t.accepted /\ t.saw_enabled /\ t.plan_samples /\ ~t.disabled
  /\ ~t.plan_issue

\* _announce_ready_if_needed: the events of before the line are forgotten.
Announce(t) ==
  IF Ready(t) /\ ~t.ready THEN [t EXCEPT !.ready = TRUE, !.pending = FALSE] ELSE t

Edge(s) == tracker.previous = "on" /\ ~s.enabled /\ ~tracker.disabled

StatusFails(s) ==
  \/ s.kind = "malformed"
  \/ s.kind = "unavailable" /\ tracker.disabled
  \/ s.kind = "valid" /\ tracker.disabled
       /\ (s.enabled \/ s.transcript # tracker.transcript)
  \/ s.kind = "valid" /\ Edge(s)
       /\ (tracker.pending \/ tracker.baseline \notin {Unheard, s.transcript})

\* A confirmed enabled sample sets the baseline anew only until the READY line:
\* a stale one must not forget what came after the click.
RenewsBaselineAlways(s) == s.enabled /\ ~tracker.disabled
RenewsBaseline(s) == s.enabled /\ ~tracker.disabled /\ ~tracker.ready

StatusSeen(s) ==
  IF s.kind # "valid"
    THEN [tracker EXCEPT !.status_after = @ \/ tracker.disabled]
    ELSE [tracker EXCEPT
            !.previous = IF s.enabled THEN "on" ELSE "off",
            !.disabled = @ \/ Edge(s),
            !.status_after = @ \/ tracker.disabled \/ Edge(s),
            !.transcript = IF tracker.disabled \/ Edge(s) THEN s.transcript ELSE @,
            !.saw_enabled = @ \/ s.enabled,
            !.baseline = IF RenewsBaseline(s) THEN s.transcript ELSE @,
            !.pending = @ /\ ~RenewsBaseline(s)]

PlansSeen(p) ==
  [tracker EXCEPT !.plan_samples = @ \/ ~tracker.disabled,
                  !.plan_issue = @ \/ (~tracker.disabled /\ p.kind # "idle"),
                  !.plans_after = @ \/ tracker.disabled]

EventFails(e) == e.kind = "faulty" \/ (e.kind = "target" /\ tracker.disabled)

EventSeen(e) ==
  [tracker EXCEPT
     !.accepted = @ \/ e.kind = "accepted",
     !.pending = @ \/ (e.kind = "target" /\ tracker.saw_enabled /\ ~tracker.disabled)]

-----------------------------------------------------------------------------
(* Polling *)

\* What an end point tells of the client at this moment: plans come and go as
\* they like; it may also say that it does not know, or something that is not of
\* its schema.
Served(e) ==
  IF e = "status"
    THEN {[kind |-> k, enabled |-> client.enabled, transcript |-> client.transcript,
           late |-> click # <<>> /\ k = "valid" /\ click # <<client.transcript>>] :
             k \in {"valid", "unavailable", "malformed"}}
    ELSE {[kind |-> k, late |-> click # <<>> /\ k = "working"] :
             k \in {"unusable", "working", "idle"}}

NoReply == [kind |-> "none"]
NoPolls ==
  [e \in EndPoints |->
     [phase |-> "due", reply |-> NoReply, sampled |-> FALSE, age |-> 0]]

Ask(e) ==
  /\ run_stage = "observing" /\ polls[e].phase = "due" /\ elapsed < WindowLength
  /\ \E reply \in Served(e) :
       polls' = [polls EXCEPT ![e] = [@ EXCEPT !.phase = "asked", !.reply = reply]]
  /\ UNCHANGED <<truth, stream, run_stage, elapsed, socket, tracker, failing,
                 report, witnessed>>

Sampled(e) ==
  [polls[e] EXCEPT !.phase = "waiting", !.reply = NoReply, !.sampled = TRUE, !.age = 0]

SampleStatus ==
  LET s == polls["status"].reply
  IN  /\ failing' = (failing \/ StatusFails(s))
      /\ tracker' = Announce(StatusSeen(s))
      /\ witnessed' = (witnessed \/ s.late)

SamplePlans ==
  LET p == polls["plans"].reply
  IN  /\ failing' = (failing \/ p.kind # "idle")
      /\ tracker' = Announce(PlansSeen(p))
      /\ witnessed' = (witnessed \/ p.late)

SampleEndPoint(e) ==
  /\ run_stage = "observing" /\ polls[e].phase = "asked"
  /\ polls' = [polls EXCEPT ![e] = Sampled(e)]
  /\ IF e = "status" THEN SampleStatus ELSE SamplePlans
  /\ UNCHANGED <<truth, stream, run_stage, elapsed, socket, report>>

\* The request times out, is refused, or its reply is no JSON object.
PollFails(e) ==
  /\ run_stage = "observing" /\ polls[e].phase = "asked"
  /\ polls' = [polls EXCEPT ![e] = [@ EXCEPT !.phase = "waiting", !.reply = NoReply]]
  /\ failing' = TRUE
  /\ UNCHANGED <<truth, stream, run_stage, elapsed, socket, tracker, report, witnessed>>

-----------------------------------------------------------------------------
(* Events *)

ConnectStream ==
  /\ run_stage = "observing" /\ socket = "closed" /\ elapsed < WindowLength
  /\ socket' = "open"
  /\ UNCHANGED <<truth, stream, run_stage, elapsed, polls, tracker, failing,
                 report, witnessed>>

Receive ==
  /\ run_stage = "observing" /\ socket = "open" /\ elapsed < WindowLength
  /\ stream # <<>>
  /\ LET e == Head(stream)
     IN  /\ failing' = (failing \/ EventFails(e))
         /\ tracker' = Announce(EventSeen(e))
         /\ witnessed' = (witnessed \/ (e.late /\ e.kind = "target"))
  /\ stream' = Tail(stream)
  /\ UNCHANGED <<truth, run_stage, elapsed, polls, socket, report>>

\* The connection cannot be made, or ends, or brings what cannot be read: an
\* error unless the window is over anyway.
StreamEnds ==
  /\ run_stage = "observing" /\ socket \in {"closed", "open"}
  /\ socket' = IF elapsed < WindowLength \/ socket = "closed" THEN "broken" ELSE "covered"
  /\ failing' = (failing \/ elapsed < WindowLength)
  /\ stream' = <<>>
  /\ UNCHANGED <<truth, run_stage, elapsed, polls, tracker, report, witnessed>>

-----------------------------------------------------------------------------
(* The run *)

\* A new private directory below the allowed roots, or nothing: what exists
\* already, is linked elsewhere or changes meanwhile is refused.
PrepareOutput ==
  /\ run_stage = "prepare"
  /\ run_stage' \in {"prepared", "refused"}
  /\ UNCHANGED <<truth, stream, elapsed, polls, socket, tracker, failing, report,
                 witnessed>>

\* EvidenceWriter() opens the directory again, step by step, and must find the
\* one it has made.
OpenOutput ==
  /\ run_stage = "prepared"
  /\ run_stage' \in {"settings", "refused"}
  /\ UNCHANGED <<truth, stream, elapsed, polls, socket, tracker, failing, report,
                 witnessed>>

\* The tasks are over: no request, no connection, no event is left; the verdict
\* is written down.
Summarize(passed) ==
  /\ run_stage' = "summary"
  /\ acceptance' = IF passed THEN "passed" ELSE "failed"
  /\ polls' = NoPolls /\ stream' = <<>> /\ socket' = "closed"
  /\ UNCHANGED <<truth, elapsed, tracker, failing, evidence, witnessed>>

LoadSettings ==
  /\ run_stage = "settings"
  /\ \/ /\ run_stage' = "observing"
        /\ UNCHANGED <<truth, stream, elapsed, polls, socket, tracker, failing, report,
                       witnessed>>
     \/ Summarize(FALSE)

InterruptObserver ==
  /\ run_stage \in {"settings", "observing"}
  /\ Summarize(FALSE)

Complete ==
  /\ socket = "covered"
  /\ tracker.accepted /\ tracker.ready /\ tracker.saw_enabled /\ tracker.disabled
  /\ tracker.after >= AfterDisable
  /\ tracker.status_after /\ tracker.plans_after /\ tracker.plan_samples

\* The window is over for the polls and for the events.
WindowEnds ==
  /\ run_stage = "observing" /\ elapsed = WindowLength
  /\ \A e \in EndPoints : polls[e].phase # "asked"
  /\ socket \in {"covered", "broken"}
  /\ Summarize(Complete /\ ~failing)

\* EvidenceWriter.finalize links the log and then the summary to their names.
PublicationOrder == <<"log", "summary">>

Publish ==
  /\ run_stage = "summary"
  /\ \E i \in 1..2 :
       /\ evidence = {PublicationOrder[j] : j \in 1..(i - 1)}
       /\ evidence' = evidence \cup {PublicationOrder[i]}
       /\ run_stage' = IF i = 2 THEN "done" ELSE run_stage
  /\ UNCHANGED <<truth, stream, elapsed, polls, socket, tracker, failing, acceptance,
                 witnessed>>

\* An evidence file cannot be written: the temporary files are removed, what is
\* published stays.  A kill leaves the same files visible.
Abort ==
  /\ run_stage = "summary"
  /\ run_stage' = "aborted"
  /\ UNCHANGED <<truth, stream, elapsed, polls, socket, tracker, failing, report,
                 witnessed>>

\* Time passes; a sample that is too old to be followed by another is a gap.
ObserverTimePasses ==
  /\ run_stage = "observing" /\ elapsed < WindowLength
  /\ elapsed' = elapsed + 1
  /\ polls' = [e \in EndPoints |->
                 [polls[e] EXCEPT !.phase = IF @ = "waiting" THEN "due" ELSE @,
                                  !.age = IF polls[e].sampled /\ @ < SampleGap
                                            THEN @ + 1 ELSE @]]
  /\ tracker' = [tracker EXCEPT !.after = IF tracker.disabled /\ @ < AfterDisable
                                            THEN @ + 1 ELSE @]
  /\ failing' = (failing \/ \E e \in EndPoints : polls[e].age = SampleGap)
  /\ UNCHANGED <<truth, stream, run_stage, socket, report, witnessed>>

ObserverInit ==
  /\ client \in [enabled : BOOLEAN, transcript : {0}]
  /\ click = <<>>
  /\ stream = <<>> /\ socket = "closed"
  /\ run_stage = "prepare" /\ elapsed = 0
  /\ polls = NoPolls
  /\ tracker = [ready |-> FALSE, accepted |-> FALSE, saw_enabled |-> FALSE,
                previous |-> "unknown", baseline |-> Unheard, disabled |-> FALSE,
                transcript |-> Unheard, pending |-> FALSE, plan_samples |-> FALSE, plan_issue |-> FALSE,
                status_after |-> FALSE, plans_after |-> FALSE, after |-> 0]
  /\ failing = FALSE /\ acceptance = "none" /\ evidence = {}
  /\ witnessed = FALSE

ObserverNext ==
  \/ ClientActs \/ PrepareOutput \/ OpenOutput \/ LoadSettings \/ ConnectStream \/ Receive \/ StreamEnds
  \/ \E e \in EndPoints : Ask(e) \/ SampleEndPoint(e) \/ PollFails(e)
  \/ InterruptObserver \/ WindowEnds \/ Publish \/ Abort \/ ObserverTimePasses

ObserverSpec == ObserverInit /\ [][ObserverNext]_observer_vars

-----------------------------------------------------------------------------

\* A summary that says the cancellation passed is true to what was received, and
\* its log stands beside it: since the operator's click no event of a voice
\* session, no new transcript and no active plan was received, in whatever order
\* replies of before the click, events and the READY line came.
AcceptanceIsTrue ==
  "summary" \in evidence =>
    /\ "log" \in evidence
    /\ acceptance = "passed" => ~witnessed
=============================================================================
