----------------------------- MODULE IntentRouter -----------------------------
(***************************************************************************)
(* The model endpoint of Robonix Pilot that turns an utterance into one    *)
(* call of a capability: packages/semantic_intent_router, server.py and    *)
(* follow_distance.py.                                                     *)
(*                                                                         *)
(* The endpoint keeps nothing between two requests.  Pilot sends it the    *)
(* whole conversation each time, and it reduces the results of the         *)
(* executor found there, split at the user's last command, to the run it   *)
(* may still have to see through.  The variables hold what the reduction   *)
(* yields, extended by one result at a time: a step is a command of the    *)
(* user, one answer of the endpoint, or the executor running the call of   *)
(* the last answer.  Pilot and the executor are external; a result may be  *)
(* lost on the way (no leaf can be decoded) or lack what makes it usable.  *)
(* The calls arrive at the skill of SemanticNavigation, known here by what *)
(* its answers say and by the goals it leaves at the provider.             *)
(***************************************************************************)
EXTENDS Integers, FiniteSets

CONSTANTS
  Landmark,      \* the verified landmarks of the store
  Ticket,        \* semantic run ids the skill may hand out
  NoTicket       \* the empty run id

ASSUME TicketAssumption == NoTicket \notin Ticket

ASSUME CommandAssumption == Landmark \cap {"stop", "follow", "unmatched"} = {}

VARIABLES
  router_mode,   \* --execution-mode
  turn,          \* whose move it is: "user", "router" or "executor"
  command,       \* the utterance of the current turn, as the parsers class it
  told,          \* _advance_active over the results of every turn
  prior_run,     \* prior_active: the run left open by the turns before
  turn_run,      \* run: prior_active advanced by the results of this turn
  latest,        \* the last semantic result of this turn
  feedback,      \* the feedback of this turn: "none", "clear", or "garbled"
                 \* once a message of it held no result
  answer,        \* the call and the task status of the last answer
  truth,         \* truth[t]: the goal of run t at the provider
  withdrawn,     \* runs whose map was lost: the skill reports them FAILED
  open,          \* history: runs last reported to be under way
  adjustments    \* history: distance calls in this turn

conversation == <<command, told, prior_run, turn_run, latest, feedback>>
goals == <<truth, withdrawn>>
intent_vars == <<router_mode, turn, conversation, answer, goals, open, adjustments>>

-----------------------------------------------------------------------------
(* Runs, results and answers.  STARTING and PENDING are told as RUNNING.     *)

Terminal == {"SUCCEEDED", "FAILED", "CANCELED"}
Known == Terminal \cup {"RUNNING"}

NoTarget == "nowhere"

ActiveRun(ticket, target, state) == [ticket |-> ticket, target |-> target, state |-> state]
NoActiveRun == ActiveRun(NoTicket, NoTarget, "none")

HasEnded(r) == r.state \in Terminal
UnderWay(r) == r.state = "RUNNING"

\* A result of the executor.  "state" is the state it gives evidence for: of
\* navigate a known status or a remote_terminal snapshot, of status a known one.
Leaf(contract, success, accepted, ticket, state) ==
  [contract |-> contract, success |-> success, accepted |-> accepted,
   ticket |-> ticket, target |-> answer.target, state |-> state]
NoLeaf == [contract |-> "none", success |-> "yes", accepted |-> "unsaid",
           ticket |-> NoTicket, target |-> NoTarget, state |-> "none"]

Reply(cap, ticket, target, task) ==
  [cap |-> cap, ticket |-> ticket, target |-> target, task |-> task]

Hold == Reply("none", NoTicket, NoTarget, "in_progress")
Done == Reply("none", NoTicket, NoTarget, "done")
Rejected == Reply("none", NoTicket, NoTarget, "none")
Start(l) == Reply("navigate", NoTicket, l, "in_progress")
PollRun(r) == Reply("status", r.ticket, r.target, "in_progress")
CancelCall(r) == Reply("cancel", r.ticket, r.target, "in_progress")
Adjust == Reply("follow", NoTicket, NoTarget, "in_progress")

-----------------------------------------------------------------------------
(* Reading the conversation                                                  *)

\* _advance_active, by one result.
Advance(r, leaf) ==
  CASE /\ leaf.contract = "navigate" /\ leaf.ticket # NoTicket
       /\ leaf.state \in Known -> ActiveRun(leaf.ticket, leaf.target, leaf.state)
    [] /\ leaf.contract = "navigate" /\ leaf.ticket # NoTicket /\ leaf.state = "none"
       /\ leaf.success = "yes" /\ leaf.accepted = "yes" ->
         ActiveRun(leaf.ticket, leaf.target, "RUNNING")
    [] /\ leaf.contract = "status" /\ leaf.success = "yes" /\ leaf.state \in Known
       /\ r = NoActiveRun /\ leaf.ticket # NoTicket -> ActiveRun(leaf.ticket, leaf.target, leaf.state)
    [] /\ leaf.contract = "status" /\ leaf.success = "yes" /\ leaf.state \in Known
       /\ r # NoActiveRun /\ leaf.ticket \in {NoTicket, r.ticket} -> [r EXCEPT !.state = leaf.state]
    [] OTHER -> r

\* The result that a decision must first explain, or be held by: feedback with
\* no result, a failure (unless a navigate result proves the provider's end), a
\* status that says nothing, a cancellation not accepted.
Unexplained ==
  \/ feedback = "garbled"
  \/ /\ latest.success = "no"
     /\ ~(latest.contract = "navigate" /\ latest.state \in Terminal /\ HasEnded(turn_run))
  \/ latest.contract = "status" /\ latest.state \notin Known
  \/ latest.contract = "cancel" /\ latest.accepted # "yes"

\* A navigate result that neither accepts a run one could cancel nor refuses.
Uncancellable ==
  /\ latest.contract = "navigate" /\ latest.state = "none"
  /\ \/ latest.accepted = "yes" /\ latest.ticket = NoTicket
     \/ latest.accepted = "unsaid"

Refused ==
  latest.contract = "navigate" /\ latest.state = "none" /\ latest.accepted = "no"

-----------------------------------------------------------------------------
(* Deciding.  caps is what Pilot advertises with the request.                *)

Monitoring == {"status", "cancel"}
Driving == Monitoring \cup {"navigate"}

\* The run to cancel on a result one cannot explain: active or prior_active.
Candidate == IF UnderWay(turn_run) THEN turn_run ELSE prior_run

CancelOr(r, otherwise, caps) ==
  IF r # NoActiveRun /\ "cancel" \in caps THEN CancelCall(r) ELSE otherwise

\* Every answer that follows a run under way asks for it to be followed.
Follow(reply, caps) == IF Monitoring \subseteq caps THEN reply ELSE Hold

\* _preview: whatever is said, nothing is called.
PreviewReply == IF command = "unmatched" THEN Rejected ELSE Done

\* _follow_distance_decision: any feedback ends the turn.
DistanceReply(caps) ==
  IF feedback # "none" \/ "follow" \notin caps THEN Done ELSE Adjust

StopReply(caps) ==
  IF ~UnderWay(turn_run) THEN Done
  ELSE Follow(IF latest.contract = "cancel" THEN PollRun(turn_run) ELSE CancelCall(turn_run), caps)

UnmatchedReply(caps) ==
  CASE UnderWay(turn_run) -> Follow(PollRun(turn_run), caps)
    [] HasEnded(turn_run) -> Done
    [] OTHER -> Rejected

\* The command names another landmark than the run it found open.
Switches ==
  prior_run # NoActiveRun /\ turn_run.ticket = prior_run.ticket /\ command # prior_run.target

TargetReply(caps) ==
  CASE HasEnded(turn_run) /\ Switches ->
         IF Driving \subseteq caps THEN Start(command) ELSE Hold
    [] HasEnded(turn_run) /\ ~Switches -> Done
    [] UnderWay(turn_run) ->
         Follow(IF Switches /\ latest.contract # "cancel"
                THEN CancelCall(turn_run) ELSE PollRun(turn_run), caps)
    [] OTHER -> IF Driving \subseteq caps THEN Start(command) ELSE Rejected

CommandReply(caps) ==
  CASE command = "stop" -> StopReply(caps)
    [] command \in Landmark -> TargetReply(caps)
    [] OTHER -> UnmatchedReply(caps)

\* What the last result lets the endpoint say.
SemanticReply(caps) ==
  CASE Unexplained -> CancelOr(Candidate, Hold, caps)
    [] ~Unexplained /\ Uncancellable -> Hold
    [] ~Unexplained /\ Refused -> CancelOr(prior_run, Done, caps)
    [] OTHER -> CommandReply(caps)

Decide(caps) ==
  IF router_mode = "preview" THEN PreviewReply
  ELSE IF command = "follow" /\ prior_run = NoActiveRun /\ ~UnderWay(turn_run)
       THEN DistanceReply(caps)
       ELSE SemanticReply(caps)

-----------------------------------------------------------------------------
(* The conversation                                                          *)

IntentInit ==
  /\ router_mode \in {"preview", "live"}
  /\ turn = "user" /\ command = "unmatched"
  /\ told = NoActiveRun /\ prior_run = NoActiveRun /\ turn_run = NoActiveRun
  /\ latest = NoLeaf /\ feedback = "none"
  /\ answer = Rejected
  /\ truth = [t \in Ticket |-> "unused"] /\ withdrawn = {}
  /\ open = {} /\ adjustments = 0

\* Mutant of LeftOpen: each turn begins with a clean slate.
LeftOpenNever == NoActiveRun

\* What the turns before leave open.
LeftOpen == IF UnderWay(told) THEN told ELSE NoActiveRun

\* The user speaks: the results so far belong to the turns before.
Say(utterance) ==
  /\ turn # "executor"
  /\ turn' = "router" /\ command' = utterance
  /\ prior_run' = LeftOpen /\ turn_run' = LeftOpen
  /\ latest' = NoLeaf /\ feedback' = "none"
  /\ adjustments' = 0
  /\ UNCHANGED <<router_mode, told, answer, goals, open>>

\* Pilot asks the endpoint, and asks again while the task is in progress.
Ask(caps) ==
  /\ turn = "router"
  /\ answer' = Decide(caps)
  /\ turn' = CASE answer'.cap # "none" -> "executor"
               [] answer'.cap = "none" /\ answer'.task = "in_progress" -> "router"
               [] OTHER -> "user"
  /\ adjustments' = IF answer'.cap = "follow" THEN adjustments + 1 ELSE adjustments
  /\ UNCHANGED <<router_mode, conversation, goals, open>>

-----------------------------------------------------------------------------
(* The executor runs the call and feeds its result back                      *)

Reported(leaf) ==
  CASE leaf.success = "yes" /\ leaf.ticket # NoTicket
       /\ (leaf.state = "RUNNING" \/ (leaf.state = "none" /\ leaf.accepted = "yes")) ->
         open \cup {leaf.ticket}
    [] leaf.contract # "cancel" /\ leaf.state \in Terminal -> open \ {leaf.ticket}
    [] OTHER -> open

\* The next request carries the result.
Feed(leaf) ==
  /\ turn' = "router"
  /\ told' = Advance(told, leaf) /\ turn_run' = Advance(turn_run, leaf)
  /\ latest' = leaf
  /\ feedback' = IF feedback = "garbled" THEN "garbled" ELSE "clear"
  /\ open' = Reported(leaf)
  /\ UNCHANGED <<router_mode, command, prior_run, answer, adjustments>>

\* The next request carries a feedback message without a result.
FeedGarbled ==
  /\ turn' = "router" /\ feedback' = "garbled"
  /\ UNCHANGED <<router_mode, command, told, prior_run, turn_run, latest, answer, open,
                 adjustments>>

Failure(contract) == Leaf(contract, "no", "unsaid", NoTicket, "none")
Bare(contract) == Leaf(contract, "yes", "unsaid", NoTicket, "none")

\* navigate_landmark raises before a goal is sent, or the provider refuses it.
StartRefused ==
  /\ turn = "executor" /\ answer.cap = "navigate"
  /\ Feed(Failure("navigate")) \/ FeedGarbled
  /\ UNCHANGED goals

\* navigate_landmark sends a goal, one at a time.  The answer may be its
\* acceptance (a denial, if the map was lost meanwhile), an ambiguous failure, or
\* the status of the goal when the executor keeps the result back until then.
StartReturns(t) ==
  /\ turn = "executor" /\ answer.cap = "navigate"
  /\ truth[t] = "unused" /\ \A u \in Ticket : truth[u] # "RUNNING"
  /\ \E now \in Known, lost \in SUBSET {t} :
       /\ truth' = [truth EXCEPT ![t] = now]
       /\ withdrawn' = withdrawn \cup lost
       /\ \/ Feed(Leaf("navigate", "yes", IF lost = {} THEN "yes" ELSE "no", t, "none"))
          \/ Feed(Leaf("navigate", "yes", "unsaid", t, IF lost = {} THEN now ELSE "FAILED"))
          \/ now \in Terminal /\ Feed(Leaf("navigate", "no", "unsaid", t, now))
          \/ Feed(Leaf("navigate", "yes", "yes", NoTicket, "none"))
          \/ Feed(Failure("navigate")) \/ Feed(Bare("navigate")) \/ FeedGarbled

\* What landmark_status shows of run t.
Shown(t) == IF t \in withdrawn THEN "FAILED" ELSE truth[t]

StatusReturns(t) ==
  /\ turn = "executor" /\ answer.cap = "status" /\ answer.ticket = t
  /\ \/ Feed(Leaf("status", "yes", "unsaid", t, Shown(t)))
     \/ Feed(Failure("status")) \/ Feed(Bare("status")) \/ FeedGarbled
  /\ UNCHANGED goals

\* landmark_cancel: accepted for a run that moves or was canceled, and raising
\* for one that ended otherwise.  The end itself is GoalEnds.
CancelReturns(t) ==
  /\ turn = "executor" /\ answer.cap = "cancel" /\ answer.ticket = t
  /\ \/ truth[t] \in {"RUNNING", "CANCELED"}
        /\ Feed(Leaf("cancel", "yes", "yes", NoTicket, "none"))
     \/ Feed(Failure("cancel")) \/ Feed(Bare("cancel")) \/ FeedGarbled
  /\ UNCHANGED goals

\* The distance provider answers; its result is not a semantic one.
AdjustDistance ==
  /\ turn = "executor" /\ answer.cap = "follow"
  /\ turn' = "router" /\ feedback' \in {"clear", "garbled"}
  /\ UNCHANGED <<router_mode, command, told, prior_run, turn_run, latest, answer, goals,
                 open, adjustments>>

\* The provider ends a goal.
GoalEnds(t) ==
  /\ truth[t] = "RUNNING"
  /\ \E end \in Terminal : truth' = [truth EXCEPT ![t] = end]
  /\ UNCHANGED <<router_mode, turn, conversation, answer, withdrawn, open, adjustments>>

\* _invalidate_nonterminal_runs of the skill: the map changed or was lost.
MapLost ==
  /\ \E t \in Ticket : truth[t] = "RUNNING" /\ t \notin withdrawn
  /\ withdrawn' = withdrawn \cup {t \in Ticket : truth[t] = "RUNNING"}
  /\ UNCHANGED <<router_mode, turn, conversation, answer, truth, open, adjustments>>

IntentNext ==
  \/ \E utterance \in Landmark \cup {"stop", "follow", "unmatched"} : Say(utterance)
  \/ \E caps \in SUBSET (Driving \cup {"follow"}) : Ask(caps)
  \/ StartRefused \/ AdjustDistance \/ MapLost
  \/ \E t \in Ticket : StartReturns(t) \/ StatusReturns(t) \/ CancelReturns(t) \/ GoalEnds(t)

IntentSpec == IntentInit /\ [][IntentNext]_intent_vars

-----------------------------------------------------------------------------
(* Properties *)

Leaves == [contract : {"none", "navigate", "status", "cancel"}, success : {"yes", "no"},
           accepted : {"yes", "no", "unsaid"}, ticket : Ticket \cup {NoTicket},
           target : Landmark \cup {NoTarget}, state : Known \cup {"none"}]
Runs == [ticket : Ticket \cup {NoTicket}, target : Landmark \cup {NoTarget},
         state : Known \cup {"none"}]

IntentTypeOK ==
  /\ router_mode \in {"preview", "live"} /\ turn \in {"user", "router", "executor"}
  /\ command \in Landmark \cup {"stop", "follow", "unmatched"}
  /\ told \in Runs /\ prior_run \in Runs /\ turn_run \in Runs
  /\ latest \in Leaves /\ feedback \in {"none", "clear", "garbled"}
  /\ answer \in [cap : {"none", "navigate", "status", "cancel", "follow"},
                 ticket : Ticket \cup {NoTicket}, target : Landmark \cup {NoTarget},
                 task : {"none", "in_progress", "done"}]
  /\ truth \in [Ticket -> Known \cup {"unused"}] /\ withdrawn \subseteq Ticket
  /\ open \subseteq Ticket /\ adjustments \in Nat

\* A run once reported to be under way is seen through: until a result tells of
\* its end, no answer starts another run, moves the follower, reports a task
\* done or lets the conversation end, whatever the user says in between
\* (server.py: "Executor/RPC failures are not evidence that an already submitted
\* goal stopped").
RunsAreSeenThrough ==
  turn # "router" => open = {} \/ answer.cap \in {"status", "cancel"}

\* A relative adjustment is sent at most once for one utterance, also when its
\* result is lost ("replay would add or subtract another metre").
AdjustsOnce == adjustments <= 1

=============================================================================
