---------------------------- MODULE ServicesProofs ----------------------------
(***************************************************************************)
(* Theorems about what the operator and Pilot see and use:                 *)
(*   - IntentRouter, for every set of landmarks and of runs;               *)
(*   - InitialPose, for every set of maps, generations and seeds;          *)
(*   - DashboardFeed, for every limit of its clocks and counts;            *)
(*   - D435iStream, for every pipe and number of faults on the way;        *)
(*   - StagedReadiness, for every window and freshness.                    *)
(***************************************************************************)
EXTENDS IntentRouter, InitialPose, DashboardFeed, D435iStream, StagedReadiness, TLAPS

-----------------------------------------------------------------------------
(* IntentRouter: the run the conversation has open, and who may be asked what. *)

\* Types of the conversation.
IntentTypes ==
  /\ router_mode \in {"preview", "live"} /\ turn \in {"user", "router", "executor"}
  /\ command \in Landmark \cup {"stop", "follow", "unmatched"}
  /\ told \in Runs /\ prior_run \in Runs /\ turn_run \in Runs
  /\ answer.cap \in {"none", "navigate", "status", "cancel", "follow"}
  /\ answer.target \in Landmark \cup {NoTarget}
  /\ adjustments \in Nat

\* The only run last reported to be under way is the one the results of all turns
\* tell of.
OneOpenRun == open = IF UnderWay(told) THEN {told.ticket} ELSE {}

\* This turn sees that run, or it has ended and this turn knows of none.
TurnFollows == turn_run = told \/ (turn_run = NoActiveRun /\ ~UnderWay(told))

\* A refusal is never heard while a run is under way.
RefusalStartsNothing == Refused => ~UnderWay(turn_run)

\* What the executor may be running.
CallsAreDue ==
  turn = "executor" =>
    /\ answer.cap = "status" => UnderWay(turn_run) /\ answer.ticket = turn_run.ticket
    /\ answer.cap \in {"navigate", "follow"} => ~UnderWay(turn_run)

\* A preview calls nothing, so there is never a run.
PreviewIsSilent == router_mode = "preview" => ~UnderWay(told) /\ turn # "executor"

\* An adjustment is running, or its feedback has ended the matter.
OneAdjustment ==
  adjustments = 0 \/ (adjustments = 1 /\ (turn = "executor" \/ feedback # "none"))

IntentInv ==
  /\ IntentTypes /\ OneOpenRun /\ TurnFollows /\ RefusalStartsNothing /\ CallsAreDue
  /\ PreviewIsSilent /\ OneAdjustment /\ RunsAreSeenThrough

\* Runs are runs.
LEMMA RunTypes ==
  /\ NoActiveRun \in Runs /\ ~UnderWay(NoActiveRun)
  /\ \A ticket \in Ticket, target \in Landmark \cup {NoTarget}, state \in Known :
       ActiveRun(ticket, target, state) \in Runs
BY DEF NoActiveRun, ActiveRun, Runs, UnderWay

\* Nothing was said yet.
LEMMA IntentInitially == IntentInit => IntentInv
<1> SUFFICES ASSUME IntentInit PROVE IntentInv
  OBVIOUS
<1>1. IntentTypes
  BY RunTypes DEF IntentInit, IntentTypes, Rejected, Reply
<1>2. Refused = FALSE
  BY DEF IntentInit, Refused, NoLeaf
<1> QED
  BY <1>1, <1>2, RunTypes
  DEF IntentInit, IntentInv, OneOpenRun, TurnFollows, RefusalStartsNothing, CallsAreDue,
      PreviewIsSilent, OneAdjustment, RunsAreSeenThrough

ReplyCaps == {"none", "navigate", "status", "cancel", "follow"}

\* What every answer of the endpoint is.
Fair(reply) ==
  /\ reply.cap \in ReplyCaps
  /\ reply.target \in Landmark \cup {NoTarget}
  /\ reply.cap = "status" => UnderWay(turn_run) /\ reply.ticket = turn_run.ticket
  /\ reply.cap \in {"navigate", "follow"} => ~UnderWay(turn_run)
  /\ reply.cap = "none" /\ reply.task # "in_progress" => ~UnderWay(turn_run)
  /\ reply.cap = "follow" => feedback = "none"

\* The simple answers are.
LEMMA FairReplies ==
  ASSUME IntentTypes
  PROVE  /\ Fair(Hold)
         /\ \A r \in Runs : Fair(CancelCall(r))
         /\ UnderWay(turn_run) => Fair(PollRun(turn_run))
         /\ ~UnderWay(turn_run) =>
              /\ Fair(Done) /\ Fair(Rejected) /\ (command \in Landmark => Fair(Start(command)))
              /\ feedback = "none" => Fair(Adjust)
BY DEF Fair, Hold, CancelCall, PollRun, Done, Rejected, Start, Adjust, Reply, ReplyCaps,
       IntentTypes, Runs

\* Following it up is.
LEMMA FollowIsFair ==
  ASSUME IntentTypes, NEW caps, NEW reply, Fair(reply)
  PROVE  Fair(Follow(reply, caps))
BY FairReplies DEF Follow

\* The answer to a command is.
LEMMA CommandIsFair ==
  ASSUME IntentTypes, NEW caps
  PROVE  Fair(CommandReply(caps))
<1>e. HasEnded(turn_run) => ~UnderWay(turn_run)
  BY DEF HasEnded, UnderWay, Terminal
<1>u. UnderWay(turn_run) => /\ Fair(Follow(PollRun(turn_run), caps))
                            /\ Fair(Follow(CancelCall(turn_run), caps))
  BY FairReplies, FollowIsFair DEF IntentTypes
<1>1. Fair(StopReply(caps))
  <2>1. CASE UnderWay(turn_run)
    BY <2>1, <1>u DEF StopReply
  <2>2. CASE ~UnderWay(turn_run)
    BY <2>2, FairReplies DEF StopReply
  <2> QED BY <2>1, <2>2
<1>2. command \in Landmark => Fair(TargetReply(caps))
  <2> SUFFICES ASSUME command \in Landmark PROVE Fair(TargetReply(caps))
    OBVIOUS
  <2>1. CASE HasEnded(turn_run)
    BY <2>1, <1>e, FairReplies DEF TargetReply
  <2>2. CASE UnderWay(turn_run)
    <3>1. TargetReply(caps) \in {Follow(PollRun(turn_run), caps),
                                Follow(CancelCall(turn_run), caps)}
      BY <2>2, <1>e DEF TargetReply
    <3> QED BY <2>2, <3>1, <1>u
  <2>3. CASE ~HasEnded(turn_run) /\ ~UnderWay(turn_run)
    BY <2>3, FairReplies DEF TargetReply
  <2> QED BY <2>1, <2>2, <2>3
<1>3. Fair(UnmatchedReply(caps))
  <2>1. CASE UnderWay(turn_run)
    BY <2>1, <1>e, <1>u DEF UnmatchedReply
  <2>2. CASE ~UnderWay(turn_run)
    BY <2>2, FairReplies DEF UnmatchedReply
  <2> QED BY <2>1, <2>2
<1> QED BY <1>1, <1>2, <1>3 DEF CommandReply

\* And so is every answer in live mode.
LEMMA DecideIsFair ==
  ASSUME IntentTypes, RefusalStartsNothing, router_mode = "live", NEW caps
  PROVE  Fair(Decide(caps))
<1>r. prior_run \in Runs /\ turn_run \in Runs
  BY DEF IntentTypes
<1>c. ASSUME NEW r \in Runs, NEW reply, Fair(reply) PROVE Fair(CancelOr(r, reply, caps))
  BY <1>c, FairReplies DEF CancelOr
<1>1. CASE command = "follow" /\ prior_run = NoActiveRun /\ ~UnderWay(turn_run)
  <2>1. Fair(DistanceReply(caps))
    BY <1>1, FairReplies DEF DistanceReply
  <2> QED BY <1>1, <2>1 DEF Decide
<1>2. CASE ~(command = "follow" /\ prior_run = NoActiveRun /\ ~UnderWay(turn_run))
  <2> SUFFICES Fair(SemanticReply(caps))
    BY <1>2 DEF Decide
  <2>1. Fair(CancelOr(Candidate, Hold, caps))
    <3>1. Candidate \in Runs
      BY <1>r DEF Candidate
    <3> QED BY <3>1, <1>c, FairReplies
  <2>2. Refused => Fair(CancelOr(prior_run, Done, caps))
    BY <1>r, <1>c, FairReplies DEF RefusalStartsNothing
  <2>3. Fair(CommandReply(caps))
    BY CommandIsFair
  <2> QED BY <2>1, <2>2, <2>3, FairReplies DEF SemanticReply
<1> QED BY <1>1, <1>2

\* A preview answers without a call.
LEMMA PreviewIsFair ==
  ASSUME IntentTypes, router_mode = "preview", ~UnderWay(turn_run), NEW caps
  PROVE  Fair(Decide(caps)) /\ Decide(caps).cap = "none"
<1>1. Decide(caps) \in {Rejected, Done}
  BY DEF Decide, PreviewReply
<1>2. Rejected.cap = "none" /\ Done.cap = "none"
  BY DEF Rejected, Done, Reply
<1> QED BY <1>1, <1>2, FairReplies

\* What a run may become when it hears a result.
LEMMA Advanced ==
  ASSUME NEW r \in Runs, NEW leaf, leaf.ticket \in Ticket \cup {NoTicket},
         leaf.target \in Landmark \cup {NoTarget}
  PROVE  Advance(r, leaf) \in Runs
<1> USE TicketAssumption
<1>1. ASSUME NEW s \in Known PROVE [r EXCEPT !.state = s] \in Runs
  BY <1>1 DEF Runs
<1>2. "RUNNING" \in Known
  BY DEF Known
<1> QED BY <1>1, <1>2, RunTypes DEF Advance

\* A run this turn sees under way is the one all turns tell of.
LEMMA UnderWayRuns ==
  ASSUME TurnFollows, UnderWay(turn_run)
  PROVE  turn_run = told /\ turn_run # NoActiveRun
BY RunTypes DEF TurnFollows

\* If this turn sees none under way, none is open.
LEMMA NotUnderWayRuns ==
  ASSUME TurnFollows, ~UnderWay(turn_run), OneOpenRun
  PROVE  ~UnderWay(told) /\ open = {}
BY DEF TurnFollows, OneOpenRun

\* An answer of the endpoint keeps the invariant.
LEMMA AskKeeps ==
  ASSUME IntentInv, NEW caps, Ask(caps)
  PROVE  IntentInv'
<1>t. IntentTypes /\ OneOpenRun /\ TurnFollows /\ RefusalStartsNothing /\ PreviewIsSilent
      /\ OneAdjustment
  BY DEF IntentInv
<1>a. turn = "router" /\ answer' = Decide(caps)
      /\ UNCHANGED <<router_mode, conversation, goals, open>>
  BY DEF Ask
<1>u. UNCHANGED <<router_mode, command, told, prior_run, turn_run, latest, feedback, open>>
  BY <1>a DEF conversation
<1>n. ~UnderWay(turn_run) => open = {} /\ ~UnderWay(told)
  BY <1>t, NotUnderWayRuns
<1>1. Fair(answer') /\ (router_mode = "preview" => answer'.cap = "none")
  <2>1. CASE router_mode = "live"
    BY <1>a, <1>t, <2>1, DecideIsFair
  <2>2. CASE router_mode = "preview"
    <3>1. ~UnderWay(turn_run)
      BY <1>t, <2>2, RunTypes DEF PreviewIsSilent, TurnFollows
    <3> QED BY <1>a, <1>t, <2>2, <3>1, PreviewIsFair
  <2> QED BY <2>1, <2>2, <1>t DEF IntentTypes
<1>2. /\ answer'.cap \in ReplyCaps /\ answer'.target \in Landmark \cup {NoTarget}
      /\ answer'.cap = "status" => UnderWay(turn_run) /\ answer'.ticket = turn_run.ticket
      /\ answer'.cap \in {"navigate", "follow"} => ~UnderWay(turn_run)
      /\ answer'.cap = "none" /\ answer'.task # "in_progress" => ~UnderWay(turn_run)
      /\ answer'.cap = "follow" => feedback = "none"
  BY <1>1 DEF Fair
<1>3. \/ turn' = "executor" /\ answer'.cap # "none"
      \/ turn' = "router" /\ answer'.cap = "none"
      \/ turn' = "user" /\ answer'.cap = "none" /\ answer'.task # "in_progress"
  BY DEF Ask
<1>4. /\ answer'.cap = "follow" => adjustments' = adjustments + 1
      /\ answer'.cap # "follow" => adjustments' = adjustments
  BY DEF Ask
<1>5. IntentTypes' /\ OneAdjustment'
  BY <1>t, <1>a, <1>u, <1>2, <1>3, <1>4 DEF IntentTypes, OneAdjustment, ReplyCaps
<1>6. OneOpenRun' /\ TurnFollows' /\ RefusalStartsNothing'
  BY <1>t, <1>u DEF OneOpenRun, TurnFollows, RefusalStartsNothing, Refused
<1>7. CallsAreDue' /\ PreviewIsSilent' /\ RunsAreSeenThrough'
  BY <1>t, <1>u, <1>n, <1>1, <1>2, <1>3
  DEF CallsAreDue, PreviewIsSilent, RunsAreSeenThrough, ReplyCaps
<1> QED BY <1>5, <1>6, <1>7 DEF IntentInv

\* Hearing a result that says nothing of a run leaves the run as it is.
LEMMA Unmoved ==
  ASSUME NEW r, NEW leaf,
         leaf.contract = "cancel"
         \/ (leaf.state \notin Known /\ (leaf.ticket = NoTicket \/ leaf.accepted # "yes"))
  PROVE  Advance(r, leaf) = r
BY DEF Advance

\* What a result must do to the runs so that everything stays as said.
LEMMA FeedKeeps ==
  ASSUME IntentInv, turn = "executor", NEW leaf, Feed(leaf),
         leaf.ticket \in Ticket \cup {NoTicket}, leaf.target \in Landmark \cup {NoTarget},
         OneOpenRun', TurnFollows', RefusalStartsNothing'
  PROVE  IntentInv'
<1>1. IntentTypes'
  BY Advanced DEF Feed, IntentInv, IntentTypes
<1>2. router_mode = "live" /\ adjustments' = adjustments /\ feedback' # "none"
      /\ turn' = "router" /\ router_mode' = router_mode
  BY DEF Feed, IntentInv, IntentTypes, PreviewIsSilent
<1>3. CallsAreDue' /\ PreviewIsSilent' /\ RunsAreSeenThrough' /\ OneAdjustment'
  BY <1>2 DEF CallsAreDue, PreviewIsSilent, RunsAreSeenThrough, OneAdjustment, IntentInv
<1> QED BY <1>1, <1>3 DEF IntentInv

\* A message without a result changes nothing that matters.
LEMMA GarbledKeeps ==
  ASSUME IntentInv, turn = "executor", FeedGarbled
  PROVE  IntentInv'
BY DEF FeedGarbled, IntentInv, IntentTypes, OneOpenRun, TurnFollows, RefusalStartsNothing, Refused,
       CallsAreDue, PreviewIsSilent, OneAdjustment, RunsAreSeenThrough

\* A result that says nothing of a run: nothing is opened or closed.
LEMMA SilentKeeps ==
  ASSUME IntentInv, turn = "executor", NEW leaf, Feed(leaf),
         leaf.ticket \in Ticket \cup {NoTicket}, leaf.target \in Landmark \cup {NoTarget},
         leaf.contract = "cancel"
         \/ (leaf.state \notin Known /\ (leaf.ticket = NoTicket \/ leaf.accepted # "yes")),
         Reported(leaf) = open,
         leaf.contract = "navigate" => ~UnderWay(turn_run)
  PROVE  IntentInv'
<1>1. told' = told /\ turn_run' = turn_run /\ open' = open
  BY Unmoved DEF Feed
<1>2. latest' = leaf
  BY DEF Feed
<1>3. OneOpenRun' /\ TurnFollows' /\ RefusalStartsNothing'
  BY <1>1, <1>2 DEF IntentInv, OneOpenRun, TurnFollows, RefusalStartsNothing, Refused
<1> QED BY <1>3, FeedKeeps

\* The fields of a result.
LEMMA LeafFields ==
  ASSUME NEW contract, NEW success, NEW approval, NEW ticket, NEW state,
         NEW leaf, leaf = Leaf(contract, success, approval, ticket, state)
  PROVE  /\ leaf.contract = contract /\ leaf.success = success /\ leaf.accepted = approval
         /\ leaf.ticket = ticket /\ leaf.target = answer.target /\ leaf.state = state
BY DEF Leaf

\* A failure, or a result without content, keeps it.
LEMMA NothingReported ==
  ASSUME IntentInv, turn = "executor", NEW contract, NEW success,
         Feed(Leaf(contract, success, "unsaid", NoTicket, "none")),
         contract = "navigate" => ~UnderWay(turn_run)
  PROVE  IntentInv'
<1> DEFINE leaf == Leaf(contract, success, "unsaid", NoTicket, "none")
<1>1. /\ leaf.contract = contract /\ leaf.success = success /\ leaf.accepted = "unsaid"
      /\ leaf.ticket = NoTicket /\ leaf.target = answer.target /\ leaf.state = "none"
  BY LeafFields
<1>2. Feed(leaf)
  OBVIOUS
<1> HIDE DEF leaf
<1>3. Reported(leaf) = open
  BY <1>1 DEF Reported, Terminal
<1>4. leaf.state \notin Known
  BY <1>1 DEF Known, Terminal
<1>5. leaf.target \in Landmark \cup {NoTarget}
  BY <1>1 DEF IntentInv, IntentTypes
<1> QED BY <1>1, <1>2, <1>3, <1>4, <1>5, SilentKeeps

\* A run that navigate reports, or whose state status reports.
LEMMA ToldKeeps ==
  ASSUME IntentInv, turn = "executor", NEW t \in Ticket, NEW leaf, Feed(leaf),
         leaf.ticket = t, leaf.target \in Landmark \cup {NoTarget},
         NEW s \in Known, leaf.contract \in {"navigate", "status"},
         leaf.contract = "navigate" =>
            /\ ~UnderWay(turn_run)
            /\ \/ leaf.state = s /\ (s = "RUNNING" => leaf.success = "yes")
               \/ /\ leaf.state = "none" /\ leaf.success = "yes" /\ leaf.accepted = "yes"
                  /\ s = "RUNNING",
         leaf.contract = "status" =>
            /\ leaf.success = "yes" /\ leaf.state = s
            /\ UnderWay(turn_run) /\ turn_run.ticket = t
  PROVE  IntentInv'
<1> USE TicketAssumption
<1>t. IntentTypes /\ OneOpenRun /\ TurnFollows
  BY DEF IntentInv
<1>k. "none" \notin Known /\ "RUNNING" \notin Terminal /\ s \in Terminal \cup {"RUNNING"}
  BY DEF Known, Terminal
<1>1. /\ told'.state = s /\ told'.ticket = t /\ turn_run' = told'
      /\ open \subseteq {t}
  <2>1. CASE leaf.contract = "navigate"
    <3>1. Advance(told, leaf) = ActiveRun(t, leaf.target, s)
          /\ Advance(turn_run, leaf) = ActiveRun(t, leaf.target, s)
      BY <2>1, <1>k DEF Advance
    <3>2. open = {}
      BY <1>t, <2>1, NotUnderWayRuns
    <3> QED BY <3>1, <3>2 DEF Feed, ActiveRun
  <2>2. CASE leaf.contract = "status"
    <3>1. turn_run = told /\ told # NoActiveRun /\ UnderWay(told) /\ told.ticket = t
      BY <1>t, <2>2, UnderWayRuns
    <3>2. Advance(told, leaf) = [told EXCEPT !.state = s]
      BY <2>2, <3>1 DEF Advance
    <3>3. told' = [told EXCEPT !.state = s] /\ turn_run' = told'
      BY <3>1, <3>2 DEF Feed
    <3>4. told'.state = s /\ told'.ticket = t
      BY <3>3, <3>1, <1>t DEF IntentTypes, Runs
    <3>5. open = {t}
      BY <3>1, <1>t DEF OneOpenRun
    <3> QED BY <3>3, <3>4, <3>5
  <2> QED BY <2>1, <2>2
<1>2. open' = IF s = "RUNNING" THEN {t} ELSE {}
  <2>1. open' = Reported(leaf)
    BY DEF Feed
  <2>2. CASE s = "RUNNING"
    <3>0. /\ leaf.success = "yes" /\ leaf.ticket = t /\ t # NoTicket
          /\ leaf.state = "RUNNING" \/ (leaf.state = "none" /\ leaf.accepted = "yes")
      BY <2>2
    <3>1. Reported(leaf) = open \cup {t}
      BY <3>0 DEF Reported, Terminal
    <3> QED BY <2>1, <2>2, <3>1, <1>1
  <2>3. CASE s # "RUNNING"
    <3>1. Reported(leaf) = open \ {t}
      BY <2>3, <1>k DEF Reported
    <3> QED BY <2>1, <2>3, <3>1, <1>1
  <2> QED BY <2>2, <2>3
<1>3. OneOpenRun' /\ TurnFollows'
  BY <1>1, <1>2 DEF OneOpenRun, TurnFollows, UnderWay
<1>4. RefusalStartsNothing'
  <2>1. latest' = leaf
    BY DEF Feed
  <2>2. leaf.contract = "navigate" /\ leaf.state = "none" => leaf.accepted # "no"
    BY <1>k
  <2>3. ~Refused'
    BY <2>1, <2>2 DEF Refused
  <2> QED BY <2>3 DEF RefusalStartsNothing
<1> QED BY <1>3, <1>4, FeedKeeps

\* So does whatever navigate_landmark returns,
LEMMA StartKeeps ==
  ASSUME IntentInv, NEW t \in Ticket, StartReturns(t)
  PROVE  IntentInv'
<1> USE TicketAssumption
<1>t. IntentTypes /\ OneOpenRun /\ TurnFollows /\ CallsAreDue
  BY DEF IntentInv
<1>e. turn = "executor" /\ ~UnderWay(turn_run) /\ answer.target \in Landmark \cup {NoTarget}
  BY <1>t DEF StartReturns, CallsAreDue, IntentTypes
<1>k. "none" \notin Known /\ "RUNNING" \in Known /\ "FAILED" \in Known /\ "RUNNING" \notin Terminal
      /\ Terminal \subseteq Known
  BY DEF Known, Terminal
<1>1. PICK now \in Known, lost \in SUBSET {t} :
         \/ Feed(Leaf("navigate", "yes", IF lost = {} THEN "yes" ELSE "no", t, "none"))
         \/ Feed(Leaf("navigate", "yes", "unsaid", t, IF lost = {} THEN now ELSE "FAILED"))
         \/ now \in Terminal /\ Feed(Leaf("navigate", "no", "unsaid", t, now))
         \/ Feed(Leaf("navigate", "yes", "yes", NoTicket, "none"))
         \/ Feed(Failure("navigate")) \/ Feed(Bare("navigate")) \/ FeedGarbled
  BY DEF StartReturns
<1>2. CASE Feed(Leaf("navigate", "yes", IF lost = {} THEN "yes" ELSE "no", t, "none"))
  <2>1. CASE lost = {}
    <3> DEFINE leaf == Leaf("navigate", "yes", "yes", t, "none")
    <3>1. Feed(leaf)
      BY <1>2, <2>1
    <3>2. leaf.contract = "navigate" /\ leaf.success = "yes" /\ leaf.accepted = "yes"
          /\ leaf.ticket = t /\ leaf.target = answer.target /\ leaf.state = "none"
      BY LeafFields
    <3> HIDE DEF leaf
    <3> QED BY <3>1, <3>2, <1>e, <1>k, ToldKeeps
  <2>2. CASE lost # {}
    <3> DEFINE leaf == Leaf("navigate", "yes", "no", t, "none")
    <3>1. Feed(leaf)
      BY <1>2, <2>2
    <3>2. leaf.contract = "navigate" /\ leaf.success = "yes" /\ leaf.accepted = "no"
          /\ leaf.ticket = t /\ leaf.target = answer.target /\ leaf.state = "none"
      BY LeafFields
    <3> HIDE DEF leaf
    <3>3. Reported(leaf) = open
      BY <3>2 DEF Reported, Terminal
    <3> QED BY <3>1, <3>2, <3>3, <1>e, <1>k, SilentKeeps
  <2> QED BY <2>1, <2>2
<1>3. CASE Feed(Leaf("navigate", "yes", "unsaid", t, IF lost = {} THEN now ELSE "FAILED"))
  <2> DEFINE s == IF lost = {} THEN now ELSE "FAILED"
             leaf == Leaf("navigate", "yes", "unsaid", t, s)
  <2>1. Feed(leaf)
    BY <1>3
  <2>2. s \in Known
    BY <1>k
  <2> HIDE DEF s
  <2>3. leaf.contract = "navigate" /\ leaf.success = "yes" /\ leaf.accepted = "unsaid"
        /\ leaf.ticket = t /\ leaf.target = answer.target /\ leaf.state = s
    BY LeafFields
  <2> HIDE DEF leaf
  <2> QED BY <2>1, <2>2, <2>3, <1>e, ToldKeeps
<1>4. CASE now \in Terminal /\ Feed(Leaf("navigate", "no", "unsaid", t, now))
  <2> DEFINE leaf == Leaf("navigate", "no", "unsaid", t, now)
  <2>1. Feed(leaf)
    BY <1>4
  <2>2. leaf.contract = "navigate" /\ leaf.success = "no" /\ leaf.accepted = "unsaid"
        /\ leaf.ticket = t /\ leaf.target = answer.target /\ leaf.state = now
    BY LeafFields
  <2> HIDE DEF leaf
  <2> QED BY <2>1, <2>2, <1>4, <1>e, <1>k, ToldKeeps
<1>5. CASE Feed(Leaf("navigate", "yes", "yes", NoTicket, "none"))
  <2> DEFINE leaf == Leaf("navigate", "yes", "yes", NoTicket, "none")
  <2>1. Feed(leaf)
    BY <1>5
  <2>2. leaf.contract = "navigate" /\ leaf.success = "yes" /\ leaf.accepted = "yes"
        /\ leaf.ticket = NoTicket /\ leaf.target = answer.target /\ leaf.state = "none"
    BY LeafFields
  <2> HIDE DEF leaf
  <2>3. Reported(leaf) = open
    BY <2>2 DEF Reported, Terminal
  <2> QED BY <2>1, <2>2, <2>3, <1>e, <1>k, SilentKeeps
<1>6. CASE Feed(Failure("navigate")) \/ Feed(Bare("navigate"))
  BY <1>6, <1>e, NothingReported DEF Failure, Bare
<1>7. CASE FeedGarbled
  BY <1>7, <1>e, GarbledKeeps
<1> QED BY <1>1, <1>2, <1>3, <1>4, <1>5, <1>6, <1>7

\* landmark_status returns,
LEMMA StatusKeeps ==
  ASSUME IntentInv, NEW t \in Ticket, StatusReturns(t)
  PROVE  IntentInv'
<1> USE TicketAssumption
<1>t. IntentTypes /\ CallsAreDue
  BY DEF IntentInv
<1>e. /\ turn = "executor" /\ UnderWay(turn_run) /\ turn_run.ticket = t
      /\ answer.target \in Landmark \cup {NoTarget}
  BY <1>t DEF StatusReturns, CallsAreDue, IntentTypes
<1>1. CASE Feed(Leaf("status", "yes", "unsaid", t, Shown(t)))
  <2> DEFINE leaf == Leaf("status", "yes", "unsaid", t, Shown(t))
  <2>1. Feed(leaf)
    BY <1>1
  <2>2. leaf.contract = "status" /\ leaf.success = "yes" /\ leaf.accepted = "unsaid"
        /\ leaf.ticket = t /\ leaf.target = answer.target /\ leaf.state = Shown(t)
    BY LeafFields
  <2> HIDE DEF leaf
  <2>3. CASE Shown(t) \in Known
    BY <2>1, <2>2, <2>3, <1>e, ToldKeeps
  <2>4. CASE Shown(t) \notin Known
    <3>1. Reported(leaf) = open
      BY <2>2, <2>4 DEF Reported, Known
    <3> QED BY <2>1, <2>2, <2>4, <3>1, <1>e, SilentKeeps
  <2> QED BY <2>3, <2>4
<1>2. CASE Feed(Failure("status")) \/ Feed(Bare("status"))
  BY <1>2, <1>e, NothingReported DEF Failure, Bare
<1>3. CASE FeedGarbled
  BY <1>3, <1>e, GarbledKeeps
<1> QED BY <1>1, <1>2, <1>3 DEF StatusReturns

\* and landmark_cancel returns.
LEMMA CancelKeeps ==
  ASSUME IntentInv, NEW t \in Ticket, CancelReturns(t)
  PROVE  IntentInv'
<1>e. turn = "executor" /\ answer.target \in Landmark \cup {NoTarget}
  BY DEF CancelReturns, IntentInv, IntentTypes
<1>1. CASE Feed(Leaf("cancel", "yes", "yes", NoTicket, "none"))
  <2> DEFINE leaf == Leaf("cancel", "yes", "yes", NoTicket, "none")
  <2>1. Feed(leaf)
    BY <1>1
  <2>2. leaf.contract = "cancel" /\ leaf.success = "yes" /\ leaf.accepted = "yes"
        /\ leaf.ticket = NoTicket /\ leaf.target = answer.target /\ leaf.state = "none"
    BY LeafFields
  <2> HIDE DEF leaf
  <2>3. Reported(leaf) = open
    BY <2>2 DEF Reported
  <2> QED BY <2>1, <2>2, <2>3, <1>e, SilentKeeps
<1>2. CASE Feed(Failure("cancel")) \/ Feed(Bare("cancel"))
  BY <1>2, <1>e, NothingReported DEF Failure, Bare
<1>3. CASE FeedGarbled
  BY <1>3, <1>e, GarbledKeeps
<1> QED BY <1>1, <1>2, <1>3 DEF CancelReturns

\* Every step keeps it.
LEMMA IntentStep == IntentInv /\ [IntentNext]_intent_vars => IntentInv'
<1> SUFFICES ASSUME IntentInv, [IntentNext]_intent_vars PROVE IntentInv'
  OBVIOUS
<1>1. ASSUME NEW utterance \in Landmark \cup {"stop", "follow", "unmatched"}, Say(utterance)
      PROVE IntentInv'
  <2>1. LeftOpen \in Runs /\ (LeftOpen = told \/ (LeftOpen = NoActiveRun /\ ~UnderWay(told)))
    BY RunTypes DEF LeftOpen, IntentInv, IntentTypes
  <2>2. IntentTypes'
    BY <1>1, <2>1 DEF Say, IntentInv, IntentTypes
  <2>3. ~Refused'
    BY <1>1 DEF Say, Refused, NoLeaf
  <2>4. OneOpenRun' /\ TurnFollows' /\ PreviewIsSilent'
    BY <1>1, <2>1 DEF Say, IntentInv, OneOpenRun, TurnFollows, PreviewIsSilent
  <2> QED BY <1>1, <2>2, <2>3, <2>4
       DEF Say, IntentInv, RefusalStartsNothing, CallsAreDue, OneAdjustment, RunsAreSeenThrough
<1>2. ASSUME NEW caps \in SUBSET (Driving \cup {"follow"}), Ask(caps) PROVE IntentInv'
  BY <1>2, AskKeeps
<1>3. CASE StartRefused
  <2>1. turn = "executor" /\ ~UnderWay(turn_run)
    BY <1>3 DEF StartRefused, IntentInv, CallsAreDue
  <2> QED BY <1>3, <2>1, NothingReported, GarbledKeeps DEF StartRefused, Failure
<1>4. CASE AdjustDistance
  BY <1>4 DEF AdjustDistance, IntentInv, IntentTypes, OneOpenRun, TurnFollows,
     RefusalStartsNothing, Refused, CallsAreDue, PreviewIsSilent, OneAdjustment, RunsAreSeenThrough
<1>5. ASSUME NEW t \in Ticket, StartReturns(t) \/ StatusReturns(t) \/ CancelReturns(t)
      PROVE IntentInv'
  BY <1>5, StartKeeps, StatusKeeps, CancelKeeps
<1>6. CASE UNCHANGED <<router_mode, turn, conversation, answer, open, adjustments>>
  BY <1>6 DEF conversation, IntentInv, IntentTypes, OneOpenRun, TurnFollows,
     RefusalStartsNothing, Refused, CallsAreDue, PreviewIsSilent, OneAdjustment, RunsAreSeenThrough
<1>7. ASSUME NEW t \in Ticket, GoalEnds(t) PROVE IntentInv'
  BY <1>6, <1>7 DEF GoalEnds
<1>8. CASE MapLost
  BY <1>6, <1>8 DEF MapLost
<1>9. CASE UNCHANGED intent_vars
  BY <1>6, <1>9 DEF intent_vars
<1> QED BY <1>1, <1>2, <1>3, <1>4, <1>5, <1>7, <1>8, <1>9 DEF IntentNext

\* So it holds throughout.
LEMMA IntentInvariant == IntentSpec => []IntentInv
BY IntentInitially, IntentStep, PTL DEF IntentSpec

\* Whatever is lost or garbled between the endpoint and the executor, a run reported
\* to be under way is seen through, for every set of landmarks and of runs.
THEOREM OpenRunsAreSeenThrough == IntentSpec => []RunsAreSeenThrough
<1>1. IntentInv => RunsAreSeenThrough
  BY DEF IntentInv
<1> QED BY <1>1, IntentInvariant, PTL

\* One utterance moves the follower at most once, also when its result is lost.
THEOREM DistanceIsAdjustedOnce == IntentSpec => []AdjustsOnce
<1>1. IntentInv => AdjustsOnce
  BY DEF IntentInv, OneAdjustment, AdjustsOnce
<1> QED BY <1>1, IntentInvariant, PTL

-----------------------------------------------------------------------------
(* InitialPose: what a save puts aside.                                    *)

\* Inductive as it is, with its types: a save or a reset leaves what was there.
SeedsInv == SeedsTypeOK /\ SeedsAreRecoverable

\* Queues of seed files.
LEMMA RequestTypes ==
  /\ \A s \in Seq(Files) : s # <<>> => Head(s) \in Files /\ Tail(s) \in Seq(Files)
  /\ \A s \in Seq(Files), f \in Files : Append(s, f) \in Seq(Files)
  OBVIOUS

\* Nothing was saved yet.
LEMMA SeedsInitially == SeedsInit => SeedsInv
<1> SUFFICES ASSUME SeedsInit PROVE SeedsInv
  OBVIOUS
<1> USE QueueAssumption DEF SeedsInit
<1>1. artifact \in [Chart -> 1..MaxGeneration]
  <2>1. 1 \in 1..MaxGeneration
    OBVIOUS
  <2> QED BY <2>1
<1>2. live \in Identities
  BY DEF Identity, Identities
<1>3. requests \in Seq(Files)
  OBVIOUS
<1> QED BY <1>1, <1>2, <1>3 DEF SeedsInv, SeedsTypeOK, SeedsAreRecoverable

\* What a save or a reset of map m leaves on the disk.
LEMMA SeedsKept ==
  ASSUME sidecar \in [Chart -> Files \cup {NoSeed}], SeedsAreRecoverable,
         NEW m \in Chart, NEW file \in Files \cup {NoSeed},
         archived' = Aside(m), sidecar' = [sidecar EXCEPT ![m] = file],
         given' \subseteq given \cup {file}, given' \subseteq Files
  PROVE  SeedsAreRecoverable'
<1> SUFFICES ASSUME NEW g \in given' PROVE g \in archived' \cup {sidecar'[n] : n \in Chart}
  BY DEF SeedsAreRecoverable
<1>1. CASE g = file
  <2>1. sidecar'[m] = g
    BY <1>1
  <2> QED BY <2>1
<1>2. CASE g # file
  <2>1. g \in archived \cup {sidecar[n] : n \in Chart}
    BY <1>2 DEF SeedsAreRecoverable
  <2>2. CASE g \in archived
    BY <2>2 DEF Aside
  <2>3. CASE g \notin archived
    <3>1. PICK n \in Chart : g = sidecar[n]
      BY <2>1, <2>3
    <3>2. CASE n = m
      <4>1. g # NoSeed
        BY SeedAssumption
      <4> QED BY <4>1, <3>1, <3>2 DEF Aside
    <3>3. CASE n # m
      <4>1. sidecar'[n] = g
        BY <3>1, <3>3
      <4> QED BY <4>1
    <3> QED BY <3>2, <3>3
  <2> QED BY <2>2, <2>3
<1> QED BY <1>1, <1>2

\* The archive holds seed files.
LEMMA AsideIsFiles ==
  ASSUME sidecar \in [Chart -> Files \cup {NoSeed}], archived \subseteq Files, NEW m \in Chart
  PROVE  Aside(m) \subseteq Files
BY DEF Aside

\* Where the disk stays as it is.
LEMMA SeedsStay ==
  ASSUME SeedsAreRecoverable, UNCHANGED <<sidecar, archived, given>>
  PROVE  SeedsAreRecoverable'
BY DEF SeedsAreRecoverable

\* Every step of the dashboard, the mapping service and the operator keeps it.
LEMMA SeedsStep == SeedsInv /\ [SeedsNext]_seed_vars => SeedsInv'
<1> SUFFICES ASSUME SeedsInv, [SeedsNext]_seed_vars PROVE SeedsInv'
  OBVIOUS
<1> USE QueueAssumption, SeedAssumption
<1>t. SeedsTypeOK /\ SeedsAreRecoverable
  BY DEF SeedsInv
<1>s. ASSUME UNCHANGED <<sidecar, archived, given>> PROVE SeedsAreRecoverable'
  BY <1>t, <1>s, SeedsStay
<1>1. ASSUME NEW m \in Chart, NEW mode \in {"mapping", "localization"}, Announce(m, mode)
      PROVE SeedsInv'
  <2>1. live' \in Identities
    BY <1>1, <1>t DEF Announce, Identity, Identities, SeedsTypeOK
  <2> QED BY <1>1, <2>1, <1>t, <1>s
       DEF Announce, SeedsInv, SeedsTypeOK, disk, volatile
<1>2. ASSUME SaveMap PROVE SeedsInv'
  <2>1. artifact' \in [Chart -> 1..MaxGeneration]
    BY <1>2, <1>t DEF SaveMap, SeedsTypeOK, Identities
  <2> QED BY <1>2, <2>1, <1>t, <1>s DEF SaveMap, SeedsInv, SeedsTypeOK, bus, volatile
<1>3. ASSUME NEW seed \in Seed, PlaceRobot(seed) PROVE SeedsInv'
  BY <1>3, <1>t, <1>s DEF PlaceRobot, SeedsInv, SeedsTypeOK, disk, volatile
<1>4. ASSUME OnMapLifecycle PROVE SeedsInv'
  <2>1. sample \in Identities /\ sample' = NoSeed
    BY <1>4, <1>t DEF OnMapLifecycle, SeedsTypeOK
  <2>2. store_identity' \in Identities \cup {NoSeed}
    BY <1>4, <2>1 DEF OnMapLifecycle, Observed
  <2>3. sample.chart \in Chart /\ sample.generation \in 1..MaxGeneration
    BY <2>1 DEF Identities
  <2>4. /\ last_publish' \in Files \cup {NoSeed} /\ pose_in' \in Seed \cup {NoSeed}
        /\ auto_done' \in (Chart \X (1..MaxGeneration)) \cup {NoSeed}
    <3>1. CASE UNCHANGED <<last_publish, pose_in, auto_done>>
      BY <3>1, <1>t DEF SeedsTypeOK
    <3>2. CASE Saved(sample) /\ Publish(sidecar[sample.chart])
               /\ auto_done' = <<sample.chart, sample.generation>>
      <4>1. sidecar[sample.chart] \in Files
        BY <3>2, <2>3, <1>t DEF Saved, SeedsTypeOK
      <4>2. sidecar[sample.chart].seed \in Seed
        BY <4>1 DEF Files
      <4> QED BY <3>2, <4>1, <4>2, <2>3 DEF Publish
    <3> QED BY <1>4, <3>1, <3>2 DEF OnMapLifecycle
  <2> QED BY <1>4, <2>1, <2>2, <2>4, <1>t, <1>s DEF OnMapLifecycle, SeedsInv, SeedsTypeOK, disk
<1>5. ASSUME OnInitialPose PROVE SeedsInv'
  <2>1. pose_in \in Seed /\ pose_in' = NoSeed
    BY <1>5, <1>t DEF OnInitialPose, SeedsTypeOK
  <2>2. CASE UNCHANGED <<disk, given>>
    BY <1>5, <2>1, <2>2, <1>t, <1>s DEF OnInitialPose, SeedsInv, SeedsTypeOK, disk, volatile
  <2>3. CASE ~UNCHANGED <<disk, given>>
    <3> DEFINE m == store_identity.chart
               file == File(m, store_identity.generation, pose_in)
    <3>1. store_identity \in Identities
      BY <1>5, <2>3, <1>t DEF OnInitialPose, Localizing, SeedsTypeOK
    <3>2. m \in Chart /\ store_identity.generation \in 1..MaxGeneration
      BY <3>1 DEF Identities
    <3>3. file \in Files
      BY <3>2, <2>1 DEF File, Files
    <3>4. archived' = Aside(m) /\ artifact' = artifact
      BY <1>5, <2>3 DEF OnInitialPose
    <3>5. \/ sidecar' = [sidecar EXCEPT ![m] = file] /\ given' = given \cup {file}
          \/ sidecar' = sidecar /\ given' = given
      BY <1>5, <2>3 DEF OnInitialPose
    <3>6. sidecar \in [Chart -> Files \cup {NoSeed}] /\ archived \subseteq Files
          /\ given \subseteq Files
      BY <1>t DEF SeedsTypeOK
    <3> HIDE DEF m, file
    <3>7. archived' \subseteq Files
      BY <3>2, <3>4, <3>6, AsideIsFiles
    <3>8. CASE sidecar' = [sidecar EXCEPT ![m] = file] /\ given' = given \cup {file}
      <4>1. SeedsAreRecoverable'
        BY <3>2, <3>3, <3>4, <3>6, <3>8, <1>t, SeedsKept
      <4>2. sidecar' \in [Chart -> Files \cup {NoSeed}] /\ given' \subseteq Files
        BY <3>2, <3>3, <3>6, <3>8
      <4> QED BY <1>5, <2>1, <3>4, <3>7, <4>1, <4>2, <1>t
           DEF OnInitialPose, SeedsInv, SeedsTypeOK, volatile
    <3>9. CASE sidecar' = sidecar /\ given' = given
      <4>1. archived \subseteq archived'
        BY <3>4 DEF Aside
      <4>2. SeedsAreRecoverable'
        BY <4>1, <3>9, <1>t DEF SeedsAreRecoverable
      <4> QED BY <1>5, <2>1, <3>4, <3>7, <3>9, <4>2, <1>t
           DEF OnInitialPose, SeedsInv, SeedsTypeOK, volatile
    <3> QED BY <3>5, <3>8, <3>9
  <2> QED BY <2>2, <2>3
<1>6. ASSUME Drain PROVE SeedsInv'
  <2>1. Head(requests) \in Files /\ Tail(requests) \in Seq(Files)
    BY <1>6, <1>t, RequestTypes DEF Drain, SeedsTypeOK
  <2>2. Head(requests).seed \in Seed
    BY <2>1 DEF Files
  <2> QED BY <1>6, <2>1, <2>2, <1>t, <1>s DEF Drain, Publish, SeedsInv, SeedsTypeOK, disk
<1>7. ASSUME EchoWindowEnds PROVE SeedsInv'
  BY <1>7, <1>t, <1>s DEF EchoWindowEnds, SeedsInv, SeedsTypeOK, disk, bus
<1>8. ASSUME NEW m \in Chart, NEW generation \in 1..MaxGeneration, ConfirmRestore(m, generation)
      PROVE SeedsInv'
  <2>1. restore' \in Files
    <3>1. store_identity \in Identities /\ store_identity.chart = m
      BY <1>8, <1>t DEF ConfirmRestore, Localizing, SeedsTypeOK
    <3>2. sidecar[m] # NoSeed /\ restore' = sidecar[m]
      BY <1>8, <3>1 DEF ConfirmRestore, Saved
    <3> QED BY <3>2, <1>t DEF SeedsTypeOK
  <2> QED BY <1>8, <2>1, <1>t, <1>s DEF ConfirmRestore, SeedsInv, SeedsTypeOK, disk, bus
<1>9. ASSUME QueueRestore PROVE SeedsInv'
  <2>1. restore \in Files
    BY <1>9, <1>t DEF QueueRestore, SeedsTypeOK
  <2>2. requests' \in Seq(Files)
    BY <1>9, <2>1, <1>t, RequestTypes DEF QueueRestore, SeedsTypeOK
  <2> QED BY <1>9, <2>2, <1>t, <1>s DEF QueueRestore, SeedsInv, SeedsTypeOK, disk, bus
<1>10. ASSUME NEW m \in Chart, NEW generation \in 1..MaxGeneration, ResetSeed(m, generation)
       PROVE SeedsInv'
  <2>1. archived' = Aside(m) /\ sidecar' = [sidecar EXCEPT ![m] = NoSeed] /\ given' = given
    BY <1>10 DEF ResetSeed
  <2>2. sidecar \in [Chart -> Files \cup {NoSeed}] /\ archived \subseteq Files
        /\ given \subseteq Files
    BY <1>t DEF SeedsTypeOK
  <2>3. SeedsAreRecoverable'
    BY <2>1, <2>2, <1>t, SeedsKept
  <2>4. archived' \subseteq Files /\ sidecar' \in [Chart -> Files \cup {NoSeed}]
    BY <2>1, <2>2, AsideIsFiles
  <2> QED BY <1>10, <2>1, <2>3, <2>4, <1>t DEF ResetSeed, SeedsInv, SeedsTypeOK, bus, volatile
<1>11. ASSUME Restart PROVE SeedsInv'
  <2>1. requests' \in Seq(Files)
    BY <1>11 DEF Restart
  <2> QED BY <1>11, <2>1, <1>t, <1>s DEF Restart, SeedsInv, SeedsTypeOK, disk
<1>12. CASE UNCHANGED seed_vars
  BY <1>12, <1>t, <1>s DEF seed_vars, SeedsInv, SeedsTypeOK, disk, bus, volatile
<1> QED BY <1>1, <1>2, <1>3, <1>4, <1>5, <1>6, <1>7, <1>8, <1>9, <1>10, <1>11, <1>12 DEF SeedsNext

\* The types of InitialPose, with its one invariant.
THEOREM SeedsInvariant == SeedsSpec => []SeedsInv
<1> QED BY SeedsInitially, SeedsStep, PTL DEF SeedsSpec

\* No seed that _on_initial_pose or a reset put aside is lost, for every number of
\* maps, generations and seeds.
THEOREM NoSeedIsLost == SeedsSpec => []SeedsAreRecoverable
<1>1. SeedsInv => SeedsAreRecoverable
  BY DEF SeedsInv
<1> QED BY <1>1, SeedsInvariant, PTL

-----------------------------------------------------------------------------
(* DashboardFeed: what the page was told and what it asked for.            *)

\* FeedTypeOK, of the page only what is compared.
FeedTypes ==
  /\ topic \in Topics /\ started \in 1..MaxStarts
  /\ bridge \in {"starting", "connected", "down"}
  /\ paused \in BOOLEAN /\ failed \in BOOLEAN /\ loading \in BOOLEAN
  /\ seen_age \in 0..MaxAge /\ drift \in -MaxDrift..MaxDrift /\ sequence \in 0..MaxFrames
  /\ payload \in Frames \cup {NoFrame} /\ image \in Frames \cup {NoFrame}
  /\ page.frame \in Frames \cup {NoFrame}
  /\ asked \in {-1} \cup 1..MaxFrames /\ shown \in Frames \cup {NoFrame}

\* The page has asked for the picture its metadata speak of.
AskedOfPage == Pictured /\ page.frame # NoFrame => asked = page.frame.sequence

\* A picture that is not being replaced answers the last request.
ShownAsAsked == shown # NoFrame /\ ~loading => shown.sequence = asked

\* Topics without pictures have none.
OnlyPictures == ~Pictured => image = NoFrame /\ shown = NoFrame /\ ~loading

FeedInv == FeedTypes /\ AskedOfPage /\ ShownAsAsked /\ OnlyPictures

\* A process that has seen nothing, and a page that shows nothing.
LEMMA FeedInitially == FeedInit => FeedInv
<1> SUFFICES ASSUME FeedInit PROVE FeedInv
  OBVIOUS
<1> USE FeedAssumption
<1>0. 0 \in -MaxDrift..MaxDrift /\ 0 \in 0..MaxAge /\ 0 \in 0..MaxFrames /\ 1 \in 1..MaxStarts
  BY DEF MaxAge
<1>1. FeedTypes
  BY <1>0 DEF FeedInit, FeedTypes
<1>2. AskedOfPage /\ ShownAsAsked /\ OnlyPictures
  BY DEF FeedInit, AskedOfPage, ShownAsAsked, OnlyPictures
<1> QED BY <1>1, <1>2 DEF FeedInv

\* What observe leaves.
LEMMA ObservedFrame ==
  ASSUME FeedTypes, NEW source_age \in -MaxDrift..MaxDrift, ObserveTopic(source_age)
  PROVE  /\ seen_age' \in 0..MaxAge /\ drift' \in -MaxDrift..MaxDrift
         /\ sequence' \in 0..MaxFrames /\ failed' = FALSE /\ payload' \in Frames
<1> USE FeedAssumption
<1>1. sequence' \in 0..MaxFrames /\ sequence + 1 \in 1..MaxFrames
  BY DEF ObserveTopic, FeedTypes
<1>2. payload' \in Frames
  BY <1>1 DEF ObserveTopic, FeedTypes, Frame, Frames
<1> QED BY <1>1, <1>2 DEF ObserveTopic, MaxAge

\* What a message does to the entry, whatever its handler.
Told ==
  \/ \E source_age \in -MaxDrift..MaxDrift : ObserveOnly(source_age)
  \/ Pictured /\ StorePicture
  \/ NoteError

\* No message disturbs what the page was told.
LEMMA MessageKeeps ==
  ASSUME FeedInv, Told, UNCHANGED <<topic, started, bridge, browser>>, paused' \in BOOLEAN
  PROVE  FeedInv'
<1> USE FeedAssumption
<1>t. FeedTypes /\ AskedOfPage /\ ShownAsAsked /\ OnlyPictures
  BY DEF FeedInv
<1>0. 0 \in -MaxDrift..MaxDrift
  OBVIOUS
<1>1. /\ seen_age' \in 0..MaxAge /\ drift' \in -MaxDrift..MaxDrift
      /\ sequence' \in 0..MaxFrames /\ failed' \in BOOLEAN
      /\ payload' \in Frames \cup {NoFrame}
      /\ image' = image \/ (Pictured /\ image' = payload' /\ payload' \in Frames)
  <2>1. CASE \E source_age \in -MaxDrift..MaxDrift : ObserveOnly(source_age)
    <3>1. PICK source_age \in -MaxDrift..MaxDrift : ObserveOnly(source_age)
      BY <2>1
    <3>2. ObserveTopic(source_age) /\ image' = image
      BY <3>1 DEF ObserveOnly
    <3> QED BY <3>2, <1>t, ObservedFrame
  <2>2. CASE Pictured /\ StorePicture
    <3>1. ObserveTopic(0) /\ image' = payload'
      BY <2>2 DEF StorePicture
    <3> QED BY <3>1, <2>2, <1>0, <1>t, ObservedFrame
  <2>3. CASE NoteError
    BY <2>3, <1>t DEF NoteError, FeedTypes
  <2> QED BY <2>1, <2>2, <2>3 DEF Told
<1>2. FeedTypes'
  BY <1>1, <1>t DEF FeedTypes, browser
<1>3. AskedOfPage' /\ ShownAsAsked' /\ OnlyPictures'
  BY <1>1, <1>t DEF AskedOfPage, ShownAsAsked, OnlyPictures, browser, Pictured
<1> QED BY <1>2, <1>3 DEF FeedInv

\* Every step of the dashboard and of the page keeps the invariant.
LEMMA FeedStep == FeedInv /\ [FeedNext]_feed_vars => FeedInv'
<1> SUFFICES ASSUME FeedInv, [FeedNext]_feed_vars PROVE FeedInv'
  OBVIOUS
<1> USE FeedAssumption
<1>t. FeedTypes /\ AskedOfPage /\ ShownAsAsked /\ OnlyPictures
  BY DEF FeedInv
<1>0. 0 \in -MaxDrift..MaxDrift /\ 0 \in 0..MaxAge /\ 0 \in 0..MaxFrames
  BY DEF MaxAge
<1>1. CASE StartAnew
  <2>0. started' \in 1..MaxStarts
    BY <1>1, <1>t DEF StartAnew, FeedTypes
  <2>1. FeedTypes'
    BY <1>0, <1>1, <2>0, <1>t DEF StartAnew, FreshProcess, FeedTypes, browser
  <2> QED BY <1>1, <2>1, <1>t
       DEF StartAnew, FreshProcess, FeedInv, AskedOfPage, ShownAsAsked, OnlyPictures, browser,
           Pictured
<1>2. CASE BridgeConnects \/ BridgeEnds \/ PeriodEnds
  <2>1. UNCHANGED <<topic, started, health, payload, image, browser>>
        /\ bridge' \in {"starting", "connected", "down"} /\ paused' \in BOOLEAN
    BY <1>2, <1>t DEF BridgeConnects, BridgeEnds, PeriodEnds, FeedTypes
  <2> QED BY <2>1, <1>t
       DEF FeedInv, FeedTypes, AskedOfPage, ShownAsAsked, OnlyPictures, browser, health, Pictured
<1>3. CASE FeedAges
  <2>1. FeedTypes'
    BY <1>3, <1>t DEF FeedAges, FeedTypes, browser, MaxAge
  <2> QED BY <1>3, <2>1, <1>t
       DEF FeedAges, FeedInv, AskedOfPage, ShownAsAsked, OnlyPictures, browser, Pictured
<1>4. CASE OnPreview \/ OnLidar \/ OnCameraStatus \/ OnMap \/ OnMapPose \/ OnReport
  <2>1. Told
    BY <1>4, <1>0 DEF OnPreview, OnLidar, OnCameraStatus, OnMap, OnMapPose, OnReport, Told, Pictured
  <2>2. UNCHANGED <<topic, started, bridge, browser>> /\ paused' \in BOOLEAN
    BY <1>4, <1>t DEF OnPreview, OnLidar, OnCameraStatus, OnMap, OnMapPose, OnReport, FeedTypes
  <2> QED BY <2>1, <2>2, MessageKeeps
<1>5. CASE Refresh
  <2>1. page'.frame = payload /\ UNCHANGED <<topic, server>>
    BY <1>5 DEF Refresh, PageStatus
  <2>2. CASE Pictured /\ payload # NoFrame /\ payload.sequence # asked
    <3>1. asked' = payload.sequence /\ loading' = TRUE /\ shown' \in {NoFrame, shown}
      BY <1>5, <2>2 DEF Refresh
    <3>2. payload.sequence \in 1..MaxFrames
      BY <2>2, <1>t DEF FeedTypes, Frames
    <3> QED BY <2>1, <2>2, <3>1, <3>2, <1>t
         DEF FeedInv, FeedTypes, AskedOfPage, ShownAsAsked, OnlyPictures, server,
           health, Pictured
  <2>3. CASE ~(Pictured /\ payload # NoFrame /\ payload.sequence # asked)
    <3>1. UNCHANGED <<asked, loading, shown>>
      BY <1>5, <2>3 DEF Refresh
    <3> QED BY <2>1, <2>3, <3>1, <1>t
         DEF FeedInv, FeedTypes, AskedOfPage, ShownAsAsked, OnlyPictures, server,
           health, Pictured
  <2> QED BY <2>2, <2>3
<1>6. CASE Load
  <2>1. shown' = NoFrame \/ (shown' = image /\ image.sequence = asked)
    BY <1>6 DEF Load, Served
  <2> QED BY <1>6, <2>1, <1>t
       DEF Load, FeedInv, FeedTypes, AskedOfPage, ShownAsAsked, OnlyPictures, server,
           health, Pictured
<1>7. CASE UNCHANGED feed_vars
  BY <1>7, <1>t
  DEF feed_vars, FeedInv, FeedTypes, AskedOfPage, ShownAsAsked, OnlyPictures, server, health,
      browser, Pictured
<1> QED BY <1>1, <1>2, <1>3, <1>4, <1>5, <1>6, <1>7 DEF FeedNext

\* So it holds throughout.
LEMMA FeedInvariant == FeedSpec => []FeedInv
BY FeedInitially, FeedStep, PTL DEF FeedSpec

\* The 409 of the picture routes is enough: the picture beside the metadata is the
\* one they describe, for every number of messages and restarts.
THEOREM PictureAndMetadataAgree == FeedSpec => []PictureIsOfItsMetadata
<1>1. FeedInv => PictureIsOfItsMetadata
  <2> SUFFICES ASSUME FeedInv, shown # NoFrame, page.frame # NoFrame, ~loading,
                      shown.process = page.frame.process
               PROVE  shown = page.frame
    BY DEF PictureIsOfItsMetadata
  <2>1. shown \in Frames /\ page.frame \in Frames
    BY DEF FeedInv, FeedTypes
  <2>2. shown.sequence = page.frame.sequence
    BY DEF FeedInv, AskedOfPage, ShownAsAsked, OnlyPictures
  <2> QED BY <2>1, <2>2 DEF Frames
<1> QED BY <1>1, FeedInvariant, PTL

\* Only observe makes a topic fresh, step by step.
LEMMA FreshStep ==
  FeedInv /\ [FeedNext]_feed_vars =>
    [State # "fresh" /\ State' = "fresh" => sequence' = sequence + 1]_feed_vars
<1> SUFFICES ASSUME FeedInv, FeedNext, State # "fresh", State' = "fresh"
             PROVE  sequence' = sequence + 1
  OBVIOUS
<1> USE FeedAssumption
<1>t. FeedTypes
  BY DEF FeedInv
<1>1. CASE UNCHANGED <<topic, health>>
  BY <1>1 DEF health, State, Expires, FreshnessBound, Abs
<1>2. CASE StartAnew
  BY <1>2 DEF StartAnew, FreshProcess, State
<1>3. CASE FeedAges
  <2>1. seen_age \in Int /\ drift \in Int /\ seen_age' = seen_age + 1
        /\ UNCHANGED <<topic, drift, sequence, failed>> /\ sequence # 0
    BY <1>3, <1>t DEF FeedAges, FeedTypes
  <2>2. FreshnessBound' = FreshnessBound + 1 /\ FreshnessBound \in Int
    BY <2>1 DEF FreshnessBound, Abs
  <2>3. failed \in BOOLEAN
    BY <1>t DEF FeedTypes
  <2> QED BY <2>1, <2>2, <2>3 DEF State, Expires
<1>4. CASE OnPreview \/ OnLidar \/ OnCameraStatus \/ OnMap \/ OnMapPose \/ OnReport
  <2>1. sequence' = sequence + 1 \/ failed' = TRUE
    BY <1>4 DEF OnPreview, OnLidar, OnCameraStatus, OnMap, OnMapPose, OnReport, ObserveOnly,
       StorePicture, ObserveTopic, NoteError
  <2>2. ~failed'
    BY DEF State
  <2> QED BY <2>1, <2>2
<1> QED BY <1>1, <1>2, <1>3, <1>4
     DEF FeedNext, BridgeConnects, BridgeEnds, PeriodEnds, Refresh, Load, server

\* No passage of time makes a topic fresh again, whatever its stamp said
\* (source_freshness_bound).
THEOREM FreshnessIsEarned == FeedSpec => FreshIsEarned
BY FeedInvariant, FreshStep, PTL DEF FeedSpec, FreshIsEarned

-----------------------------------------------------------------------------
(* D435iStream: what a sound packet on the way must be.                    *)

\* A packet of a set that was written.
Genuine_packet(p) ==
  p.number \in 0..(Len(captured) - 1) /\ p.frame = captured[p.number + 1]

\* What may be on the way: of the sound packets only genuine ones.
OnWire == {p \in FramePackets : PacketIsSound(p) => Genuine_packet(p)}

\* The producer numbers the sets it has written.
ProducerInv ==
  /\ DOMAIN producer = {"at", "camera", "stop", "frame_index", "sequence"}
  /\ producer.frame_index \in Nat /\ producer.sequence = Len(captured)
  /\ captured \in Seq(Nat)

\* Every packet on the way is one of those.
WireInv ==
  /\ DOMAIN wire = {"packets", "writer", "reader", "faults"}
  /\ wire.packets \in Seq(OnWire)

\* The publisher holds the set it is due to publish.
PublisherInv ==
  /\ DOMAIN publisher = {"at", "stop", "expected", "previous", "packet"}
  /\ publisher.at \in {"read", "info", "rgb", "depth", "ended", "failed"}
  /\ publisher.expected \in 0..Len(captured)
  /\ publisher.at \in SensorTopics =>
       publisher.expected < Len(captured)
         /\ publisher.packet = CapturedSet(publisher.expected + 1)

\* The inductive invariant.
StreamInv ==
  /\ ProducerInv /\ WireInv /\ PublisherInv
  /\ DOMAIN topics = SensorTopics /\ FramesAreWhole

\* What is done to the byte stream adds no member to it but the one named.
LEMMA SeqMembers ==
  ASSUME NEW S, NEW s \in Seq(S)
  PROVE  /\ \A e \in S : Append(s, e) \in Seq(S)
         /\ s # <<>> => Head(s) \in S /\ Tail(s) \in Seq(S)
         /\ \A i \in DOMAIN s : s[i] \in S
         /\ \A i \in DOMAIN s, e \in S : ReplaceAt(s, i, e) \in Seq(S)
         /\ \A i \in DOMAIN s : RemoveAt(s, i) \in Seq(S)
         /\ \A i \in DOMAIN s, e \in S : InsertAt(s, i, e) \in Seq(S)
<1>1. \A e \in S : Append(s, e) \in Seq(S)
  OBVIOUS
<1>2. s # <<>> => Head(s) \in S /\ Tail(s) \in Seq(S)
  OBVIOUS
<1>3. \A i \in DOMAIN s : s[i] \in S
  OBVIOUS
<1>4. \A i \in DOMAIN s, e \in S : ReplaceAt(s, i, e) \in Seq(S)
  BY DEF ReplaceAt
<1>5. ASSUME NEW i \in DOMAIN s
      PROVE  SubSeq(s, 1, i - 1) \in Seq(S) /\ SubSeq(s, i, Len(s)) \in Seq(S)
             /\ SubSeq(s, i + 1, Len(s)) \in Seq(S)
  OBVIOUS
<1>6. \A i \in DOMAIN s : RemoveAt(s, i) \in Seq(S)
  BY <1>5 DEF RemoveAt
<1>7. \A i \in DOMAIN s, e \in S : InsertAt(s, i, e) \in Seq(S)
  BY <1>5 DEF InsertAt
<1> QED BY <1>1, <1>2, <1>3, <1>4, <1>6, <1>7

\* Nothing was captured yet.
LEMMA StreamInitially == StreamInit => StreamInv
<1> SUFFICES ASSUME StreamInit PROVE StreamInv
  OBVIOUS
<1>1. ProducerInv
  BY DEF StreamInit, ProducerInv
<1>2. WireInv
  BY DEF StreamInit, WireInv
<1>3. PublisherInv
  BY DEF StreamInit, PublisherInv, SensorTopics
<1>4. DOMAIN topics = SensorTopics /\ FramesAreWhole
  BY DEF StreamInit, FramesAreWhole, SetsOn, CapturedSet, SensorTopics
<1> QED BY <1>1, <1>2, <1>3, <1>4 DEF StreamInv

\* What was captured stays so: a further set changes none of the earlier ones.
LEMMA CapturedStays ==
  ASSUME captured \in Seq(Nat), NEW f \in Nat, captured' = Append(captured, f)
  PROVE  /\ Len(captured') = Len(captured) + 1 /\ captured' \in Seq(Nat)
         /\ \A n \in 0..Len(captured) : CapturedSet(n)' = CapturedSet(n)
         /\ captured'[Len(captured) + 1] = f
         /\ OnWire \subseteq OnWire'
<1>1. /\ Len(captured') = Len(captured) + 1 /\ captured' \in Seq(Nat)
      /\ captured'[Len(captured) + 1] = f
      /\ \A n \in 1..Len(captured) : captured'[n] = captured[n]
  OBVIOUS
<1>2. ASSUME NEW n \in 0..Len(captured) PROVE CapturedSet(n)' = CapturedSet(n)
  <2>1. CASE n = 0
    BY <2>1 DEF CapturedSet
  <2>2. CASE n # 0
    <3>1. captured'[n] = captured[n]
      BY <1>1, <2>2
    <3> QED BY <2>2, <3>1 DEF CapturedSet
  <2> QED BY <2>1, <2>2
<1>3. OnWire \subseteq OnWire'
  BY <1>1 DEF OnWire, Genuine_packet
<1> QED BY <1>1, <1>2, <1>3

\* Where the producer and the wire move and nothing new was written.
LEMMA WireMoves ==
  ASSUME StreamInv, UNCHANGED <<publisher, topics, captured>>,
         DOMAIN producer' = DOMAIN producer,
         producer'.frame_index \in Nat, producer'.sequence = producer.sequence,
         DOMAIN wire' = DOMAIN wire, wire'.packets \in Seq(OnWire)
  PROVE  StreamInv'
<1>1. ProducerInv' /\ PublisherInv'
  BY DEF StreamInv, ProducerInv, PublisherInv, CapturedSet
<1>2. OnWire' = OnWire
  BY DEF OnWire, Genuine_packet
<1>3. WireInv'
  BY <1>2 DEF StreamInv, WireInv
<1>4. (DOMAIN topics = SensorTopics /\ FramesAreWhole)'
  BY DEF StreamInv, FramesAreWhole, SetsOn, CapturedSet
<1> QED BY <1>1, <1>3, <1>4 DEF StreamInv

\* Where only the publisher moves and no topic carries anything new.
LEMMA PublisherMoves ==
  ASSUME StreamInv, UNCHANGED <<producer, topics, captured>>,
         DOMAIN wire' = DOMAIN wire, wire'.packets \in Seq(OnWire),
         DOMAIN publisher' = DOMAIN publisher,
         publisher'.expected = publisher.expected,
         publisher.at \in {"read", "info"}, publisher'.at \in {"read", "info", "ended", "failed"},
         publisher'.at = "info" =>
           publisher.expected < Len(captured)
             /\ publisher'.packet = CapturedSet(publisher.expected + 1)
  PROVE  StreamInv'
<1>1. ProducerInv'
  BY DEF StreamInv, ProducerInv
<1>2. OnWire' = OnWire
  BY DEF OnWire, Genuine_packet
<1>3. WireInv'
  BY <1>2 DEF StreamInv, WireInv
<1>4. PublisherInv'
  BY DEF StreamInv, PublisherInv, CapturedSet, SensorTopics
<1>5. (DOMAIN topics = SensorTopics /\ FramesAreWhole)'
  BY DEF StreamInv, FramesAreWhole, SetsOn, CapturedSet
<1> QED BY <1>1, <1>3, <1>4, <1>5 DEF StreamInv

\* Every step of the two processes and of the way between them keeps it.
LEMMA StreamStep == StreamInv /\ [StreamNext]_stream_vars => StreamInv'
<1> SUFFICES ASSUME StreamInv, [StreamNext]_stream_vars PROVE StreamInv'
  OBVIOUS
<1> USE StreamAssumption
<1>t. ProducerInv /\ WireInv /\ PublisherInv /\ DOMAIN topics = SensorTopics /\ FramesAreWhole
  BY DEF StreamInv
<1>p. /\ DOMAIN producer = {"at", "camera", "stop", "frame_index", "sequence"}
      /\ producer.frame_index \in Nat /\ producer.sequence = Len(captured)
      /\ captured \in Seq(Nat) /\ Len(captured) \in Nat
  BY <1>t DEF ProducerInv
<1>w. DOMAIN wire = {"packets", "writer", "reader", "faults"} /\ wire.packets \in Seq(OnWire)
  BY <1>t DEF WireInv
<1>q. /\ DOMAIN publisher = {"at", "stop", "expected", "previous", "packet"}
      /\ publisher.expected \in 0..Len(captured)
  BY <1>t DEF PublisherInv
<1>1. CASE StartCamera \/ ProducerStops
  <2>1. /\ DOMAIN producer' = DOMAIN producer /\ producer'.frame_index = producer.frame_index
        /\ producer'.sequence = producer.sequence
        /\ DOMAIN wire' = DOMAIN wire /\ wire'.packets = wire.packets
        /\ UNCHANGED <<publisher, topics, captured>>
    BY <1>1, <1>p, <1>w DEF StartCamera, ProducerStops, ProducerEnds
  <2> QED BY <2>1, <1>p, <1>w, WireMoves
<1>2. CASE CaptureFrame
  <2>1. /\ DOMAIN producer' = DOMAIN producer /\ producer'.sequence = producer.sequence
        /\ producer'.frame_index \in {producer.frame_index, producer.frame_index + 1}
        /\ DOMAIN wire' = DOMAIN wire /\ wire'.packets = wire.packets
        /\ UNCHANGED <<publisher, topics, captured>>
    BY <1>2, <1>p, <1>w DEF CaptureFrame, ProducerEnds
  <2> QED BY <2>1, <1>p, <1>w, WireMoves
<1>3. CASE WritePacket
  <2>1. CASE wire.reader
    <3>1. /\ wire' = [wire EXCEPT !.packets = Append(@, encode_packet)]
          /\ producer' = [producer EXCEPT !.at = "capture", !.sequence = @ + 1]
          /\ captured' = Append(captured, producer.frame_index)
          /\ UNCHANGED <<publisher, topics>>
      BY <1>3, <2>1 DEF WritePacket
    <3>2. /\ Len(captured') = Len(captured) + 1 /\ captured' \in Seq(Nat)
          /\ \A n \in 0..Len(captured) : CapturedSet(n)' = CapturedSet(n)
          /\ captured'[Len(captured) + 1] = producer.frame_index
          /\ OnWire \subseteq OnWire'
      BY <3>1, <1>p, CapturedStays
    <3>3. ProducerInv'
      BY <3>1, <3>2, <1>p DEF ProducerInv
    <3>4. encode_packet \in FramePackets /\ encode_packet.number = Len(captured)
          /\ encode_packet.frame = producer.frame_index
      BY <1>p DEF encode_packet, FramePackets
    <3>5. encode_packet \in OnWire'
      BY <3>2, <3>4, <1>p DEF OnWire, Genuine_packet
    <3>6. wire.packets \in Seq(OnWire')
      BY <3>2, <1>w
    <3>7. WireInv'
      <4>1. wire'.packets = Append(wire.packets, encode_packet) /\ DOMAIN wire' = DOMAIN wire
        BY <3>1, <1>w
      <4>2. wire'.packets \in Seq(OnWire')
        BY <4>1, <3>5, <3>6, SeqMembers
      <4> QED BY <4>1, <4>2, <1>w DEF WireInv
    <3>8. PublisherInv'
      <4>1. publisher.at \in SensorTopics => publisher.expected + 1 \in 0..Len(captured)
        BY <1>t, <1>p DEF PublisherInv
      <4> QED BY <3>1, <3>2, <4>1, <1>t, <1>p DEF PublisherInv
    <3>9. FramesAreWhole'
      <4> SUFFICES ASSUME NEW t \in SensorTopics
                   PROVE  SetsOn(t)' <= Len(captured') /\ topics'[t] = CapturedSet(SetsOn(t))'
        BY DEF FramesAreWhole
      <4>1. SetsOn(t)' = SetsOn(t) /\ topics'[t] = topics[t]
        BY <3>1 DEF SetsOn
      <4>2. SetsOn(t) \in 0..Len(captured) /\ topics[t] = CapturedSet(SetsOn(t))
        BY <1>t, <1>p, <1>q DEF FramesAreWhole, SetsOn
      <4>3. CapturedSet(SetsOn(t))' = CapturedSet(SetsOn(t))
        BY <4>1, <4>2, <3>2 DEF CapturedSet
      <4> QED BY <4>1, <4>2, <4>3, <3>2, <1>p
    <3> QED BY <3>1, <3>3, <3>7, <3>8, <3>9, <1>t DEF StreamInv
  <2>2. CASE ~wire.reader
    <3>1. /\ DOMAIN producer' = DOMAIN producer /\ producer'.sequence = producer.sequence
          /\ producer'.frame_index = producer.frame_index
          /\ DOMAIN wire' = DOMAIN wire /\ wire'.packets = wire.packets
          /\ UNCHANGED <<publisher, topics, captured>>
      BY <1>3, <2>2, <1>p, <1>w DEF WritePacket, ProducerEnds
    <3> QED BY <3>1, <1>p, <1>w, WireMoves
  <2> QED BY <2>1, <2>2
<1>4. CASE WriteIsCut
  <2> DEFINE cut == [encode_packet EXCEPT !.damage = {"tail"}]
  <2>1. cut \in OnWire
    BY <1>p DEF encode_packet, FramePackets, OnWire, PacketIsSound, Parts_of_packet
  <2>2. Append(wire.packets, cut) \in Seq(OnWire)
    BY <2>1, <1>w, SeqMembers
  <2>3. /\ DOMAIN producer' = DOMAIN producer /\ producer'.sequence = producer.sequence
        /\ producer'.frame_index = producer.frame_index
        /\ DOMAIN wire' = DOMAIN wire /\ wire'.packets = Append(wire.packets, cut)
        /\ UNCHANGED <<publisher, topics, captured>>
    BY <1>4, <1>p, <1>w DEF WriteIsCut, ProducerEnds
  <2> QED BY <2>2, <2>3, <1>p, WireMoves
<1>5. CASE StopProducer
  <2>1. /\ DOMAIN producer' = DOMAIN producer /\ producer'.sequence = producer.sequence
        /\ producer'.frame_index = producer.frame_index
        /\ UNCHANGED <<wire, publisher, topics, captured>>
    BY <1>5, <1>p DEF StopProducer
  <2> QED BY <2>1, <1>p, <1>w, WireMoves
<1>6. CASE Disturb
  <2>1. UNCHANGED <<producer, publisher, topics, captured>>
    BY <1>6 DEF Disturb
  <2>2. PICK i \in DOMAIN wire.packets :
          \/ \E part \in Parts_of_packet \ {"tail"} :
               wire' = [wire EXCEPT !.packets = ReplaceAt(@, i, Damaged(@[i], part)),
                                    !.faults = @ + 1]
          \/ wire' = [wire EXCEPT !.packets = RemoveAt(@, i), !.faults = @ + 1]
          \/ wire' = [wire EXCEPT !.packets = InsertAt(@, i, @[i]), !.faults = @ + 1]
    BY <1>6 DEF Disturb
  <2>3. wire.packets[i] \in OnWire
    BY <1>w, SeqMembers
  <2>4. ASSUME NEW part \in Parts_of_packet PROVE Damaged(wire.packets[i], part) \in OnWire
    BY <2>3, <2>4 DEF OnWire, FramePackets, Damaged, PacketIsSound
  <2>5. DOMAIN wire' = DOMAIN wire /\ wire'.packets \in Seq(OnWire)
    <3>1. CASE \E part \in Parts_of_packet \ {"tail"} :
                 wire' = [wire EXCEPT !.packets = ReplaceAt(@, i, Damaged(@[i], part)),
                                      !.faults = @ + 1]
      <4>1. PICK part \in Parts_of_packet :
              wire' = [wire EXCEPT !.packets = ReplaceAt(@, i, Damaged(@[i], part)),
                                   !.faults = @ + 1]
        BY <3>1
      <4>2. wire'.packets = ReplaceAt(wire.packets, i, Damaged(wire.packets[i], part))
            /\ DOMAIN wire' = DOMAIN wire
        BY <4>1, <1>w
      <4> QED BY <4>2, <2>4, <1>w, SeqMembers
    <3>2. CASE wire' = [wire EXCEPT !.packets = RemoveAt(@, i), !.faults = @ + 1]
      <4>1. wire'.packets = RemoveAt(wire.packets, i) /\ DOMAIN wire' = DOMAIN wire
        BY <3>2, <1>w
      <4> QED BY <4>1, <1>w, SeqMembers
    <3>3. CASE wire' = [wire EXCEPT !.packets = InsertAt(@, i, @[i]), !.faults = @ + 1]
      <4>1. wire'.packets = InsertAt(wire.packets, i, wire.packets[i])
            /\ DOMAIN wire' = DOMAIN wire
        BY <3>3, <1>w
      <4> QED BY <4>1, <2>3, <1>w, SeqMembers
    <3> QED BY <2>2, <3>1, <3>2, <3>3
  <2> QED BY <2>1, <2>5, <1>p, WireMoves
<1>7. CASE ReadPacket
  <2>1. publisher.at = "read" /\ wire.packets # <<>> /\ UNCHANGED <<producer, topics, captured>>
    BY <1>7 DEF ReadPacket
  <2>2. Head(wire.packets) \in OnWire /\ Tail(wire.packets) \in Seq(OnWire)
    BY <2>1, <1>w, SeqMembers
  <2>3. CASE PublisherEnds("failed", Tail(wire.packets))
    <3>1. /\ DOMAIN wire' = DOMAIN wire /\ wire'.packets = Tail(wire.packets)
          /\ DOMAIN publisher' = DOMAIN publisher
          /\ publisher'.expected = publisher.expected /\ publisher'.at = "failed"
      BY <2>3, <1>w, <1>q DEF PublisherEnds
    <3> QED BY <2>1, <2>2, <3>1, PublisherMoves
  <2>4. CASE ~PublisherEnds("failed", Tail(wire.packets))
    <3> DEFINE packet == Head(wire.packets)
    <3>1. PacketIsSound(packet) /\ packet.number = publisher.expected
          /\ publisher' = [publisher EXCEPT !.at = "info", !.packet = packet]
          /\ wire' = [wire EXCEPT !.packets = Tail(@)]
      BY <1>7, <2>4 DEF ReadPacket, validate_header
    <3>2. packet \in FramePackets /\ packet.damage = {}
          /\ packet.number \in 0..(Len(captured) - 1)
          /\ packet.frame = captured[packet.number + 1]
      BY <2>2, <3>1 DEF OnWire, PacketIsSound, Genuine_packet
    <3>3. packet = CapturedSet(publisher.expected + 1) /\ publisher.expected < Len(captured)
      <4>1. publisher.expected \in Nat /\ publisher.expected + 1 # 0
            /\ (publisher.expected + 1) - 1 = publisher.expected
        BY <1>p, <1>q
      <4>2. CapturedSet(publisher.expected + 1)
              = [number |-> publisher.expected, frame |-> captured[publisher.expected + 1],
                 damage |-> {}]
        BY <4>1 DEF CapturedSet
      <4>3. packet = [number |-> publisher.expected, frame |-> captured[publisher.expected + 1],
                      damage |-> {}]
        BY <3>1, <3>2 DEF FramePackets
      <4>4. publisher.expected < Len(captured)
        BY <3>1, <3>2, <1>p, <4>1
      <4> QED BY <4>2, <4>3, <4>4
    <3>4. /\ DOMAIN wire' = DOMAIN wire /\ wire'.packets = Tail(wire.packets)
          /\ DOMAIN publisher' = DOMAIN publisher /\ publisher'.packet = packet
          /\ publisher'.expected = publisher.expected /\ publisher'.at = "info"
      BY <3>1, <1>w, <1>q
    <3> HIDE DEF packet
    <3> QED BY <2>1, <2>2, <3>3, <3>4, PublisherMoves
  <2> QED BY <2>3, <2>4
<1>8. CASE ReadEnd \/ PublisherStops
  <2>1. /\ DOMAIN wire' = DOMAIN wire /\ wire'.packets = wire.packets
        /\ DOMAIN publisher' = DOMAIN publisher
        /\ publisher'.expected = publisher.expected /\ publisher'.at \in {"ended", "failed"}
        /\ publisher.at \in {"read", "info"} /\ UNCHANGED <<producer, topics, captured>>
    BY <1>8, <1>w, <1>q DEF ReadEnd, PublisherStops, PublisherEnds
  <2> QED BY <2>1, <1>w, PublisherMoves
<1>9. CASE PublishInfo \/ PublishRgb
  <2>1. PICK on \in {"info", "rgb"} : PublishOn(on, IF on = "info" THEN "rgb" ELSE "depth")
    BY <1>9 DEF PublishInfo, PublishRgb
  <2>2. /\ publisher.at = on /\ publisher'.at = (IF on = "info" THEN "rgb" ELSE "depth")
        /\ topics' = [topics EXCEPT ![on] = publisher.packet]
        /\ publisher'.expected = publisher.expected /\ publisher'.packet = publisher.packet
        /\ DOMAIN publisher' = DOMAIN publisher
        /\ UNCHANGED <<producer, wire, captured>>
    BY <2>1, <1>q DEF PublishOn
  <2>3. publisher.expected < Len(captured)
        /\ publisher.packet = CapturedSet(publisher.expected + 1)
    BY <2>2, <1>t DEF PublisherInv, SensorTopics
  <2>4. ProducerInv' /\ WireInv'
    BY <2>2, <1>t DEF ProducerInv, WireInv, OnWire, Genuine_packet
  <2>5. PublisherInv'
    BY <2>2, <2>3, <1>t DEF PublisherInv, CapturedSet
  <2>6. FramesAreWhole'
    <3> SUFFICES ASSUME NEW t \in SensorTopics
                 PROVE  SetsOn(t)' <= Len(captured') /\ topics'[t] = CapturedSet(SetsOn(t))'
      BY DEF FramesAreWhole
    <3>1. SetsOn(t) <= Len(captured) /\ topics[t] = CapturedSet(SetsOn(t))
      BY <1>t DEF FramesAreWhole
    <3>2. CASE t = on
      <4>1. SetsOn(t)' = publisher.expected + 1
        BY <2>2, <3>2 DEF SetsOn
      <4>2. topics'[t] = publisher.packet
        BY <2>2, <3>2, <1>t
      <4> QED BY <4>1, <4>2, <2>2, <2>3, <1>p, <1>q DEF CapturedSet
    <3>3. CASE t # on
      <4>1. SetsOn(t)' = SetsOn(t)
        BY <2>2, <3>3 DEF SetsOn, SensorTopics
      <4>2. topics'[t] = topics[t]
        BY <2>2, <3>3, <1>t
      <4> QED BY <4>1, <4>2, <2>2, <3>1 DEF CapturedSet
    <3> QED BY <3>2, <3>3
  <2> QED BY <2>2, <2>4, <2>5, <2>6, <1>t DEF StreamInv
<1>10. CASE PublishDepth
  <2>2. /\ publisher.at = "depth" /\ publisher'.at = "read"
        /\ topics' = [topics EXCEPT !["depth"] = publisher.packet]
        /\ publisher'.expected = publisher.expected + 1
        /\ DOMAIN publisher' = DOMAIN publisher
        /\ UNCHANGED <<producer, wire, captured>>
    BY <1>10, <1>q DEF PublishDepth
  <2>3. publisher.expected < Len(captured)
        /\ publisher.packet = CapturedSet(publisher.expected + 1)
    BY <2>2, <1>t DEF PublisherInv, SensorTopics
  <2>4. ProducerInv' /\ WireInv'
    BY <2>2, <1>t DEF ProducerInv, WireInv, OnWire, Genuine_packet
  <2>5. PublisherInv'
    BY <2>2, <2>3, <1>p, <1>t DEF PublisherInv, SensorTopics
  <2>6. FramesAreWhole'
    <3> SUFFICES ASSUME NEW t \in SensorTopics
                 PROVE  SetsOn(t)' <= Len(captured') /\ topics'[t] = CapturedSet(SetsOn(t))'
      BY DEF FramesAreWhole
    <3>1. SetsOn(t)' = publisher.expected + 1
      BY <2>2, <1>p, <1>q DEF SetsOn
    <3>2. topics'[t] = CapturedSet(publisher.expected + 1)
      <4>1. CASE t = "depth"
        BY <4>1, <2>2, <2>3, <1>t
      <4>2. CASE t # "depth"
        <5>1. SetsOn(t) = publisher.expected + 1
          BY <4>2, <2>2 DEF SetsOn, SensorTopics
        <5> QED BY <4>2, <5>1, <2>2, <1>t DEF FramesAreWhole
      <4> QED BY <4>1, <4>2
    <3> QED BY <3>1, <3>2, <2>2, <2>3, <1>p, <1>q DEF CapturedSet
  <2> QED BY <2>2, <2>4, <2>5, <2>6, <1>t DEF StreamInv
<1>11. CASE StopPublisher
  <2>1. /\ publisher'.at = publisher.at /\ publisher'.expected = publisher.expected
        /\ publisher'.packet = publisher.packet /\ DOMAIN publisher' = DOMAIN publisher
        /\ UNCHANGED <<producer, wire, topics, captured>>
    BY <1>11, <1>q DEF StopPublisher
  <2>2. ProducerInv' /\ WireInv'
    BY <2>1, <1>t DEF ProducerInv, WireInv, OnWire, Genuine_packet
  <2>3. PublisherInv' /\ FramesAreWhole'
    BY <2>1, <1>t DEF PublisherInv, FramesAreWhole, SetsOn, CapturedSet
  <2> QED BY <2>1, <2>2, <2>3, <1>t DEF StreamInv
<1>12. CASE UNCHANGED stream_vars
  BY <1>12, <1>t DEF stream_vars, StreamInv, ProducerInv, WireInv, PublisherInv, FramesAreWhole,
     SetsOn, CapturedSet, OnWire, Genuine_packet
<1> QED BY <1>1, <1>2, <1>3, <1>4, <1>5, <1>6, <1>7, <1>8, <1>9, <1>10, <1>11, <1>12
     DEF StreamNext, StreamOver

\* Whatever is damaged, lost or repeated on the way, the topics carry whole sets, in
\* the order of capture, for every depth of the pipe and number of faults.
THEOREM PublishedFramesAreWhole == StreamSpec => []FramesAreWhole
<1>1. StreamInv => FramesAreWhole
  BY DEF StreamInv
<1> QED BY <1>1, StreamInitially, StreamStep, PTL DEF StreamSpec

-----------------------------------------------------------------------------
(* StagedReadiness: what a sample proves of the world.                     *)

\* The fields of a sample.
SampleFields == {"good", "stamp", "received"}

\* What a set of samples proves of the world, as seen tells it.
Proven(samples, s) ==
  /\ DOMAIN samples = Keys
  /\ \A key \in Keys : DOMAIN samples[key] = SampleFields /\ samples[key].stamp \in Age(StampLimit)
  /\ \A st \in Streams :
       samples[st].good /\ samples[st].stamp <= SourceFresh =>
         samples[st].stamp # NoStamp /\ s.good[st] <= samples[st].stamp
  /\ samples["chassis"].good => s.disarmed

\* What is valid now was seen valid now.
SeenInv ==
  /\ DOMAIN seen = {"good", "disarmed"} /\ seen.good \in [Streams -> Nat]
  /\ \A st \in Streams : world.streams[st] => seen.good[st] = 0
  /\ world.disarmed => seen.disarmed

\* The fields of the records.
WorldShape ==
  /\ DOMAIN world = {"streams", "disarmed", "goal", "servers", "guard", "changes"}
  /\ DOMAIN collector = {"at", "phase", "listened", "samples", "servers", "guard"}
  /\ DOMAIN receipt = {"passed", "phase", "age"}

\* What a passing receipt still proves, by its age.
ReceiptInv ==
  receipt.passed =>
    /\ seen.disarmed
    /\ receipt.age \in 0..(ReceiptLife + 1)
    /\ receipt.age <= ReceiptLife =>
         \A st \in Streams : seen.good[st] <= SourceFresh + receipt.age

\* The inductive invariant.
ReadyInv ==
  WorldShape /\ SeenInv /\ ReceiptInv
  /\ Proven(queues, seen) /\ Proven(collector.samples, seen)

\* No samples prove nothing.
LEMMA NothingProves == \A s : Proven(NoSamples, s)
<1> TAKE s
<1>1. ~NoSample.good /\ NoSample.stamp = NoStamp /\ DOMAIN NoSample = SampleFields
  BY DEF NoSample, SampleFields
<1>2. \A key \in Keys : NoSamples[key] = NoSample
  BY DEF NoSamples
<1>3. DOMAIN NoSamples = Keys
  BY DEF NoSamples
<1>4. NoStamp \in Age(StampLimit)
  BY DEF Age
<1>5. Streams \subseteq Keys /\ "chassis" \in Keys
  BY DEF Keys
<1> QED BY <1>1, <1>2, <1>3, <1>4, <1>5 DEF Proven

\* What was proven stays so while the world gets no older.
LEMMA ProvenLater ==
  ASSUME NEW samples, NEW s1, NEW s2, Proven(samples, s1),
         s1.good \in [Streams -> Nat], s2.good \in [Streams -> Nat],
         \A st \in Streams : s2.good[st] <= s1.good[st],
         s1.disarmed => s2.disarmed
  PROVE  Proven(samples, s2)
<1> USE ReadinessAssumption
<1>1. Streams \subseteq Keys
  BY DEF Keys
<1>2. ASSUME NEW st \in Streams, samples[st].good, samples[st].stamp <= SourceFresh
      PROVE  samples[st].stamp # NoStamp /\ s2.good[st] <= samples[st].stamp
  <2>1. samples[st].stamp \in Int
    BY <1>1 DEF Proven, Age, NoStamp, StampLimit
  <2>2. s1.good[st] <= samples[st].stamp /\ samples[st].stamp # NoStamp
    BY <1>2 DEF Proven
  <2> QED BY <2>1, <2>2
<1> QED BY <1>2 DEF Proven

\* One sample more.
LEMMA OnePut ==
  ASSUME NEW samples, NEW s, Proven(samples, s), NEW key \in Keys, NEW x,
         DOMAIN x = SampleFields, x.stamp \in Age(StampLimit),
         key \in Streams => (x.good /\ x.stamp <= SourceFresh =>
                               x.stamp # NoStamp /\ s.good[key] <= x.stamp),
         key = "chassis" => (x.good => s.disarmed)
  PROVE  Proven([samples EXCEPT ![key] = x], s)
<1>1. Streams \subseteq Keys /\ "chassis" \in Keys
  BY DEF Keys
<1> DEFINE new == [samples EXCEPT ![key] = x]
<1>2. DOMAIN new = Keys /\ new[key] = x /\ \A k \in Keys : k # key => new[k] = samples[k]
  BY DEF Proven
<1> HIDE DEF new
<1>3. \A k \in Keys : DOMAIN new[k] = SampleFields /\ new[k].stamp \in Age(StampLimit)
  BY <1>2 DEF Proven
<1>4. ASSUME NEW st \in Streams, new[st].good, new[st].stamp <= SourceFresh
      PROVE  new[st].stamp # NoStamp /\ s.good[st] <= new[st].stamp
  BY <1>1, <1>2, <1>4 DEF Proven
<1>5. new["chassis"].good => s.disarmed
  BY <1>1, <1>2 DEF Proven
<1>6. Proven(new, s)
  BY <1>2, <1>3, <1>4, <1>5 DEF Proven
<1> QED BY <1>6 DEF new

\* Ages.
LEMMA OlderAges ==
  ASSUME NEW limit \in Nat, NEW age \in Age(limit)
  PROVE  /\ Older(age, limit) \in Age(limit)
         /\ age # NoStamp => Older(age, limit) # NoStamp /\ Older(age, limit) <= age + 1
         /\ Older(age, limit) < limit /\ Older(age, limit) # NoStamp =>
              age # NoStamp /\ Older(age, limit) = age + 1
         /\ age = NoStamp => Older(age, limit) = NoStamp
BY DEF Older, Age, NoStamp

\* Time makes samples and memory older together.
LEMMA AgedProves ==
  ASSUME NEW samples, NEW s1, NEW s2, Proven(samples, s1),
         s1.good \in [Streams -> Nat], s2.good \in [Streams -> Nat],
         \A st \in Streams : s2.good[st] <= s1.good[st] + 1,
         s1.disarmed => s2.disarmed
  PROVE  Proven(AgedSamples(samples), s2)
<1> USE ReadinessAssumption
<1>1. Streams \subseteq Keys /\ "chassis" \in Keys /\ StampLimit \in Nat
  BY DEF Keys, StampLimit
<1> DEFINE new == AgedSamples(samples)
<1>2. DOMAIN new = Keys
  BY DEF AgedSamples
<1>3. ASSUME NEW k \in Keys
      PROVE  /\ DOMAIN new[k] = SampleFields /\ new[k].good = samples[k].good
             /\ new[k].stamp = IF k \in Streams THEN Older(samples[k].stamp, StampLimit)
                               ELSE samples[k].stamp
  BY <1>3 DEF AgedSamples, Proven, SampleFields
<1> HIDE DEF new
<1>4. \A k \in Keys : new[k].stamp \in Age(StampLimit)
  BY <1>1, <1>3, OlderAges DEF Proven
<1>5. ASSUME NEW st \in Streams, new[st].good, new[st].stamp <= SourceFresh
      PROVE  new[st].stamp # NoStamp /\ s2.good[st] <= new[st].stamp
  <2>1. new[st].stamp = Older(samples[st].stamp, StampLimit) /\ samples[st].good
        /\ samples[st].stamp \in Age(StampLimit)
    BY <1>1, <1>3, <1>5 DEF Proven
  <2>2. CASE samples[st].stamp = NoStamp
    <3>1. samples[st].stamp <= SourceFresh
      BY <2>2 DEF NoStamp
    <3> QED BY <2>1, <2>2, <3>1 DEF Proven
  <2>3. CASE samples[st].stamp # NoStamp
    <3>1. new[st].stamp = samples[st].stamp + 1 /\ samples[st].stamp \in Nat
      BY <1>5, <2>1, <2>3 DEF Older, Age, NoStamp, StampLimit
    <3>2. s1.good[st] <= samples[st].stamp
      BY <1>5, <2>1, <3>1 DEF Proven
    <3>3. s2.good[st] \in Nat /\ s1.good[st] \in Nat /\ s2.good[st] <= s1.good[st] + 1
      OBVIOUS
    <3> QED BY <3>1, <3>2, <3>3 DEF NoStamp
  <2> QED BY <2>2, <2>3
<1>6. new["chassis"].good => s2.disarmed
  BY <1>1, <1>3 DEF Proven
<1>7. Proven(new, s2)
  BY <1>2, <1>3, <1>4, <1>5, <1>6 DEF Proven
<1> QED BY <1>7 DEF new

\* At first all is well and nothing was heard.
LEMMA ReadyInitially == ReadyInit => ReadyInv
<1> SUFFICES ASSUME ReadyInit PROVE ReadyInv
  OBVIOUS
<1>1. WorldShape
  BY DEF ReadyInit, WorldShape, NoReceipt
<1>2. SeenInv
  <2>1. DOMAIN seen = {"good", "disarmed"} /\ seen.good = [st \in Streams |-> 0]
    BY DEF ReadyInit
  <2>2. seen.disarmed
    BY Zenon DEF ReadyInit
  <2> QED BY <2>1, <2>2 DEF SeenInv
<1>3. ReceiptInv
  <2>1. ~receipt.passed
    BY DEF ReadyInit, NoReceipt
  <2> QED BY <2>1 DEF ReceiptInv
<1>4. queues = NoSamples /\ collector.samples = NoSamples
  BY DEF ReadyInit
<1> QED BY <1>1, <1>2, <1>3, <1>4, NothingProves DEF ReadyInv

\* What a change of the world does to what is remembered of it.
LEMMA WorldChanges ==
  ASSUME ReadyInv, NEW w, DOMAIN w = DOMAIN world, Becomes(w)
  PROVE  /\ WorldShape' /\ SeenInv' /\ ReceiptInv'
         /\ collector' = collector /\ Proven(collector.samples, seen') /\ Proven(queues, seen')
<1> USE ReadinessAssumption
<1>t. WorldShape /\ SeenInv /\ ReceiptInv /\ Proven(queues, seen) /\ Proven(collector.samples, seen)
  BY DEF ReadyInv
<1>1. /\ DOMAIN world' = DOMAIN world /\ world'.streams = w.streams /\ world'.disarmed = w.disarmed
      /\ UNCHANGED <<collector, receipt>>
  BY <1>t DEF Becomes, WorldShape
<1>2. /\ DOMAIN seen' = {"good", "disarmed"}
      /\ seen'.good = [st \in Streams |-> IF w.streams[st] THEN 0 ELSE seen.good[st]]
  BY DEF Becomes
<1>3. seen'.disarmed <=> (seen.disarmed \/ w.disarmed)
  BY Zenon DEF Becomes
<1>4. seen'.good \in [Streams -> Nat] /\ \A st \in Streams : seen'.good[st] <= seen.good[st]
  BY <1>2, <1>t DEF SeenInv
<1>5. SeenInv'
  BY <1>1, <1>2, <1>3, <1>4 DEF SeenInv
<1>6. WorldShape'
  BY <1>1, <1>t DEF WorldShape
<1>7. Proven(queues, seen') /\ Proven(collector.samples, seen')
  BY <1>3, <1>4, <1>t, ProvenLater DEF SeenInv
<1>8. ReceiptInv'
  <2> SUFFICES ASSUME receipt.passed
               PROVE  /\ seen'.disarmed /\ receipt.age \in 0..(ReceiptLife + 1)
                      /\ receipt.age <= ReceiptLife =>
                           \A st \in Streams : seen'.good[st] <= SourceFresh + receipt.age
    BY <1>1 DEF ReceiptInv
  <2>1. /\ seen.disarmed /\ receipt.age \in 0..(ReceiptLife + 1)
        /\ receipt.age <= ReceiptLife =>
             \A st \in Streams : seen.good[st] <= SourceFresh + receipt.age
    BY <1>t DEF ReceiptInv
  <2>2. \A st \in Streams : seen.good[st] \in Nat /\ seen'.good[st] \in Nat
    BY <1>4, <1>t DEF SeenInv
  <2> QED BY <2>1, <2>2, <1>3, <1>4
<1> QED BY <1>1, <1>5, <1>6, <1>7, <1>8

\* Where neither the world nor what is remembered of it changes.
LEMMA CollectorMoves ==
  ASSUME ReadyInv, UNCHANGED <<world, receipt, seen>>, DOMAIN collector' = DOMAIN collector,
         Proven(queues', seen), Proven(collector'.samples, seen)
  PROVE  ReadyInv'
BY DEF ReadyInv, WorldShape, SeenInv, ReceiptInv

\* A sample is published with what is the case.
LEMMA PutProves ==
  ASSUME ReadyInv, NEW key \in Keys, NEW good, NEW s, Proven(queues, s), Put(key, good),
         key \in Streams => (good => s.good[key] = 0),
         key = "chassis" => (good => s.disarmed)
  PROVE  Proven(queues', s)
<1> USE ReadinessAssumption
<1> DEFINE x == [good |-> good, stamp |-> 0, received |-> NoStamp]
<1>1. queues' = [queues EXCEPT ![key] = x] \/ queues' = queues
  BY DEF Put
<1>2. DOMAIN x = SampleFields /\ x.good = good /\ x.stamp = 0
  BY DEF SampleFields
<1>3. 0 \in Age(StampLimit) /\ 0 # NoStamp
  BY DEF Age, StampLimit, NoStamp
<1> HIDE DEF x
<1> QED BY <1>1, <1>2, <1>3, OnePut

\* Every step of the world, the collector and the script keeps it.
LEMMA ReadyStep == ReadyInv /\ [ReadyNext]_ready_vars => ReadyInv'
<1> SUFFICES ASSUME ReadyInv, [ReadyNext]_ready_vars PROVE ReadyInv'
  OBVIOUS
<1> USE ReadinessAssumption
<1>t. WorldShape /\ SeenInv /\ ReceiptInv /\ Proven(queues, seen) /\ Proven(collector.samples, seen)
  BY DEF ReadyInv
<1>d. /\ DOMAIN world = {"streams", "disarmed", "goal", "servers", "guard", "changes"}
      /\ DOMAIN collector = {"at", "phase", "listened", "samples", "servers", "guard"}
      /\ DOMAIN receipt = {"passed", "phase", "age"}
  BY <1>t DEF WorldShape
<1>k. Streams \subseteq Keys /\ {"chassis", "goal_status", "map_lifecycle"} \subseteq Keys
  BY DEF Keys
<1>c. ASSUME NEW w, DOMAIN w = DOMAIN world, Becomes(w), queues' = queues PROVE ReadyInv'
  BY <1>c, WorldChanges DEF ReadyInv
<1>1. CASE StreamChanges
  <2>1. PICK st \in Streams : Becomes([world EXCEPT !.streams[st] = ~@]) /\ UNCHANGED queues
    BY <1>1 DEF StreamChanges
  <2>2. DOMAIN [world EXCEPT !.streams[st] = ~@] = DOMAIN world
    OBVIOUS
  <2> QED BY <2>1, <2>2, <1>c
<1>2. CASE ChassisChanges
  <2>1. DOMAIN [world EXCEPT !.disarmed = ~@] = DOMAIN world
    OBVIOUS
  <2> QED BY <1>2, <2>1, <1>c DEF ChassisChanges
<1>3. CASE GoalChanges
  <2>1. DOMAIN [world EXCEPT !.goal = ~@] = DOMAIN world
    OBVIOUS
  <2>2. /\ WorldShape' /\ SeenInv' /\ ReceiptInv'
        /\ collector' = collector /\ Proven(collector.samples, seen') /\ Proven(queues, seen')
    BY <1>3, <2>1, WorldChanges DEF GoalChanges
  <2>3. Proven(queues', seen')
    BY <1>3, <1>k, <2>2, PutProves DEF GoalChanges
  <2> QED BY <2>2, <2>3 DEF ReadyInv
<1>4. CASE MapServerChanges
  <2>1. PICK servers \in SUBSET Servers :
          Becomes([world EXCEPT !.servers = servers]) /\ UNCHANGED queues
    BY <1>4 DEF MapServerChanges
  <2>2. DOMAIN [world EXCEPT !.servers = servers] = DOMAIN world
    OBVIOUS
  <2> QED BY <2>1, <2>2, <1>c
<1>5. CASE GuardChanges
  <2>1. /\ DOMAIN world' = DOMAIN world /\ world'.streams = world.streams
        /\ world'.disarmed = world.disarmed
        /\ UNCHANGED <<queues, collector, receipt, accepted, seen>>
    BY <1>5, <1>d DEF GuardChanges
  <2> QED BY <2>1, <1>t DEF ReadyInv, WorldShape, SeenInv, ReceiptInv
<1>6. CASE PublishSamples
  <2>1. UNCHANGED <<world, collector, receipt, seen>>
    BY <1>6 DEF PublishSamples
  <2>2. CASE \E st \in Streams : Put(st, world.streams[st])
    <3>1. PICK st \in Streams : Put(st, world.streams[st])
      BY <2>2
    <3>2. world.streams[st] => seen.good[st] = 0
      BY <1>t DEF SeenInv
    <3>3. Proven(queues', seen)
      BY <3>1, <3>2, <1>t, <1>k, PutProves
    <3> QED BY <2>1, <3>3, <1>t, CollectorMoves
  <2>3. CASE Put("chassis", world.disarmed)
    <3>1. Proven(queues', seen)
      BY <2>3, <1>t, <1>k, PutProves DEF SeenInv
    <3> QED BY <2>1, <3>1, <1>t, CollectorMoves
  <2>4. CASE \E host \in world.servers : Put("map_lifecycle", host = "expected")
    <3>1. PICK host \in world.servers : Put("map_lifecycle", host = "expected")
      BY <2>4
    <3>2. Proven(queues', seen)
      BY <3>1, <1>t, <1>k, PutProves
    <3> QED BY <2>1, <3>2, <1>t, CollectorMoves
  <2> QED BY <1>6, <2>2, <2>3, <2>4 DEF PublishSamples
<1>7. CASE ReadyTime
  <2>1. /\ DOMAIN seen' = DOMAIN seen
        /\ seen'.good = [st \in Streams |->
                           IF world.streams[st] THEN 0 ELSE Older(seen.good[st], SeenLimit)]
        /\ seen'.disarmed = seen.disarmed
    BY <1>7, <1>t DEF ReadyTime, SeenInv
  <2>2. \A n \in Nat : Older(n, SeenLimit) \in Nat /\ Older(n, SeenLimit) <= n + 1
    BY DEF Older, NoStamp, SeenLimit
  <2>3. /\ seen'.good \in [Streams -> Nat] /\ seen.good \in [Streams -> Nat]
        /\ \A st \in Streams : seen'.good[st] <= seen.good[st] + 1
    BY <2>1, <2>2, <1>t DEF SeenInv
  <2>4. SeenInv'
    BY <1>7, <2>1, <2>3, <1>t DEF SeenInv, ReadyTime
  <2>5. /\ queues' = AgedSamples(queues) /\ collector'.samples = AgedSamples(collector.samples)
        /\ DOMAIN collector' = DOMAIN collector
        /\ DOMAIN receipt' = DOMAIN receipt /\ receipt'.passed = receipt.passed
        /\ receipt'.age = Older(receipt.age, ReceiptLife + 1) /\ world' = world
    BY <1>7, <1>d DEF ReadyTime
  <2>6. Proven(queues', seen') /\ Proven(collector'.samples, seen')
    BY <2>1, <2>3, <2>5, <1>t, AgedProves
  <2>7. ReceiptInv'
    <3> SUFFICES ASSUME receipt.passed
                 PROVE  /\ seen.disarmed /\ receipt'.age \in 0..(ReceiptLife + 1)
                        /\ receipt'.age <= ReceiptLife =>
                             \A st \in Streams : seen'.good[st] <= SourceFresh + receipt'.age
      BY <2>1, <2>5 DEF ReceiptInv
    <3>1. /\ seen.disarmed /\ receipt.age \in 0..(ReceiptLife + 1)
          /\ receipt.age <= ReceiptLife =>
               \A st \in Streams : seen.good[st] <= SourceFresh + receipt.age
      BY <1>t DEF ReceiptInv
    <3>2. /\ receipt'.age \in 0..(ReceiptLife + 1)
          /\ receipt'.age <= ReceiptLife =>
               receipt'.age = receipt.age + 1 /\ receipt.age <= ReceiptLife
      BY <2>5, <3>1 DEF Older, NoStamp
    <3>3. \A st \in Streams : seen.good[st] \in Nat /\ seen'.good[st] \in Nat
      BY <2>3
    <3> QED BY <3>1, <3>2, <3>3, <2>3
  <2> QED BY <2>4, <2>5, <2>6, <2>7, <1>t DEF ReadyInv, WorldShape
<1>8. CASE StartAttempt
  <2>1. /\ DOMAIN collector' = DOMAIN collector /\ collector'.samples = NoSamples
        /\ queues' = NoSamples /\ receipt' = NoReceipt /\ world' = world
    BY <1>8, <1>d DEF StartAttempt
  <2>2. /\ DOMAIN seen' = DOMAIN seen /\ seen'.good = seen.good
        /\ seen'.disarmed = world.disarmed
    BY <1>8, <1>t DEF StartAttempt, SeenInv
  <2>3. SeenInv'
    BY <2>1, <2>2, <1>t DEF SeenInv
  <2>4. DOMAIN NoReceipt = {"passed", "phase", "age"} /\ ~NoReceipt.passed
    BY DEF NoReceipt
  <2>5. WorldShape' /\ ReceiptInv'
    BY <2>1, <2>4, <1>t DEF WorldShape, ReceiptInv
  <2>6. Proven(queues', seen') /\ Proven(collector'.samples, seen')
    BY <2>1, NothingProves
  <2> QED BY <2>3, <2>5, <2>6 DEF ReadyInv
<1>9. CASE TakeSample
  <2>1. PICK key \in Keys :
          /\ collector' = [collector EXCEPT !.samples[key] =
                                              [queues[key] EXCEPT !.received = 0]]
          /\ queues' = [queues EXCEPT ![key] = NoSample]
    BY <1>9 DEF TakeSample
  <2> DEFINE x == [queues[key] EXCEPT !.received = 0]
  <2>2. /\ DOMAIN collector' = DOMAIN collector
        /\ collector'.samples = [collector.samples EXCEPT ![key] = x]
    BY <2>1, <1>d
  <2>3. /\ DOMAIN queues[key] = SampleFields /\ queues[key].stamp \in Age(StampLimit)
        /\ key \in Streams =>
             (queues[key].good /\ queues[key].stamp <= SourceFresh =>
                queues[key].stamp # NoStamp /\ seen.good[key] <= queues[key].stamp)
        /\ key = "chassis" => (queues[key].good => seen.disarmed)
    BY <1>t DEF Proven
  <2>4. DOMAIN x = SampleFields /\ x.stamp = queues[key].stamp /\ x.good = queues[key].good
    BY <2>3 DEF SampleFields
  <2> HIDE DEF x
  <2>5. Proven(collector'.samples, seen)
    BY <2>2, <2>3, <2>4, <1>t, OnePut
  <2>6. /\ ~NoSample.good /\ NoSample.stamp = NoStamp /\ DOMAIN NoSample = SampleFields
        /\ NoStamp \in Age(StampLimit)
    BY DEF NoSample, SampleFields, Age
  <2>7. Proven(queues', seen)
    BY <2>1, <2>6, <1>t, OnePut
  <2> QED BY <1>9, <2>2, <2>5, <2>7, CollectorMoves DEF TakeSample
<1>10. CASE ReadGraph
  <2>1. /\ DOMAIN collector' = DOMAIN collector /\ collector'.samples = collector.samples
        /\ queues' = NoSamples /\ UNCHANGED <<world, receipt, seen>>
    BY <1>10, <1>d DEF ReadGraph
  <2> QED BY <2>1, <1>t, NothingProves, CollectorMoves
<1>11. CASE RefreshWitness
  <2> DEFINE latched == collector.samples["map_lifecycle"]
             again == IF Unique(collector.servers) /\ latched.received # NoStamp THEN 0
                      ELSE latched.received
             x == [latched EXCEPT !.received = again]
  <2>1. /\ DOMAIN collector' = DOMAIN collector
        /\ collector'.samples = [collector.samples EXCEPT !["map_lifecycle"] = x]
        /\ UNCHANGED <<world, queues, receipt, seen>>
    BY <1>11, <1>d DEF RefreshWitness
  <2>2. DOMAIN latched = SampleFields /\ latched.stamp \in Age(StampLimit)
    BY <1>t, <1>k DEF Proven
  <2>3. DOMAIN x = SampleFields /\ x.stamp = latched.stamp
    BY <2>2 DEF SampleFields
  <2> HIDE DEF x
  <2>4. Proven(collector'.samples, seen)
    BY <2>1, <2>2, <2>3, <1>t, <1>k, OnePut
  <2> QED BY <2>1, <2>4, <1>t, CollectorMoves
<1>12. CASE CollectorFails
  <2>1. /\ DOMAIN collector' = DOMAIN collector /\ collector'.samples = NoSamples
        /\ queues' = NoSamples /\ UNCHANGED <<world, receipt, seen>>
    BY <1>12, <1>d DEF CollectorFails, CollectorTo
  <2> QED BY <2>1, NothingProves, CollectorMoves
<1>13. CASE EvaluateSnapshot
  <2>1. /\ DOMAIN collector' = DOMAIN collector /\ collector'.samples = NoSamples
        /\ UNCHANGED <<world, queues, seen>>
    BY <1>13, <1>d DEF EvaluateSnapshot, CollectorTo
  <2>2. DOMAIN receipt' = DOMAIN receipt /\ receipt'.age = 0
    BY <1>13, <1>d DEF EvaluateSnapshot
  <2>3. receipt'.passed => \A key \in Keys \ {"goal_status"} : valid_and_fresh(key)
    BY <1>13, Zenon DEF EvaluateSnapshot
  <2>4. ReceiptInv'
    <3> SUFFICES ASSUME receipt'.passed
                 PROVE  seen.disarmed /\ \A st \in Streams : seen.good[st] <= SourceFresh
      BY <2>1, <2>2, <1>t DEF ReceiptInv, SeenInv
    <3>1. valid_and_fresh("chassis") /\ \A st \in Streams : valid_and_fresh(st)
      BY <2>3, <1>k
    <3>2. seen.disarmed
      BY <3>1, <1>t DEF valid_and_fresh, Proven
    <3>3. ASSUME NEW st \in Streams PROVE seen.good[st] <= SourceFresh
      <4>1. collector.samples[st].good /\ collector.samples[st].stamp <= SourceFresh
        BY <3>1, <3>3 DEF valid_and_fresh, fresh
      <4>2. seen.good[st] <= collector.samples[st].stamp
        BY <4>1, <1>t DEF Proven
      <4>3. seen.good[st] \in Nat /\ collector.samples[st].stamp \in Int
        BY <1>t, <1>k DEF Proven, SeenInv, Age, NoStamp, StampLimit
      <4> QED BY <4>1, <4>2, <4>3
    <3> QED BY <3>2, <3>3
  <2>5. Proven(collector'.samples, seen)
    BY <2>1, NothingProves
  <2> QED BY <2>1, <2>2, <2>4, <2>5, <1>t DEF ReadyInv, WorldShape, SeenInv
<1>14. CASE ValidateReceipt
  <2>1. /\ DOMAIN collector' = DOMAIN collector /\ collector'.samples = NoSamples
        /\ UNCHANGED <<world, queues, receipt, seen>>
    BY <1>14, <1>d DEF ValidateReceipt, CollectorTo
  <2> QED BY <2>1, <1>t, NothingProves, CollectorMoves
<1>15. CASE UNCHANGED ready_vars
  BY <1>15, <1>t DEF ready_vars, ReadyInv, WorldShape, SeenInv, ReceiptInv
<1> QED BY <1>1, <1>2, <1>3, <1>4, <1>5, <1>6, <1>7, <1>8, <1>9, <1>10, <1>11, <1>12, <1>13,
           <1>14, <1>15 DEF ReadyNext, ReadyOver

\* The script accepts only what is still recent.
LEMMA AcceptedIsRecent ==
  ReadyInv /\ [ReadyNext]_ready_vars =>
    [Accepts => /\ \A s \in Streams : seen.good[s] <= SourceFresh + ReceiptLife
                /\ seen.disarmed]_ready_vars
<1> SUFFICES ASSUME ReadyInv, ReadyNext, Accepts
             PROVE  (\A s \in Streams : seen.good[s] <= SourceFresh + ReceiptLife)
                    /\ seen.disarmed
  OBVIOUS
<1> USE ReadinessAssumption
<1>1. ValidateReceipt
  BY DEF Accepts, ReadyNext, StreamChanges, ChassisChanges, GoalChanges, MapServerChanges,
         GuardChanges, Becomes, PublishSamples, ReadyTime, StartAttempt, TakeSample, ReadGraph,
         RefreshWitness, CollectorFails, EvaluateSnapshot, ReadyOver, ready_vars
<1>2. receipt.passed /\ receipt.age <= ReceiptLife
  BY <1>1 DEF ValidateReceipt, Accepts
<1>3. seen.disarmed /\ receipt.age \in 0..(ReceiptLife + 1)
      /\ \A st \in Streams : seen.good[st] <= SourceFresh + receipt.age
  BY <1>2 DEF ReadyInv, ReceiptInv
<1>4. \A st \in Streams : seen.good[st] \in Nat
  BY DEF ReadyInv, SeenInv
<1> QED BY <1>2, <1>3, <1>4

\* A receipt the script accepts speaks of a recent world, for every window, freshness
\* and life of a receipt.
THEOREM AcceptedReadinessIsRecent == ReadySpec => ReadinessIsRecent
BY ReadyInitially, ReadyStep, AcceptedIsRecent, PTL DEF ReadySpec, ReadinessIsRecent

=============================================================================
