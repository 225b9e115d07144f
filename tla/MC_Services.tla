----------------------------- MODULE MC_Services -----------------------------
(* What the operator and Pilot see and use, in one run: semantic navigation and *)
(* the router of intents that calls it, the dashboard's feed and its seeds, the  *)
(* camera's stream to the workstation, and the readiness a session asks for.    *)
(* They do not share state here: a behaviour is one of them, and the others     *)
(* keep their initial state.                                                    *)
EXTENDS TLC, SemanticNavigation, IntentRouter, DashboardFeed, InitialPose,
        D435iStream, StagedReadiness

VARIABLE part   \* the component this behaviour runs

Symmetry == Permutations(Run)

\* One at a time: a status call or a cancellation of the operator, or a status
\* answer on its way to the registry.  A cancel worker, whose answers are not
\* counted, still races with each.
OneRequest ==
  Cardinality({r \in Run : asker[r] # "off"})
    + Cardinality({r \in Run : caller[r] # "off"})
    + Cardinality({r \in Run : monitor[r] \in Report}) <= 1

\* Once a goal was admitted over one of two that ended on an empty state nothing
\* can break OverlapNeedsEmptyState any more: that the state was empty stays said.
\* Of LatchOpensOnEvidence that leaves out a second run beside such a goal.
Undecided ==
  \A r, s \in Run : run[r].unstated /\ run[s].registered => r = s

Explored == OneRequest /\ Undecided

\* Semantic navigation while it runs, less what no later step reads: attempted,
\* the admission of a call that is past its last look at the map, and the flags
\* of a run that is over and that nobody is canceling; that a run ended on an
\* empty state is read as long as its goal is outstanding.  There is one activation,
\* so all that is read of an admission is whether its map is still there.
NavigationView ==
  <<lifecycle, map, lock, nav, workers, goal,
    [r \in Run |-> nav[r] \in {"admitted", "validated", "calling", "attached"}
                     /\ admission[r].revision = guard.revision],
    [r \in Run |-> run[r].unstated /\ Outstanding(r)],
    [r \in Run |-> IF Over(r) /\ canceller[r] = "off" /\ caller[r] = "off"
                   THEN <<>> ELSE <<[run[r] EXCEPT !.unstated = FALSE]>>]>>

\* The other components are seen whole.
ServicesView ==
  IF part = "navigation" THEN <<part, NavigationView>>
  ELSE <<part, intent_vars, feed_vars, seed_vars, stream_vars, ready_vars>>

Parts == {"navigation", "intent", "feed", "seeds", "stream", "readiness"}

AllInit ==
  /\ part \in Parts
  /\ NavInit
  /\ IntentInit
  /\ FeedInit
  /\ SeedsInit
  /\ StreamInit
  /\ ReadyInit
  /\ part # "intent" => router_mode = "live"
  /\ part # "feed" => topic = "map"
  /\ part # "seeds" => auto_restore

NavPart ==
  /\ part = "navigation"
  /\ NavNext
  /\ UNCHANGED <<part, intent_vars, feed_vars, seed_vars, stream_vars, ready_vars>>

IntentPart ==
  /\ part = "intent"
  /\ IntentNext
  /\ UNCHANGED <<part, nav_vars, feed_vars, seed_vars, stream_vars, ready_vars>>

FeedPart ==
  /\ part = "feed"
  /\ FeedNext
  /\ UNCHANGED <<part, nav_vars, intent_vars, seed_vars, stream_vars, ready_vars>>

SeedsPart ==
  /\ part = "seeds"
  /\ SeedsNext
  /\ UNCHANGED <<part, nav_vars, intent_vars, feed_vars, stream_vars, ready_vars>>

StreamPart ==
  /\ part = "stream"
  /\ StreamNext
  /\ UNCHANGED <<part, nav_vars, intent_vars, feed_vars, seed_vars, ready_vars>>

ReadyPart ==
  /\ part = "readiness"
  /\ ReadyNext
  /\ UNCHANGED <<part, nav_vars, intent_vars, feed_vars, seed_vars, stream_vars>>

AllNext ==
  \/ NavPart
  \/ IntentPart
  \/ FeedPart
  \/ SeedsPart
  \/ StreamPart
  \/ ReadyPart

all_vars == <<part, nav_vars, intent_vars, feed_vars, seed_vars, stream_vars, ready_vars>>

AllSpec ==
  /\ AllInit /\ [][AllNext]_all_vars

==============================================================================
