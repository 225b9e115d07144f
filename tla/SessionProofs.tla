----------------------------- MODULE SessionProofs -----------------------------
(***************************************************************************)
(* Theorems about the sessions the workstation's scripts start: for any    *)
(* number of staged ones (StagedLaunch), and for any number of samples of  *)
(* a session without motion (NomotionLaunch with CloudRelay).              *)
(***************************************************************************)
EXTENDS StagedLaunch, NomotionLaunch, TLAPS

-----------------------------------------------------------------------------
(* The steps of StagedLaunch by what they are steps of *)

ScriptStep ==
  \/ SpawnOwner \/ HoldOwner \/ AwaitReady \/ AwaitGraph \/ BindContainer \/ Serve
  \/ PermitGate \/ PreGuardReceipt \/ LiveGoal \/ PostGuardReceipt \/ LastLook
  \/ WaitFirst \/ Converge \/ AcceptResult \/ SignalMission

TakeStep ==
  \/ \E c \in Owners : TakeOwner(c)
  \/ TakeGuard \/ TakeRecorded \/ TakeBoot \/ TakeRecord \/ TakeContainer \/ ExitMission

ChildStep ==
  \/ \E c \in Owners : ChainReady(c) \/ OwnerEnds(c) \/ OrphanEnds(c)
  \/ BootRecords \/ SpawnChassis \/ ContainerChanges \/ BootEnds \/ GuardEnds
  \/ DispatchEnds \/ ActionShows
  \/ \E p \in Parties : SpendChassis(p) \/ ChassisStops(p) \/ TakeGoal(p)

LEMMA MissionSteps ==
  [MissionNext]_mission_vars =>
    \/ StartMission \/ SweepContainer \/ KillMission
    \/ ScriptStep \/ TakeStep \/ ChildStep
    \/ UNCHANGED mission_vars
  BY DEF MissionNext, ScriptStep, TakeStep, ChildStep, MissionOver

-----------------------------------------------------------------------------
(* Where the script is *)

TakeSet == {"dispatch", "guard", "shutdown", "boot", "record", "nav2", "cloud",
            "router", "state", "stamp", "identity", "exit"}

StepOK ==
  /\ mission_step.at = "awaits" => mission_step.child \in Chain \cup {"router"}
  /\ mission_step.at = "converges" => mission_step.child \in Pair
  /\ mission_step.at = "takes" => mission_step.child \in TakeSet
  /\ mission_step.at \in {"starts", "started"} => mission_step.child \in Owners
  /\ mission_step.at = "closed" => mission_step = At("closed")

LEMMA StepFields ==
  /\ \A w : At(w).at = w /\ At(w).child = "none"
  /\ \A c : Starts(c).at = "starts" /\ Starts(c).child = c
  /\ \A c : Spawned(c).at = "started" /\ Spawned(c).child = c
  /\ \A c : Awaits(c).at = "awaits" /\ Awaits(c).child = c
  /\ \A c : Converges(c).at = "converges" /\ Converges(c).child = c
  /\ \A c : Takes(c).at = "takes" /\ Takes(c).child = c
  BY DEF At, Starts, Spawned, Awaits, Converges, Takes

\* The cleanup takes one thing after the other, in the order of the script.
LEMMA TakeIndices ==
  /\ TakeIndex("dispatch") = 1 /\ TakeIndex("guard") = 2
  /\ TakeIndex("shutdown") = 3 /\ TakeIndex("boot") = 4
  /\ TakeIndex("record") = 5 /\ TakeIndex("nav2") = 6
  /\ TakeIndex("cloud") = 7 /\ TakeIndex("router") = 8
  /\ TakeIndex("state") = 9 /\ TakeIndex("stamp") = 10
  /\ TakeIndex("identity") = 11 /\ TakeIndex("exit") = 12
<1>1. Len(TakeOrder) = 12
  BY DEF TakeOrder
<1>2. \A n \in 1..12 :
        \/ (n = 1 /\ TakeOrder[n] = "dispatch") \/ (n = 2 /\ TakeOrder[n] = "guard")
        \/ (n = 3 /\ TakeOrder[n] = "shutdown") \/ (n = 4 /\ TakeOrder[n] = "boot")
        \/ (n = 5 /\ TakeOrder[n] = "record") \/ (n = 6 /\ TakeOrder[n] = "nav2")
        \/ (n = 7 /\ TakeOrder[n] = "cloud") \/ (n = 8 /\ TakeOrder[n] = "router")
        \/ (n = 9 /\ TakeOrder[n] = "state") \/ (n = 10 /\ TakeOrder[n] = "stamp")
        \/ (n = 11 /\ TakeOrder[n] = "identity") \/ (n = 12 /\ TakeOrder[n] = "exit")
  BY DEF TakeOrder
<1> QED
  BY <1>1, <1>2 DEF TakeIndex

LEMMA TakeNextGoesOn ==
  ASSUME NEW what \in TakeSet \ {"exit"}, TakesAt(what), TakeNext
  PROVE  /\ mission_step'.at = "takes" /\ mission_step'.child \in TakeSet
         /\ TakeIndex(mission_step'.child) = TakeIndex(what) + 1
<1>1. mission_step.child = what
  BY DEF TakesAt, Takes
<1>2. mission_step' = Takes(TakeOrder[TakeIndex(what) + 1])
  BY <1>1 DEF TakeNext
<1>3. /\ TakeOrder[2] = "guard" /\ TakeOrder[3] = "shutdown" /\ TakeOrder[4] = "boot"
      /\ TakeOrder[5] = "record" /\ TakeOrder[6] = "nav2" /\ TakeOrder[7] = "cloud"
      /\ TakeOrder[8] = "router" /\ TakeOrder[9] = "state" /\ TakeOrder[10] = "stamp"
      /\ TakeOrder[11] = "identity" /\ TakeOrder[12] = "exit"
  BY DEF TakeOrder
<1>4. TakeIndex(what) \in 1..11
  BY TakeIndices DEF TakeSet
<1>5. /\ TakeOrder[TakeIndex(what) + 1] \in TakeSet
      /\ TakeIndex(TakeOrder[TakeIndex(what) + 1]) = TakeIndex(what) + 1
  <2> DEFINE k == TakeIndex(what)
  <2>1. \/ k = 1 \/ k = 2 \/ k = 3 \/ k = 4 \/ k = 5 \/ k = 6 \/ k = 7 \/ k = 8
        \/ k = 9 \/ k = 10 \/ k = 11
    BY <1>4
  <2> HIDE DEF k
  <2>2. TakeOrder[k + 1] \in TakeSet /\ TakeIndex(TakeOrder[k + 1]) = k + 1
    BY <1>3, <2>1, TakeIndices DEF TakeSet
  <2> QED
    BY <2>2 DEF k
<1> QED
  BY <1>2, <1>5 DEF Takes

\* The cleanup has been past w.
TakingAfter(w) ==
  mission_step.at = "takes" /\ TakeIndex(mission_step.child) > TakeIndex(w)

LEMMA TakenThen ==
  ASSUME NEW what \in TakeSet \ {"exit"}, TakesAt(what), TakeNext,
         NEW w \in TakeSet, TakingAfter(w)'
  PROVE  TakingAfter(w) \/ w = what
<1>1. TakeIndex(mission_step'.child) = TakeIndex(what) + 1
  BY TakeNextGoesOn
<1>2. TakeIndex(w) \in 1..12 /\ TakeIndex(what) \in 1..12
  BY TakeIndices DEF TakeSet
<1>3. TakeIndex(w) <= TakeIndex(what)
  BY <1>1, <1>2 DEF TakingAfter
<1>4. TakeIndex(w) = TakeIndex(what) => w = what
  BY TakeIndices DEF TakeSet
<1>5. mission_step.at = "takes" /\ mission_step.child = what
  BY DEF TakesAt, Takes
<1> QED
  BY <1>2, <1>3, <1>4, <1>5 DEF TakingAfter

LEMMA StepInit == MissionInit => StepOK
  BY StepFields DEF MissionInit, StepOK

\* Where a step of the script leads to.
LEMMA ScriptGoesOn ==
  ASSUME StepOK, ScriptStep
  PROVE  /\ StepOK'
         /\ mission_step.at \notin {"takes", "closed"} /\ mission_step'.at # "closed"
<1> USE StepFields DEF StepOK, Owners, Chain, Pair, TakeSet, GoOn, EndMission
<1>1. CASE SpawnOwner
  BY <1>1 DEF SpawnOwner
<1>2. CASE HoldOwner
  BY <1>2 DEF HoldOwner, AfterStart
<1>3. CASE AwaitReady
  BY <1>3 DEF AwaitReady, NextOwner
<1>4. CASE AwaitGraph \/ BindContainer
  BY <1>4 DEF AwaitGraph, BindContainer
<1>5. CASE Serve \/ PermitGate \/ PreGuardReceipt \/ LiveGoal \/ PostGuardReceipt
  BY <1>5 DEF Serve, PermitGate, PreGuardReceipt, LiveGoal, PostGuardReceipt
<1>6. CASE LastLook
  BY <1>6 DEF LastLook
<1>7. CASE WaitFirst
  BY <1>7 DEF WaitFirst, Paired
<1>8. CASE Converge \/ AcceptResult \/ SignalMission
  BY <1>8 DEF Converge, AcceptResult, SignalMission
<1> QED
  BY <1>1, <1>2, <1>3, <1>4, <1>5, <1>6, <1>7, <1>8 DEF ScriptStep

LEMMA TakeGoesOn ==
  ASSUME StepOK, TakeStep
  PROVE  /\ StepOK'
         /\ \/ \E what \in TakeSet \ {"exit"} : TakesAt(what) /\ TakeNext
            \/ ExitMission
<1>1. \/ \E what \in TakeSet \ {"exit"} : TakesAt(what) /\ TakeNext
      \/ ExitMission
  <2>1. ASSUME NEW c \in Owners, TakeOwner(c)
        PROVE  \E what \in TakeSet \ {"exit"} : TakesAt(what) /\ TakeNext
    BY <2>1 DEF TakeOwner, Owners, Chain, Pair, TakeSet
  <2> QED
    BY <2>1 DEF TakeStep, TakeGuard, TakeRecorded, TakeBoot, TakeRecord, TakeContainer,
       TakeSet
<1>2. ASSUME NEW what \in TakeSet \ {"exit"}, TakesAt(what), TakeNext PROVE StepOK'
  <2>1. mission_step'.at = "takes" /\ mission_step'.child \in TakeSet
    BY <1>2, TakeNextGoesOn
  <2> QED
    BY <2>1 DEF StepOK
<1>3. ExitMission => StepOK'
  BY StepFields DEF ExitMission, StepOK
<1> QED
  BY <1>1, <1>2, <1>3

\* A child does not move the script.
LEMMA ChildFrame ==
  ASSUME ChildStep
  PROVE  /\ UNCHANGED <<script_vars, mission, sessions>>
         /\ owners' \subseteq owners /\ orphans' \subseteq orphans
  BY DEF ChildStep, ChainReady, OwnerEnds, OrphanEnds, BootRecords, SpawnChassis,
     ContainerChanges, BootEnds, GuardEnds, DispatchEnds, ActionShows, SpendChassis,
     ChassisStops, TakeGoal, Script, frame_vars, child_vars

LEMMA StepNext == StepOK /\ [MissionNext]_mission_vars => StepOK'
<1> SUFFICES ASSUME StepOK, [MissionNext]_mission_vars PROVE StepOK'
  OBVIOUS
<1>1. CASE StartMission
  BY <1>1, StepFields DEF StartMission, StepOK, Owners, Chain
<1>2. CASE KillMission
  BY <1>2, StepFields DEF KillMission, StepOK
<1>3. CASE SweepContainer \/ ChildStep \/ UNCHANGED mission_vars
  <2>1. mission_step' = mission_step
    BY <1>3, ChildFrame DEF SweepContainer, script_vars, mission_vars
  <2> QED
    BY <2>1 DEF StepOK
<1> QED
  BY <1>1, <1>2, <1>3, MissionSteps, ScriptGoesOn, TakeGoesOn

-----------------------------------------------------------------------------
(* The permits of a staged session *)

\* Who has a dispatcher, or is about to, has passed the last look at the permits.
Dispatching ==
  \/ "dispatch" \in owners \cup orphans
  \/ mission_step.at = "starts" /\ mission_step.child = "dispatch"

PermitInv ==
  /\ permits \in [Roles -> {"offered", "spent"}]
  /\ spends \in [Roles -> {0, 1}]
  /\ \A r \in Roles : permits[r] = "offered" <=> spends[r] = 0
  /\ permits["goal"] = "spent" => permits["chassis"] = "spent"
  /\ mission = "permits" /\ Dispatching => permits["chassis"] = "spent"

LEMMA PermitInit == MissionInit => PermitInv
  BY StepFields DEF MissionInit, PermitInv, Dispatching, Roles

LEMMA RenameKeepsPermits ==
  ASSUME PermitInv, NEW r \in Roles, NEW p, RenamePermit(r, p),
         r = "goal" => permits["chassis"] = "spent",
         mission' = mission, Dispatching' => Dispatching
  PROVE  PermitInv'
<1>1. /\ permits[r] = "offered" /\ permits' = [permits EXCEPT ![r] = "spent"]
      /\ spends' = [spends EXCEPT ![r] = spends[r] + 1]
  BY DEF RenamePermit
<1>2. spends[r] = 0
  BY <1>1 DEF PermitInv
<1>3. spends' = [spends EXCEPT ![r] = 1]
  BY <1>1, <1>2
<1>4. /\ permits' \in [Roles -> {"offered", "spent"}] /\ spends' \in [Roles -> {0, 1}]
      /\ \A q \in Roles : permits'[q] = "offered" <=> spends'[q] = 0
  BY <1>1, <1>3 DEF PermitInv
<1>5. permits["chassis"] = "spent" => permits'["chassis"] = "spent"
  BY <1>1 DEF PermitInv, Roles
<1>6. permits'["goal"] = "spent" => permits'["chassis"] = "spent"
  BY <1>1, <1>5 DEF PermitInv, Roles
<1> QED
  BY <1>4, <1>5, <1>6 DEF PermitInv

LEMMA PermitKept ==
  ASSUME PermitInv, UNCHANGED <<permits, spends, mission>>, Dispatching' => Dispatching
  PROVE  PermitInv'
  BY DEF PermitInv

\* The script only goes on to a dispatcher from the last look.
LEMMA ScriptDispatch ==
  ASSUME StepOK, ScriptStep, Dispatching'
  PROVE  Dispatching \/ (mission = "permits" => FinalBundleStands)
<1> USE StepFields DEF GoOn, EndMission, ScriptOnly, child_vars, frame_vars
<1>1. CASE SpawnOwner
  BY <1>1 DEF SpawnOwner, Dispatching
<1>2. CASE HoldOwner
  <2>1. mission_step'.at # "starts" /\ UNCHANGED <<owners, orphans>>
    BY <1>2 DEF HoldOwner, AfterStart
  <2> QED
    BY <2>1 DEF Dispatching
<1>3. CASE AwaitReady
  <2>1. NextOwner(mission_step.child) # "dispatch"
    BY DEF NextOwner
  <2>2. /\ UNCHANGED <<owners, orphans>>
        /\ mission_step'.at = "starts" => mission_step'.child # "dispatch"
    BY <1>3, <2>1 DEF AwaitReady
  <2> QED
    BY <2>2 DEF Dispatching
<1>4. CASE AwaitGraph \/ BindContainer
  <2>1. mission_step'.at # "starts" /\ UNCHANGED <<owners, orphans>>
    BY <1>4 DEF AwaitGraph, BindContainer
  <2> QED
    BY <2>1 DEF Dispatching
<1>5. CASE Serve \/ PermitGate \/ PreGuardReceipt \/ LiveGoal \/ PostGuardReceipt
  <2>1. /\ UNCHANGED <<owners, orphans>>
        /\ mission_step'.at = "starts" => mission_step'.child # "dispatch"
    BY <1>5 DEF Serve, PermitGate, PreGuardReceipt, LiveGoal, PostGuardReceipt
  <2> QED
    BY <2>1 DEF Dispatching
<1>6. CASE LastLook
  <2>1. \/ mission = "permits" => FinalBundleStands
        \/ mission_step'.at # "starts" /\ UNCHANGED <<owners, orphans>>
    BY <1>6 DEF LastLook
  <2> QED
    BY <2>1 DEF Dispatching
<1>7. CASE WaitFirst \/ Converge \/ AcceptResult \/ SignalMission
  <2>1. mission_step'.at # "starts" /\ UNCHANGED <<owners, orphans>>
    BY <1>7 DEF WaitFirst, Converge, AcceptResult, SignalMission
  <2> QED
    BY <2>1 DEF Dispatching
<1> QED
  BY <1>1, <1>2, <1>3, <1>4, <1>5, <1>6, <1>7 DEF ScriptStep

LEMMA ScriptFrame == ScriptStep => UNCHANGED <<world_vars, frame_vars, exits>>
  BY DEF ScriptStep, SpawnOwner, HoldOwner, AwaitReady, AwaitGraph, BindContainer,
     Serve, PermitGate, PreGuardReceipt, LiveGoal, PostGuardReceipt, LastLook,
     WaitFirst, Converge, AcceptResult, SignalMission, ScriptOnly, child_vars

LEMMA TakeFrame ==
  TakeStep => /\ UNCHANGED <<permits, consumers, results, spends, frame_vars>>
              /\ owners' \subseteq owners
              /\ mission_step'.at \in {"takes", "closed"}
<1>1. TakeStep => /\ UNCHANGED <<permits, consumers, results, spends, frame_vars>>
                  /\ owners' \subseteq owners
  BY DEF TakeStep, TakeOwner, TakeGuard, TakeRecorded, TakeBoot, TakeRecord,
     TakeContainer, ExitMission, child_vars, world_vars
<1>2. TakeStep => TakeNext \/ ExitMission
  BY DEF TakeStep, TakeOwner, TakeGuard, TakeRecorded, TakeBoot, TakeRecord,
     TakeContainer
<1>3. TakeNext => mission_step'.at = "takes"
  BY StepFields DEF TakeNext
<1>4. ExitMission => mission_step'.at = "closed"
  BY StepFields DEF ExitMission
<1> QED
  BY <1>1, <1>2, <1>3, <1>4

LEMMA PermitNext ==
  ASSUME StepOK, PermitInv, [MissionNext]_mission_vars
  PROVE  PermitInv'
<1>1. CASE StartMission
  <2>1. /\ UNCHANGED <<permits, spends, mission, orphans>> /\ owners' = {}
        /\ mission_step'.child = "identity"
    BY <1>1, StepFields DEF StartMission
  <2> QED
    BY <2>1, PermitKept DEF Dispatching
<1>2. CASE KillMission
  <2>1. UNCHANGED <<permits, spends, mission>>
    BY <1>2 DEF KillMission
  <2>2. mission_step'.at = "closed"
    BY <1>2, StepFields DEF KillMission
  <2>3. owners' = {} /\ orphans' \subseteq orphans \cup owners
    BY <1>2 DEF KillMission
  <2> QED
    BY <2>1, <2>2, <2>3, PermitKept DEF Dispatching
<1>3. CASE SweepContainer \/ UNCHANGED mission_vars
  <2>1. UNCHANGED <<permits, spends, mission, mission_step, owners, orphans>>
    BY <1>3 DEF SweepContainer, mission_vars, script_vars, child_vars, frame_vars
  <2> QED
    BY <2>1, PermitKept DEF Dispatching
<1>4. CASE ScriptStep
  <2>1. UNCHANGED <<permits, spends, mission>>
    BY <1>4, ScriptFrame DEF world_vars, frame_vars
  <2>2. mission = "permits" /\ Dispatching' => permits["chassis"] = "spent"
    BY <1>4, ScriptDispatch DEF FinalBundleStands, PermitInv
  <2> QED
    BY <2>1, <2>2 DEF PermitInv
<1>5. CASE TakeStep
  <2>1. Dispatching' => Dispatching
    BY <1>5, TakeFrame DEF Dispatching, frame_vars
  <2> QED
    BY <1>5, <2>1, TakeFrame, PermitKept DEF frame_vars
<1>6. CASE ChildStep
  <2>1. mission' = mission /\ (Dispatching' => Dispatching)
    BY <1>6, ChildFrame DEF Dispatching, script_vars
  <2>2. \/ UNCHANGED <<permits, spends>>
        \/ \E p \in Parties : RenamePermit("chassis", p)
        \/ /\ mission = "permits" /\ "dispatch" \in owners \cup orphans
           /\ \E p \in Parties : RenamePermit("goal", p)
    BY <1>6 DEF ChildStep, ChainReady, OwnerEnds, OrphanEnds, BootRecords, SpawnChassis,
       ContainerChanges, BootEnds, GuardEnds, DispatchEnds, ActionShows, SpendChassis,
       ChassisStops, TakeGoal, DispatcherOf, ReadPermit, MissesPermit, world_vars
  <2>3. mission = "permits" /\ "dispatch" \in owners \cup orphans
          => permits["chassis"] = "spent"
    BY DEF PermitInv, Dispatching
  <2> QED
    BY <2>1, <2>2, <2>3, PermitKept, RenameKeepsPermits DEF Roles
<1> QED
  BY <1>1, <1>2, <1>3, <1>4, <1>5, <1>6, MissionSteps

-----------------------------------------------------------------------------
(* The end of a staged session *)

\* The script knows the PID of every child that runs, but for the one it has just
\* started; and it accepts a result of children that have both ended well.
HeldInv ==
  /\ exits \in [Pair -> {"none", "ok", "failed"}]
  /\ mission_step.at \notin {"started", "takes", "closed"} => owners \subseteq held
  /\ mission_step.at = "started" => owners \subseteq held \cup {mission_step.child}
  /\ mission_step.at = "converges" => /\ Paired(mission_step.child) \notin owners
                                      /\ exits[Paired(mission_step.child)] = "ok"
  /\ mission_step.at = "accept" => \A c \in Pair : c \notin owners /\ exits[c] = "ok"
  /\ mission_step.at = "serve" => mission = "persistent"
  /\ "own" \in chassis => boot_record = TRUE

LEMMA HeldInit == MissionInit => HeldInv
<1> SUFFICES ASSUME MissionInit PROVE HeldInv
  OBVIOUS
<1>1. mission_step.at = "closed"
  BY StepFields DEF MissionInit
<1>2. exits \in [Pair -> {"none", "ok", "failed"}] /\ "own" \notin chassis
  BY DEF MissionInit, NoExits
<1> QED
  BY <1>1, <1>2 DEF HeldInv

LEMMA ScriptHeld == ASSUME StepOK, HeldInv, ScriptStep PROVE HeldInv'
<1> USE StepFields DEF GoOn, EndMission
<1>1. UNCHANGED <<world_vars, frame_vars, exits>>
  BY ScriptFrame
<1>2. UNCHANGED <<exits, chassis, boot_record, mission>>
  BY <1>1 DEF world_vars, frame_vars
<1>3. ASSUME UNCHANGED <<owners, held>>, mission_step.at \notin {"started", "takes", "closed"},
             mission_step'.at \notin {"started", "converges", "accept", "serve"}
      PROVE  HeldInv'
  BY <1>2, <1>3 DEF HeldInv
<1>4. CASE SpawnOwner
  <2>1. \/ /\ mission_step'.at = "takes"
        \/ /\ mission_step'.at = "started" /\ mission_step'.child = mission_step.child
           /\ owners' = owners \cup {mission_step.child}
    BY <1>4 DEF SpawnOwner
  <2>2. mission_step.at = "starts" /\ held' = held
    BY <1>4 DEF SpawnOwner
  <2> QED
    BY <1>2, <2>1, <2>2 DEF HeldInv
<1>5. CASE HoldOwner
  <2>1. /\ mission_step.at = "started" /\ owners' = owners
        /\ held' = held \cup {mission_step.child}
        /\ mission_step'.at \in {"awaits", "graph", "post_guard", "wait"}
    BY <1>5 DEF HoldOwner, AfterStart, child_vars
  <2> QED
    BY <1>2, <2>1 DEF HeldInv
<1>6. CASE AwaitReady \/ AwaitGraph \/ Serve \/ PermitGate \/ PreGuardReceipt
           \/ LiveGoal \/ PostGuardReceipt \/ LastLook \/ AcceptResult
  <2>1. /\ UNCHANGED <<owners, held>>
        /\ mission_step.at \in {"awaits", "graph", "serve", "gate", "pre_guard",
                                "live_goal", "post_guard", "last_look", "accept"}
    BY <1>6 DEF AwaitReady, AwaitGraph, Serve, PermitGate, PreGuardReceipt, LiveGoal,
       PostGuardReceipt, LastLook, AcceptResult, ScriptOnly, child_vars
  <2>2. mission_step'.at \in {"starts", "bind", "takes", "pre_guard", "live_goal",
                             "last_look"}
    BY <1>6 DEF AwaitReady, AwaitGraph, Serve, PermitGate, PreGuardReceipt, LiveGoal,
       PostGuardReceipt, LastLook, AcceptResult
  <2> QED
    BY <1>3, <2>1, <2>2
<1>7. CASE BindContainer
  <2>1. UNCHANGED <<owners, held>> /\ mission_step.at = "bind"
    BY <1>7 DEF BindContainer, ScriptOnly, child_vars
  <2>2. \/ mission_step'.at \in {"gate", "pre_guard", "takes"}
        \/ mission_step'.at = "serve" /\ mission = "persistent"
    BY <1>7 DEF BindContainer
  <2> QED
    BY <1>2, <2>1, <2>2 DEF HeldInv
<1>8. CASE WaitFirst
  <2>1. UNCHANGED <<owners, held>> /\ mission_step.at = "wait"
    BY <1>8 DEF WaitFirst, ScriptOnly, child_vars
  <2>2. \/ mission_step'.at = "takes"
        \/ \E c \in Pair : /\ c \notin owners /\ exits[c] = "ok"
                         /\ mission_step'.at = "converges"
                         /\ mission_step'.child = Paired(c)
    BY <1>8 DEF WaitFirst
  <2>3. \A c \in Pair : Paired(Paired(c)) = c
    BY DEF Pair, Paired
  <2> QED
    BY <1>2, <2>1, <2>2, <2>3 DEF HeldInv
<1>9. CASE Converge
  <2> DEFINE c == mission_step.child
  <2>1. mission_step.at = "converges" /\ owners' = owners /\ c \in Pair
    BY <1>9 DEF Converge, ScriptOnly, child_vars, StepOK
  <2>2. \/ mission_step'.at = "takes"
        \/ /\ mission_step'.at = "accept" /\ c \notin owners /\ exits[c] = "ok"
           /\ held' = held \ Pair
    BY <1>9 DEF Converge
  <2>3. \A d \in Pair : d = c \/ d = Paired(c)
    BY <2>1 DEF Pair, Paired
  <2> HIDE DEF c
  <2>4. Paired(c) \notin owners /\ exits[Paired(c)] = "ok" /\ owners \subseteq held
    BY <2>1 DEF HeldInv, c
  <2> QED
    BY <1>2, <2>1, <2>2, <2>3, <2>4 DEF HeldInv
<1>10. CASE SignalMission
  <2>1. mission_step'.at = "takes"
    BY <1>10 DEF SignalMission
  <2> QED
    BY <1>2, <2>1 DEF HeldInv
<1> QED
  BY <1>4, <1>5, <1>6, <1>7, <1>8, <1>9, <1>10 DEF ScriptStep

LEMMA ChildHeld == ASSUME HeldInv, ChildStep PROVE HeldInv'
<1>1. /\ UNCHANGED <<mission_step, held, mission>> /\ owners' \subseteq owners
  BY ChildFrame DEF script_vars
<1>2. "own" \in chassis' => boot_record' = TRUE
  BY DEF HeldInv, ChildStep, ChainReady, OwnerEnds, OrphanEnds, BootRecords,
     SpawnChassis, ContainerChanges, BootEnds, GuardEnds, DispatchEnds, ActionShows,
     SpendChassis, ChassisStops, TakeGoal, BootOf, world_vars
<1>3. /\ exits' \in [Pair -> {"none", "ok", "failed"}]
      /\ \A c \in Pair : c \notin owners => exits'[c] = exits[c]
  BY DEF HeldInv, ChildStep, ChainReady, OwnerEnds, OrphanEnds, BootRecords,
     SpawnChassis, ContainerChanges, BootEnds, GuardEnds, DispatchEnds, ActionShows,
     SpendChassis, ChassisStops, TakeGoal, child_vars, Pair
<1>4. mission_step.at = "converges" =>
        /\ Paired(mission_step.child) \notin owners'
        /\ exits'[Paired(mission_step.child)] = "ok"
  BY <1>1, <1>3 DEF HeldInv, Paired, Pair
<1>5. mission_step.at = "accept" => \A c \in Pair : c \notin owners' /\ exits'[c] = "ok"
  BY <1>1, <1>3 DEF HeldInv
<1> QED
  BY <1>1, <1>2, <1>3, <1>4, <1>5 DEF HeldInv

LEMMA TakeHeld == ASSUME HeldInv, TakeStep PROVE HeldInv'
<1>1. mission_step'.at \in {"takes", "closed"}
  BY TakeFrame
<1>2. exits' \in [Pair -> {"none", "ok", "failed"}]
  BY DEF HeldInv, TakeStep, TakeOwner, TakeGuard, TakeRecorded, TakeBoot, TakeRecord,
     TakeContainer, ExitMission, child_vars
<1>3. "own" \in chassis' => boot_record' = TRUE
  BY DEF HeldInv, TakeStep, TakeOwner, TakeGuard, TakeRecorded, TakeBoot, TakeRecord,
     TakeContainer, ExitMission, world_vars
<1> QED
  BY <1>1, <1>2, <1>3 DEF HeldInv

LEMMA HeldNext ==
  ASSUME StepOK, HeldInv, [MissionNext]_mission_vars
  PROVE  HeldInv'
<1>1. CASE StartMission
  <2>1. /\ mission_step'.at = "starts" /\ owners' = {} /\ exits' = NoExits
        /\ chassis' = {}
    BY <1>1, StepFields DEF StartMission
  <2>2. NoExits \in [Pair -> {"none", "ok", "failed"}]
    BY DEF NoExits
  <2> QED
    BY <2>1, <2>2 DEF HeldInv
<1>2. CASE KillMission
  <2>1. mission_step'.at = "closed"
    BY <1>2, StepFields DEF KillMission
  <2>2. "own" \notin chassis' /\ exits' = exits
    BY <1>2 DEF KillMission
  <2> QED
    BY <2>1, <2>2 DEF HeldInv
<1>3. CASE SweepContainer \/ UNCHANGED mission_vars
  <2>1. UNCHANGED <<mission_step, owners, held, exits, mission, chassis, boot_record>>
    BY <1>3 DEF SweepContainer, mission_vars, script_vars, child_vars, frame_vars
  <2> QED
    BY <2>1 DEF HeldInv
<1> QED
  BY <1>1, <1>2, <1>3, MissionSteps, ScriptHeld, ChildHeld, TakeHeld

-----------------------------------------------------------------------------
(* A success and what it leaves behind *)

\* The script takes a success down, or has.
Accepted ==
  /\ mission_step.at \in {"takes", "closed"}
  /\ mission_status = "ok" /\ mission # "persistent"

\* What the success stands for.
Earned ==
  /\ \A c \in Pair : c \notin owners /\ exits[c] = "ok"
  /\ MeasuredPass
  /\ mission = "permits" => permits["goal"] = "spent"

\* What the cleanup is past is gone, or its status says that it is not.
TakenDown ==
  /\ owners \subseteq held
  /\ \A w \in Owners : TakingAfter(w) => w \notin owners
  /\ TakingAfter("record") => ~boot_record \/ cleanup_failed
  /\ TakingAfter("nav2") => nav2 = "none" \/ cleanup_failed

LeftNothing == owners = {} /\ ~boot_record /\ nav2 = "none"

WholeInv ==
  /\ boot_record \in BOOLEAN /\ cleanup_failed \in BOOLEAN
  /\ owners \subseteq Owners
  /\ Accepted => /\ Earned
                 /\ mission_step.at = "takes" => TakenDown
                 /\ mission_step.at = "closed" => LeftNothing

LEMMA WholeInit == MissionInit => WholeInv
<1> SUFFICES ASSUME MissionInit PROVE WholeInv
  OBVIOUS
<1>1. /\ boot_record = FALSE /\ cleanup_failed = FALSE /\ owners = {}
      /\ mission_status = "none"
  BY DEF MissionInit
<1> QED
  BY <1>1 DEF WholeInv, Accepted

LEMMA WholeTypes ==
  ASSUME StepOK, WholeInv, [MissionNext]_mission_vars
  PROVE  /\ boot_record' \in BOOLEAN /\ cleanup_failed' \in BOOLEAN
         /\ owners' \subseteq Owners
<1>0. /\ boot_record \in BOOLEAN /\ cleanup_failed \in BOOLEAN
      /\ owners \subseteq Owners
  BY DEF WholeInv
<1>1. CASE StartMission \/ KillMission
  BY <1>0, <1>1 DEF StartMission, KillMission
<1>2. CASE SweepContainer \/ UNCHANGED mission_vars
  BY <1>0, <1>2 DEF SweepContainer, mission_vars, script_vars, child_vars
<1>3. CASE ScriptStep
  <2>1. boot_record' = boot_record
    BY <1>3, ScriptFrame DEF world_vars
  <2>2. cleanup_failed' = cleanup_failed /\ owners' \subseteq Owners
    BY <1>0, <1>3 DEF ScriptStep, SpawnOwner, HoldOwner, AwaitReady, AwaitGraph,
       BindContainer, Serve, PermitGate, PreGuardReceipt, LiveGoal, PostGuardReceipt,
       LastLook, WaitFirst, Converge, AcceptResult, SignalMission, ScriptOnly,
       child_vars, StepOK
  <2> QED
    BY <1>0, <2>1, <2>2
<1>4. CASE TakeStep
  <2>1. boot_record' \in BOOLEAN /\ cleanup_failed' \in BOOLEAN
    BY <1>0, <1>4 DEF TakeStep, TakeOwner, TakeGuard, TakeRecorded, TakeBoot, TakeRecord,
       TakeContainer, ExitMission, world_vars, Blames
  <2> QED
    BY <1>0, <1>4, <2>1, TakeFrame
<1>5. CASE ChildStep
  <2>1. boot_record' \in BOOLEAN
    BY <1>0, <1>5 DEF ChildStep, ChainReady, OwnerEnds, OrphanEnds, BootRecords,
       SpawnChassis, ContainerChanges, BootEnds, GuardEnds, DispatchEnds, ActionShows,
       SpendChassis, ChassisStops, TakeGoal, world_vars
  <2>2. cleanup_failed' = cleanup_failed /\ owners' \subseteq owners
    BY <1>5, ChildFrame DEF script_vars
  <2> QED
    BY <1>0, <2>1, <2>2
<1> QED
  BY <1>1, <1>2, <1>3, <1>4, <1>5, MissionSteps

\* A step of the cleanup that leaves no more than it found keeps the promise.
LEMMA TakeWhole ==
  ASSUME WholeInv, NEW what \in TakeSet \ {"exit"}, TakesAt(what), TakeNext,
         UNCHANGED <<mission_status, mission, held, results, permits>>,
         owners' \subseteq owners, what \in held => what \notin owners',
         \A c \in Pair : c \notin owners => exits'[c] = exits[c],
         cleanup_failed => cleanup_failed',
         boot_record' => boot_record, what = "record" /\ boot_record' => cleanup_failed',
         nav2' = nav2 \/ nav2' = "none",
         what = "nav2" => nav2' = "none" \/ cleanup_failed'
  PROVE  Accepted' => Earned' /\ TakenDown' /\ mission_step'.at = "takes"
<1> SUFFICES ASSUME Accepted' PROVE Earned' /\ TakenDown' /\ mission_step'.at = "takes"
  OBVIOUS
<1>1. mission_step.at = "takes" /\ mission_step'.at = "takes"
  BY TakeNextGoesOn, StepFields DEF TakesAt
<1>2. Earned /\ TakenDown
  BY <1>1 DEF Accepted, WholeInv
<1>3. Earned'
  BY <1>2 DEF Earned, MeasuredPass
<1>4. \A w \in Owners : TakingAfter(w)' => w \notin owners'
  <2> SUFFICES ASSUME NEW w \in Owners, TakingAfter(w)' PROVE w \notin owners'
    OBVIOUS
  <2>1. w \in TakeSet
    BY DEF Owners, Chain, Pair, TakeSet
  <2>2. TakingAfter(w) \/ w = what
    BY <2>1, TakenThen
  <2> QED
    BY <1>2, <2>2 DEF TakenDown
<1>5. TakingAfter("record")' => ~boot_record' \/ cleanup_failed'
  <2>1. TakingAfter("record")' => TakingAfter("record") \/ what = "record"
    BY TakenThen DEF TakeSet
  <2> QED
    BY <1>2, <2>1 DEF TakenDown
<1>6. TakingAfter("nav2")' => nav2' = "none" \/ cleanup_failed'
  <2>1. TakingAfter("nav2")' => TakingAfter("nav2") \/ what = "nav2"
    BY TakenThen DEF TakeSet
  <2> QED
    BY <1>2, <2>1 DEF TakenDown
<1> QED
  BY <1>1, <1>2, <1>3, <1>4, <1>5, <1>6 DEF TakenDown

LEMMA TakeStepWhole == ASSUME WholeInv, TakeStep, StepOK PROVE
    Accepted' => /\ Earned'
                 /\ mission_step'.at = "takes" => TakenDown'
                 /\ mission_step'.at = "closed" => LeftNothing'
<1> DEFINE Goal == Accepted' => Earned' /\ TakenDown' /\ mission_step'.at = "takes"
<1>0. boot_record \in BOOLEAN /\ cleanup_failed \in BOOLEAN
  BY DEF WholeInv
<1>1. ASSUME NEW c \in Owners, TakeOwner(c) PROVE Goal
  <2>1. /\ c \in TakeSet \ {"exit"} /\ TakesAt(c) /\ TakeNext /\ c \notin {"record", "nav2"}
    BY <1>1 DEF TakeOwner, Owners, Chain, Pair, TakeSet
  <2>2. /\ UNCHANGED <<mission_status, mission, held, results, permits, cleanup_failed,
                       boot_record, nav2>>
        /\ owners' = owners \ (held \cap {c})
    BY <1>1 DEF TakeOwner, world_vars, frame_vars
  <2>3. \A d \in Pair : d \notin owners => exits'[d] = exits[d]
    BY <1>1 DEF TakeOwner, Pair
  <2> QED
    BY <2>1, <2>2, <2>3, TakeWhole
<1>2. ASSUME TakeGuard PROVE Goal
  <2>1. /\ "guard" \in TakeSet \ {"exit"} /\ TakesAt("guard") /\ TakeNext
    BY <1>2 DEF TakeGuard, TakeSet
  <2>2. /\ UNCHANGED <<mission_status, mission, held, results, permits, boot_record, nav2>>
        /\ owners' = owners \ (held \cap {"guard"})
        /\ cleanup_failed => cleanup_failed'
    BY <1>0, <1>2 DEF TakeGuard, world_vars, frame_vars, Blames
  <2>3. \A d \in Pair : d \notin owners => exits'[d] = exits[d]
    BY <1>2 DEF TakeGuard, Pair
  <2> QED
    BY <2>1, <2>2, <2>3, TakeWhole
<1>3. ASSUME TakeRecorded PROVE Goal
  <2>1. /\ "shutdown" \in TakeSet \ {"exit"} /\ TakesAt("shutdown") /\ TakeNext
    BY <1>3 DEF TakeRecorded, TakeSet
  <2>2. /\ UNCHANGED <<mission_status, mission, held, results, permits, nav2, owners, exits>>
        /\ cleanup_failed => cleanup_failed'
        /\ boot_record' => boot_record
    BY <1>0, <1>3 DEF TakeRecorded, child_vars, frame_vars, Blames
  <2>3. ~("shutdown" \in owners)
    BY DEF WholeInv, Owners, Chain, Pair
  <2> QED
    BY <2>1, <2>2, <2>3, TakeWhole
<1>4. ASSUME TakeBoot PROVE Goal
  <2>1. /\ "boot" \in TakeSet \ {"exit"} /\ TakesAt("boot") /\ TakeNext
    BY <1>4 DEF TakeBoot, TakeSet
  <2>2. /\ UNCHANGED <<mission_status, mission, held, results, permits, nav2, exits>>
        /\ cleanup_failed => cleanup_failed'
        /\ boot_record' => boot_record
        /\ owners' = owners \ (held \cap {"boot"})
    BY <1>0, <1>4 DEF TakeBoot, frame_vars, Blames
  <2> QED
    BY <2>1, <2>2, TakeWhole
<1>5. ASSUME TakeRecord PROVE Goal
  <2>1. /\ "record" \in TakeSet \ {"exit"} /\ TakesAt("record") /\ TakeNext
    BY <1>5 DEF TakeRecord, TakeSet
  <2>2. /\ UNCHANGED <<mission_status, mission, held, results, permits, nav2, exits, owners,
                       boot_record>>
        /\ cleanup_failed => cleanup_failed'
        /\ boot_record => cleanup_failed'
    BY <1>0, <1>5 DEF TakeRecord, frame_vars, world_vars, child_vars, Blames
  <2>3. ~("record" \in owners)
    BY DEF WholeInv, Owners, Chain, Pair
  <2> QED
    BY <2>1, <2>2, <2>3, TakeWhole
<1>6. ASSUME TakeContainer PROVE Goal
  <2>1. /\ "nav2" \in TakeSet \ {"exit"} /\ TakesAt("nav2") /\ TakeNext
    BY <1>6 DEF TakeContainer, TakeSet
  <2>2. /\ UNCHANGED <<mission_status, mission, held, results, permits, exits, owners,
                       boot_record>>
        /\ cleanup_failed => cleanup_failed'
        /\ nav2' = nav2 \/ nav2' = "none"
    BY <1>0, <1>6 DEF TakeContainer, frame_vars, child_vars, Blames
  <2>3. nav2' = "none" \/ cleanup_failed'
    BY <1>6 DEF TakeContainer, Blames
  <2>4. ~("nav2" \in owners)
    BY DEF WholeInv, Owners, Chain, Pair
  <2> QED
    BY <2>1, <2>2, <2>3, <2>4, TakeWhole
<1>7. ASSUME ExitMission, Accepted'
      PROVE  Earned' /\ LeftNothing' /\ mission_step'.at = "closed"
  <2>1. /\ mission_step.at = "takes" /\ mission_step.child = "exit"
        /\ mission_step'.at = "closed"
    BY <1>7, StepFields DEF ExitMission, TakesAt
  <2>2. UNCHANGED <<owners, exits, boot_record, nav2, results, permits, mission>>
    BY <1>7 DEF ExitMission, child_vars, world_vars, frame_vars
  <2>3. mission_status = "ok" /\ ~cleanup_failed
    BY <1>7 DEF ExitMission, FinalStatus, Accepted
  <2>4. Earned /\ TakenDown
    BY <1>7, <2>1, <2>2, <2>3 DEF Accepted, WholeInv
  <2>5. \A w \in Owners \cup {"record", "nav2"} : TakingAfter(w)
    BY <2>1, TakeIndices DEF TakingAfter, Owners, Chain, Pair
  <2>6. owners \subseteq Owners
    BY DEF WholeInv
  <2>7. LeftNothing
    BY <2>3, <2>4, <2>5, <2>6 DEF TakenDown, LeftNothing
  <2> QED
    BY <2>1, <2>2, <2>4, <2>7 DEF Earned, LeftNothing, MeasuredPass
<1>8. Goal \/ ExitMission
  BY <1>1, <1>2, <1>3, <1>4, <1>5, <1>6 DEF TakeStep
<1> QED
  BY <1>7, <1>8

\* The script only leaves with success from a stack that served, or with a result.
LEMMA ScriptAccepts ==
  ASSUME StepOK, ScriptStep, mission_step'.at \in {"takes", "closed"}, mission_status' = "ok"
  PROVE  mission_step' = Takes("dispatch") /\ (Serve \/ AcceptResult)
<1> USE StepFields DEF GoOn, EndMission
<1>1. ~SpawnOwner
  BY DEF SpawnOwner
<1>2. ~HoldOwner
  BY DEF HoldOwner, AfterStart
<1>3. ~(AwaitReady \/ AwaitGraph \/ PermitGate \/ PreGuardReceipt \/ LiveGoal
        \/ PostGuardReceipt \/ LastLook)
  BY DEF AwaitReady, AwaitGraph, PermitGate, PreGuardReceipt, LiveGoal,
     PostGuardReceipt, LastLook
<1>4. ~(BindContainer \/ WaitFirst \/ Converge \/ SignalMission)
  BY DEF BindContainer, WaitFirst, Converge, SignalMission
<1>5. Serve \/ AcceptResult => mission_step' = Takes("dispatch")
  BY DEF Serve, AcceptResult
<1> QED
  BY <1>1, <1>2, <1>3, <1>4, <1>5 DEF ScriptStep

LEMMA ScriptWhole ==
  ASSUME StepOK, HeldInv, WholeInv, ScriptStep, Accepted'
  PROVE  Earned' /\ TakenDown' /\ mission_step'.at = "takes"
<1>1. UNCHANGED <<exits, mission, permits, results, boot_record, nav2>>
  BY ScriptFrame DEF world_vars, frame_vars
<1>2. mission_step' = Takes("dispatch") /\ (Serve \/ AcceptResult)
  BY ScriptAccepts DEF Accepted
<1>3. ~Serve
  <2>1. mission # "persistent"
    BY <1>1 DEF Accepted
  <2> QED
    BY <2>1, StepFields DEF Serve, HeldInv
<1>4. AcceptResult
  BY <1>2, <1>3
<1>5. mission_step.at = "accept" /\ UNCHANGED <<owners, held>>
  BY <1>4, StepFields DEF AcceptResult, ScriptOnly, child_vars
<1>6. (mission = "permits" => permits["goal"] = "spent") /\ MeasuredPass
  BY <1>4 DEF AcceptResult, EndMission, Accepted
<1>7. Earned' /\ owners' \subseteq held'
  BY <1>1, <1>5, <1>6 DEF HeldInv, Earned, MeasuredPass
<1>8. \A w \in Owners \cup {"record", "nav2"} : ~TakingAfter(w)'
  <2>1. mission_step'.child = "dispatch"
    BY <1>2, StepFields
  <2> QED
    BY <2>1, TakeIndices DEF TakingAfter, Owners, Chain, Pair
<1> QED
  BY <1>2, <1>7, <1>8, StepFields DEF TakenDown

\* A child that has ended writes nothing, and starts nothing.
LEMMA ChildWhole ==
  ASSUME StepOK, PermitInv, WholeInv, ChildStep, Accepted'
  PROVE  /\ Earned'
         /\ mission_step'.at = "takes" => TakenDown'
         /\ mission_step'.at = "closed" => LeftNothing'
<1>1. /\ UNCHANGED <<mission_step, held, mission_status, cleanup_failed, mission>>
      /\ owners' \subseteq owners
  BY ChildFrame DEF script_vars
<1>2. /\ Earned /\ mission_step.at \in {"takes", "closed"}
      /\ mission_step.at = "takes" => TakenDown
      /\ mission_step.at = "closed" => LeftNothing
  BY <1>1 DEF Accepted, WholeInv
<1>3. "guard" \notin owners /\ "dispatch" \notin owners
  BY <1>2 DEF Earned, Pair
<1>4. UNCHANGED <<exits, results>>
  BY <1>3 DEF ChildStep, ChainReady, OwnerEnds, OrphanEnds, BootRecords, SpawnChassis,
     ContainerChanges, BootEnds, GuardEnds, DispatchEnds, ActionShows, SpendChassis,
     ChassisStops, TakeGoal, child_vars, world_vars
<1>5. permits["goal"] = "spent" => permits'["goal"] = "spent"
  BY DEF PermitInv, ChildStep, ChainReady, OwnerEnds, OrphanEnds, BootRecords,
     SpawnChassis, ContainerChanges, BootEnds, GuardEnds, DispatchEnds, ActionShows,
     SpendChassis, ChassisStops, TakeGoal, ReadPermit, RenamePermit, MissesPermit,
     world_vars, Roles
<1>6. Earned'
  BY <1>1, <1>2, <1>4, <1>5 DEF Earned, MeasuredPass
<1>7. "boot" \notin owners => (boot_record' => boot_record)
  BY DEF WholeInv, ChildStep, ChainReady, OwnerEnds, OrphanEnds, BootRecords,
     SpawnChassis, ContainerChanges, BootEnds, GuardEnds, DispatchEnds, ActionShows,
     SpendChassis, ChassisStops, TakeGoal, world_vars
<1>8. "boot" \notin owners \/ mission_step = At("closed") => (nav2 = "none" => nav2' = "none")
  BY StepFields DEF ChildStep, ChainReady, OwnerEnds, OrphanEnds, BootRecords,
     SpawnChassis, ContainerChanges, BootEnds, GuardEnds, DispatchEnds, ActionShows,
     SpendChassis, ChassisStops, TakeGoal, BootOf, world_vars
<1>9. mission_step.at = "closed" => LeftNothing'
  BY <1>1, <1>2, <1>7, <1>8 DEF LeftNothing, StepOK
<1>10. ASSUME mission_step.at = "takes" PROVE TakenDown'
  <2>1. TakenDown
    BY <1>2, <1>10
  <2>2. \A w : TakingAfter(w)' = TakingAfter(w)
    BY <1>1 DEF TakingAfter
  <2>3. TakingAfter("record") \/ TakingAfter("nav2") => TakingAfter("boot")
    <3>1. mission_step.child \in TakeSet
      BY <1>10 DEF StepOK
    <3>2. TakeIndex(mission_step.child) \in 1..12
      BY <3>1, TakeIndices DEF TakeSet
    <3> QED
      BY <3>2, TakeIndices DEF TakingAfter
  <2>4. TakingAfter("record") \/ TakingAfter("nav2") => "boot" \notin owners
    BY <2>1, <2>3 DEF TakenDown, Owners
  <2> QED
    BY <1>1, <1>7, <1>8, <2>1, <2>2, <2>4 DEF TakenDown
<1> QED
  BY <1>1, <1>6, <1>9, <1>10

LEMMA WholeNext ==
  ASSUME StepOK, PermitInv, HeldInv, WholeInv, [MissionNext]_mission_vars
  PROVE  WholeInv'
<1> DEFINE Goal == Accepted' => /\ Earned'
                                /\ mission_step'.at = "takes" => TakenDown'
                                /\ mission_step'.at = "closed" => LeftNothing'
<1>1. ASSUME StartMission PROVE Goal
  BY <1>1, StepFields DEF StartMission, Accepted
<1>2. ASSUME KillMission PROVE Goal
  BY <1>2 DEF KillMission, Accepted
<1>3. ASSUME SweepContainer \/ UNCHANGED mission_vars PROVE Goal
  <2>1. UNCHANGED <<mission_step, mission_status, mission, owners, exits, results, permits,
                    held, cleanup_failed, boot_record>>
    BY <1>3 DEF SweepContainer, mission_vars, script_vars, child_vars, frame_vars
  <2>2. nav2' = nav2 \/ nav2' = "none"
    BY <1>3 DEF SweepContainer, mission_vars
  <2>3. Accepted' => Accepted
    BY <2>1 DEF Accepted
  <2>4. \A w : TakingAfter(w)' = TakingAfter(w)
    BY <2>1 DEF TakingAfter
  <2>5. Earned => Earned'
    BY <2>1 DEF Earned, MeasuredPass
  <2>6. (TakenDown => TakenDown') /\ (LeftNothing => LeftNothing')
    BY <2>1, <2>2, <2>4 DEF TakenDown, LeftNothing
  <2> QED
    BY <2>1, <2>3, <2>5, <2>6 DEF WholeInv
<1>4. ASSUME ScriptStep PROVE Goal
  BY <1>4, ScriptWhole
<1>5. ASSUME TakeStep PROVE Goal
  BY <1>5, TakeStepWhole
<1>6. ASSUME ChildStep PROVE Goal
  BY <1>6, ChildWhole
<1>7. Goal
  BY <1>1, <1>2, <1>3, <1>4, <1>5, <1>6, MissionSteps
<1> QED
  BY <1>7, WholeTypes DEF WholeInv

\* For any number of sessions, killed and started again, each of the two permits is
\* spent at most once, and the goal's only after the chassis'.
THEOREM PermitSpentOnce == MissionSpec => []OneGoalPerPermit
<1>1. MissionInit => StepOK /\ PermitInv
  BY StepInit, PermitInit
<1>2. StepOK /\ PermitInv /\ [MissionNext]_mission_vars => StepOK' /\ PermitInv'
  BY StepNext, PermitNext
<1>3. PermitInv => OneGoalPerPermit
  BY DEF PermitInv, OneGoalPerPermit, Roles
<1> QED
  BY <1>1, <1>2, <1>3, PTL DEF MissionSpec

\* For any number of sessions, a goal's session that ends with status 0 ended well in
\* both of its parts, with a measured result, and has left nothing of itself.
THEOREM SuccessLeavesNothing == MissionSpec => []SuccessIsWhole
<1> DEFINE Inv == StepOK /\ PermitInv /\ HeldInv /\ WholeInv
<1>1. MissionInit => Inv
  BY StepInit, PermitInit, HeldInit, WholeInit
<1>2. Inv /\ [MissionNext]_mission_vars => Inv'
  BY StepNext, PermitNext, HeldNext, WholeNext
<1>3. Inv => SuccessIsWhole
  <2> SUFFICES ASSUME Inv, mission_step = At("closed"), mission_status = "ok",
                      mission # "persistent"
               PROVE  /\ \A c \in Pair : exits[c] = "ok"
                      /\ MeasuredPass
                      /\ owners = {} /\ "own" \notin chassis /\ nav2 = "none"
                      /\ mission = "permits" => \A r \in Roles : permits[r] = "spent"
    BY DEF SuccessIsWhole
  <2>1. Earned /\ LeftNothing
    BY StepFields DEF WholeInv, Accepted
  <2>2. "own" \notin chassis
    BY <2>1 DEF LeftNothing, HeldInv
  <2>3. mission = "permits" => \A r \in Roles : permits[r] = "spent"
    BY <2>1 DEF Earned, PermitInv, Roles
  <2> QED
    BY <2>1, <2>2, <2>3 DEF Earned, LeftNothing
<1> QED
  BY <1>1, <1>2, <1>3, PTL DEF MissionSpec

-----------------------------------------------------------------------------
(* A session without motion: where its script is *)

LEMMA LaunchFields ==
  /\ \A c : Fork(c).at = "fork" /\ Fork(c).child = c
  /\ \A c : Record(c).at = "record" /\ Record(c).child = c
  /\ \A c : Wait(c).at = "wait" /\ Wait(c).child = c
  /\ Supervising.at = "supervise" /\ Gone.at = "gone"
  /\ \A n : Clean(n).at = "clean" /\ Clean(n).child = TakeDown[n]
  BY DEF Fork, Record, Wait, Supervising, Gone, Clean

DownSet == {"stack", "container", "relay", "stamp", "identity", "pointer"}

LEMMA DownIndices ==
  /\ Index("stack") = 1 /\ Index("container") = 2 /\ Index("relay") = 3
  /\ Index("stamp") = 4 /\ Index("identity") = 5 /\ Index("pointer") = 6
<1>1. Len(TakeDown) = 6
  BY DEF TakeDown
<1>2. \A n \in 1..6 :
        \/ (n = 1 /\ TakeDown[n] = "stack") \/ (n = 2 /\ TakeDown[n] = "container")
        \/ (n = 3 /\ TakeDown[n] = "relay") \/ (n = 4 /\ TakeDown[n] = "stamp")
        \/ (n = 5 /\ TakeDown[n] = "identity") \/ (n = 6 /\ TakeDown[n] = "pointer")
  BY DEF TakeDown
<1> QED
  BY <1>1, <1>2 DEF Index

\* What the cleanup of the session is at comes before w, or is w.
Before(w) == launch_step.at = "clean" /\ Index(launch_step.child) > Index(w)

LEMMA CleanGoesOn ==
  ASSUME launch_step.at = "clean", launch_step.child \in DownSet, CleanNext
  PROVE  /\ \/ launch_step.child = "pointer" /\ launch_step' = Gone
            \/ /\ launch_step.child # "pointer"
               /\ launch_step'.at = "clean" /\ launch_step'.child \in DownSet
         /\ \A w \in DownSet : Before(w)' => Before(w) \/ w = launch_step.child
<1> DEFINE c == launch_step.child
<1>1. CASE c = "pointer"
  BY <1>1, LaunchFields DEF CleanNext, Before
<1>2. CASE c # "pointer"
  <2>1. launch_step' = Clean(Index(c) + 1)
    BY <1>2 DEF CleanNext
  <2>2. launch_step'.at = "clean" /\ launch_step'.child = TakeDown[Index(c) + 1]
    BY <2>1, LaunchFields
  <2>3. /\ TakeDown[2] = "container" /\ TakeDown[3] = "relay" /\ TakeDown[4] = "stamp"
        /\ TakeDown[5] = "identity" /\ TakeDown[6] = "pointer"
    BY DEF TakeDown
  <2> HIDE DEF c
  <2>4. c \in DownSet \ {"pointer"}
    BY <1>2 DEF c
  <2>5. TakeDown[Index(c) + 1] \in DownSet /\ Index(TakeDown[Index(c) + 1]) = Index(c) + 1
    <3> DEFINE k == Index(c)
    <3>1. k = 1 \/ k = 2 \/ k = 3 \/ k = 4 \/ k = 5
      BY <2>4, DownIndices DEF DownSet
    <3> HIDE DEF k
    <3>2. TakeDown[k + 1] \in DownSet /\ Index(TakeDown[k + 1]) = k + 1
      BY <2>3, <3>1, DownIndices DEF DownSet
    <3> QED
      BY <3>2 DEF k
  <2>6. ASSUME NEW w \in DownSet, Before(w)' PROVE Before(w) \/ w = c
    <3>1. Index(w) \in 1..6 /\ Index(c) \in 1..6
      BY <2>4, DownIndices DEF DownSet
    <3>2. Index(w) <= Index(c)
      BY <2>2, <2>5, <2>6, <3>1 DEF Before
    <3>3. Index(w) = Index(c) => w = c
      BY <2>4, DownIndices DEF DownSet
    <3> QED
      BY <3>1, <3>2, <3>3 DEF Before, c
  <2> QED
    BY <2>2, <2>4, <2>5, <2>6 DEF c
<1> QED
  BY <1>1, <1>2

LaunchOK ==
  /\ launch_step.at \in {"fork", "record", "wait", "boundary", "supervise", "clean", "gone"}
  /\ launch_step.at \in {"fork", "record"} => launch_step.child \in Children
  /\ launch_step.at = "wait" => launch_step.child \in Children \ {"stack"}
  /\ launch_step.at = "boundary" => launch_step.child \in Children \ {"identity"}
  /\ launch_step.at = "clean" => launch_step.child \in DownSet
  /\ launch_step.at = "gone" => launch_step = Gone

\* The relay has not been started yet.
NotYet ==
  \/ launch_step.at = "fork" /\ launch_step.child # "stack"
  \/ launch_step.at \in {"record", "wait"} /\ launch_step.child \in Parents
  \/ launch_step.at = "boundary" /\ launch_step.child # "stack"

\* The children alone, or the files of a session: the script does not move.
StaysStep ==
  \/ \E c \in Children : ChildEnds(c) \/ ParentFaults(c) \/ ParentFaultShows(c)
  \/ \E c \in Children : TerminateChild(c)
  \/ StampLocks \/ \E graph \in Graphs : CheckIdentity(graph)

CleanStep ==
  \/ \E c \in Children : CleanedChild(c)
  \/ CleanContainer \/ CleanPointer

RoundStep ==
  \/ RecordChild \/ WaitRound \/ Boundary
  \/ \E c \in Children : ReapChild(c)

LEMMA LaunchSteps ==
  [LaunchNext]_launch_vars =>
    \/ ForkChild \/ RoundStep \/ TakeSignal \/ KillLaunch
    \/ CleanStep \/ StaysStep \/ CloudStep \/ UNCHANGED launch_vars
  BY DEF LaunchNext, RoundStep, CleanStep, StaysStep, SessionOver

LEMMA StaysFrame ==
  StaysStep => /\ UNCHANGED <<launch_step, recorded, pointer, killed, unrecorded, late_clouds>>
               /\ service_alive' \subseteq service_alive
               /\ fault_files \subseteq fault_files'
               /\ \/ UNCHANGED <<cloud_step, rewritten>>
                  \/ cloud_step' = "off"
<1>1. ASSUME NEW c \in Children, ChildEnds(c)
      PROVE  /\ UNCHANGED <<launch_own, late_clouds, fault_files>>
             /\ service_alive' \subseteq service_alive
             /\ UNCHANGED <<cloud_step, rewritten>> \/ cloud_step' = "off"
  BY <1>1 DEF ChildEnds, KeepsScript, RelayIsGone, status_files, relay_own, cloud_history
<1>2. ASSUME NEW c \in Children, ParentFaults(c) \/ ParentFaultShows(c)
      PROVE  /\ UNCHANGED <<launch_own, late_clouds, cloud_step, rewritten>>
             /\ service_alive' \subseteq service_alive /\ fault_files \subseteq fault_files'
  BY <1>2 DEF ParentFaults, ParentFaultShows, KeepsScript, relay_own, cloud_history
<1>3. ASSUME NEW c \in Children, TerminateChild(c)
      PROVE  /\ UNCHANGED <<launch_step, recorded, pointer, killed, unrecorded, late_clouds,
                            cloud_step, rewritten, fault_files, service_alive>>
  BY <1>3 DEF TerminateChild, relay_own, cloud_history, status_files
<1>4. ASSUME StampLocks \/ \E graph \in Graphs : CheckIdentity(graph)
      PROVE  /\ UNCHANGED <<launch_own, late_clouds, cloud_step, rewritten, fault_files,
                            service_alive>>
  BY <1>4 DEF StampLocks, CheckIdentity, KeepsScript, relay_own, cloud_history
<1> QED
  BY <1>1, <1>2, <1>3, <1>4 DEF StaysStep, launch_own

LEMMA CleanFrame ==
  CleanStep => /\ UNCHANGED <<cloud_vars, recorded, killed, unrecorded>>
               /\ launch_step.at = "clean" /\ CleanNext
               /\ launch_step.child # "pointer" => pointer' = pointer
               /\ launch_step.child \in Children \cap recorded => launch_step.child \notin service_alive
  BY DEF CleanStep, CleanedChild, CleanContainer, CleanPointer, CleaningUp, InCleanup,
     KeepsSession, relay_own, cloud_vars, cloud_history, status_files, Children

\* A round of the script: where it goes, and what it forgets of who has ended.
LEMMA RoundFrame ==
  ASSUME LaunchOK, RoundStep
  PROVE  /\ UNCHANGED <<service_alive, status_files, cloud_step, cloud_stop, rewritten,
                        late_clouds, killed, pointer, unrecorded>>
         /\ LaunchOK' /\ (NotYet' => NotYet)
         /\ launch_step.at \notin {"clean", "gone"}
         /\ launch_step'.at \notin {"record", "gone"}
         /\ \A w \in DownSet : ~Before(w)'
         /\ \/ launch_step.at # "record" /\ recorded \cap service_alive \subseteq recorded'
            \/ launch_step.at = "record" /\ recorded' = recorded \cup {launch_step.child}
<1> USE LaunchFields DEF KeepsSession, relay_own, cloud_history, LaunchOK, Children,
        NotYet, Parents
<1>0. Clean(1).at = "clean" /\ Clean(1).child = "stack"
  BY DEF TakeDown
<1>1. ASSUME launch_step'.at = "clean" => launch_step'.child = "stack"
      PROVE  \A w \in DownSet : ~Before(w)'
  BY <1>1, DownIndices DEF Before, DownSet
<1>2. CASE RecordChild
  <2>1. /\ launch_step.at = "record"
        /\ \/ launch_step.child = "stack" /\ launch_step'.at = "supervise"
           \/ /\ launch_step.child # "stack" /\ launch_step'.at = "wait"
              /\ launch_step'.child = launch_step.child
    BY <1>2 DEF RecordChild
  <2> QED
    BY <1>1, <1>2, <2>1 DEF RecordChild
<1>3. CASE WaitRound
  <2>1. /\ launch_step.at = "wait"
        /\ \/ launch_step' = Clean(1)
           \/ /\ launch_step'.at = "boundary"
              /\ launch_step'.child = NextChild(launch_step.child)
    BY <1>3 DEF WaitRound, Leave
  <2>2. /\ NextChild(launch_step.child) \in {"stamp", "relay", "stack"}
        /\ NextChild(launch_step.child) # "stack" => launch_step.child \in Parents
    BY DEF NextChild
  <2> QED
    BY <1>0, <1>1, <1>3, <2>1, <2>2 DEF WaitRound, DownSet
<1>4. CASE Boundary
  <2>1. /\ launch_step.at = "boundary"
        /\ \/ launch_step' = Clean(1)
           \/ launch_step'.at = "fork" /\ launch_step'.child = launch_step.child
    BY <1>4 DEF Boundary, Leave
  <2> QED
    BY <1>0, <1>1, <1>4, <2>1 DEF Boundary, DownSet
<1>5. ASSUME NEW c \in Children, ReapChild(c)
      PROVE  /\ UNCHANGED <<service_alive, status_files, cloud_step, cloud_stop, rewritten,
                            late_clouds, killed, pointer, unrecorded>>
             /\ launch_step.at = "supervise"
             /\ launch_step' = Clean(1) \/ launch_step' = launch_step
             /\ recorded \cap service_alive \subseteq recorded'
  BY <1>5 DEF ReapChild, Leave, Forgets
<1>6. CASE \E c \in Children : ReapChild(c)
  BY <1>0, <1>1, <1>5, <1>6 DEF DownSet
<1> QED
  BY <1>2, <1>3, <1>4, <1>6 DEF RoundStep

LEMMA ForkFrame ==
  ASSUME LaunchOK, ForkChild
  PROVE  LET c == launch_step.child
         IN  /\ launch_step.at = "fork" /\ c \in Children
             /\ launch_step'.at = "record" /\ launch_step'.child = c
             /\ service_alive' = service_alive \cup {c}
             /\ cloud_step' = IF c = "relay" THEN "loading" ELSE cloud_step
             /\ UNCHANGED <<status_files, rewritten, late_clouds, recorded, killed, pointer,
                            unrecorded>>
  BY LaunchFields DEF ForkChild, LaunchOK, relay_own, cloud_history

LEMMA LaunchOKNext == LaunchOK /\ [LaunchNext]_launch_vars => LaunchOK'
<1> SUFFICES ASSUME LaunchOK, [LaunchNext]_launch_vars PROVE LaunchOK'
  OBVIOUS
<1>0. Clean(1).at = "clean" /\ Clean(1).child = "stack"
  BY LaunchFields DEF TakeDown
<1>1. ASSUME launch_step' = launch_step PROVE LaunchOK'
  BY <1>1 DEF LaunchOK
<1>2. CASE ForkChild
  BY <1>2, ForkFrame DEF LaunchOK
<1>3. CASE TakeSignal
  <2>1. launch_step' = Clean(1) \/ launch_step' = Gone
    BY <1>3 DEF TakeSignal, Leave
  <2> QED
    BY <1>0, <2>1, LaunchFields DEF LaunchOK, DownSet
<1>4. CASE KillLaunch
  BY <1>4, LaunchFields DEF KillLaunch, LaunchOK
<1>5. CASE CleanStep
  <2>1. \/ launch_step' = Gone
        \/ launch_step'.at = "clean" /\ launch_step'.child \in DownSet
    BY <1>5, CleanFrame, CleanGoesOn DEF LaunchOK
  <2> QED
    BY <2>1, LaunchFields DEF LaunchOK
<1>6. StaysStep \/ CloudStep \/ UNCHANGED launch_vars => launch_step' = launch_step
  BY StaysFrame DEF CloudStep, KeepsScript, launch_own, launch_vars
<1> QED
  BY <1>1, <1>2, <1>3, <1>4, <1>5, <1>6, LaunchSteps, RoundFrame

-----------------------------------------------------------------------------
(* The clouds of a session without motion *)

\* A parent of the relay that is gone is not started again, and a file that was
\* written is not taken back: the contract stays broken while the relay runs.
LateInv ==
  /\ late_clouds \in {0, 1}
  /\ NotYet => cloud_step = "off" /\ late_clouds = 0
  /\ late_clouds = 1 => cloud_step = "off" \/ (cloud_step = "spinning" /\ ContractIsBroken)

\* The relay's own step.
LEMMA RelayLate ==
  ASSUME LateInv, CloudRelayStep \/ ContractChanges
  PROVE  /\ cloud_step # "off"
         /\ late_clouds' \in {0, 1}
         /\ late_clouds' = 1 => \/ cloud_step' = "off"
                                \/ cloud_step' = "spinning" /\ ContractIsBroken'
<1> USE DEF LateInv, CloudGoes, LatchCloudFault, RelayEnds, RelayIsGone, cloud_history,
        cloud_gates, status_files
<1>1. ContractIsBroken <=> ~ContractHolds
  BY DEF ContractIsBroken, ContractHolds, ParentsLive
<1>2. CASE ContractChanges
  BY <1>2 DEF ContractChanges, ContractIsBroken
<1>3. CASE LoadContract
  BY <1>3 DEF LoadContract
<1>4. CASE StartRelay
  BY <1>4 DEF StartRelay
<1>5. CASE PollGuard \/ ReceiveCloud
  BY <1>1, <1>5 DEF PollGuard, ReceiveCloud
<1>6. CASE ClocksFail \/ RecheckContract
  BY <1>6 DEF ClocksFail, RecheckContract
<1>7. ASSUME NEW verdict \in CloudVerdicts, LookAtCloud(verdict)
      PROVE  cloud_step = "looking" /\ late_clouds' = late_clouds
  BY <1>7 DEF LookAtCloud, Dropped
<1>8. ASSUME NEW verdict \in CloudVerdicts, ReleaseCloud(verdict)
      PROVE  /\ cloud_step = "releasing"
             /\ \/ late_clouds' = late_clouds
                \/ /\ late_clouds' = late_clouds + 1
                   /\ cloud_step' = "spinning" /\ ContractIsBroken
                   /\ UNCHANGED <<service_alive, fault_files, rewritten>>
  BY <1>8 DEF ReleaseCloud
<1>9. UNCHANGED <<service_alive, fault_files, rewritten>>
        => ContractIsBroken' = ContractIsBroken
  BY DEF ContractIsBroken
<1> QED
  BY <1>2, <1>3, <1>4, <1>5, <1>6, <1>7, <1>8, <1>9 DEF CloudRelayStep

LEMMA LateNext ==
  ASSUME LaunchOK, LateInv, [LaunchNext]_launch_vars
  PROVE  LateInv'
<1>1. ASSUME NotYet' => NotYet, late_clouds' = late_clouds,
             UNCHANGED <<cloud_step, rewritten>> \/ cloud_step' = "off",
             service_alive' \cap Parents \subseteq service_alive,
             fault_files \subseteq fault_files'
      PROVE  LateInv'
  <2>1. cloud_step' = cloud_step /\ rewritten' = rewritten /\ ContractIsBroken
          => ContractIsBroken'
    BY <1>1 DEF ContractIsBroken
  <2>2. NotYet' => cloud_step' = "off" /\ late_clouds' = 0
    BY <1>1 DEF LateInv
  <2>3. late_clouds' = 1 =>
          cloud_step' = "off" \/ (cloud_step' = "spinning" /\ ContractIsBroken')
    BY <1>1, <2>1 DEF LateInv
  <2> QED
    BY <1>1, <2>2, <2>3 DEF LateInv
<1>2. CASE ForkChild
  <2> DEFINE c == launch_step.child
  <2>1. /\ launch_step.at = "fork" /\ c \in Children
        /\ launch_step'.at = "record" /\ launch_step'.child = c
        /\ service_alive' = service_alive \cup {c}
        /\ cloud_step' = IF c = "relay" THEN "loading" ELSE cloud_step
        /\ UNCHANGED <<status_files, rewritten, late_clouds>>
    BY <1>2, ForkFrame
  <2>2. NotYet' => c \in Parents
    BY <2>1 DEF NotYet
  <2>3. c # "stack" => NotYet
    BY <2>1 DEF NotYet
  <2>4. CASE c = "stack"
    BY <1>1, <2>1, <2>2, <2>4 DEF Parents, status_files
  <2>5. CASE c # "stack"
    <3>1. cloud_step = "off" /\ late_clouds' = 0
      BY <2>1, <2>3, <2>5 DEF LateInv
    <3>2. NotYet' => cloud_step' = "off"
      BY <2>1, <2>2, <3>1 DEF Parents
    <3> QED
      BY <3>1, <3>2 DEF LateInv
  <2> QED
    BY <2>4, <2>5
<1>3. CASE TakeSignal \/ KillLaunch
  <2>1. launch_step'.at \in {"clean", "gone"} /\ UNCHANGED cloud_vars
    BY <1>3, LaunchFields DEF TakeSignal, KillLaunch, Leave
  <2> QED
    BY <1>1, <2>1 DEF NotYet, cloud_vars, cloud_history, status_files
<1>4. CASE CleanStep
  <2>1. launch_step'.at \in {"clean", "gone"} /\ UNCHANGED cloud_vars
    BY <1>4, CleanFrame, CleanGoesOn, LaunchFields DEF LaunchOK
  <2> QED
    BY <1>1, <2>1 DEF NotYet, cloud_vars, cloud_history, status_files
<1>5. CASE RoundStep
  BY <1>1, <1>5, RoundFrame DEF status_files
<1>6. CASE StaysStep
  <2>1. NotYet' => NotYet
    BY <1>6, StaysFrame DEF NotYet
  <2> QED
    BY <1>1, <1>6, <2>1, StaysFrame
<1>7. CASE CloudStep
  <2>1. (CloudRelayStep \/ ContractChanges) /\ launch_step' = launch_step
    BY <1>7 DEF CloudStep, KeepsScript, launch_own
  <2>2. NotYet' => cloud_step = "off"
    BY <2>1 DEF NotYet, LateInv
  <2> QED
    BY <2>1, <2>2, RelayLate DEF LateInv
<1>8. CASE UNCHANGED launch_vars
  BY <1>1, <1>8 DEF launch_vars, launch_own, cloud_vars, cloud_history, status_files, NotYet
<1> QED
  BY <1>2, <1>3, <1>4, <1>5, <1>6, <1>7, <1>8, LaunchSteps

-----------------------------------------------------------------------------
(* What a session without motion leaves behind *)

\* The script knows every child that runs, but for the one it has just started; the
\* cleanup leaves none of what it is past, but for one that a signal hid from it; the
\* registration goes last.
LeftInv ==
  /\ service_alive \subseteq Children
  /\ launch_step.at \notin {"record", "clean", "gone"} => service_alive \subseteq recorded
  /\ launch_step.at = "record" => service_alive \subseteq recorded \cup {launch_step.child}
  /\ launch_step.at = "clean" =>
       /\ service_alive \subseteq recorded \cup unrecorded
       /\ \A c \in service_alive : Before(c) => c \in unrecorded
  /\ launch_step.at = "gone" /\ ~killed => service_alive \subseteq unrecorded
  /\ ~pointer => launch_step.at = "gone" /\ service_alive \subseteq unrecorded

LEMMA CloudFrame ==
  CloudStep => UNCHANGED launch_own /\ service_alive' \subseteq service_alive
<1>1. ContractChanges => service_alive' = service_alive
  BY DEF ContractChanges
<1>2. CloudRelayStep => service_alive' \subseteq service_alive
  BY DEF CloudRelayStep, LoadContract, StartRelay, PollGuard, ReceiveCloud, ClocksFail,
     RecheckContract, LookAtCloud, ReleaseCloud, Dropped, CloudGoes, LatchCloudFault,
     RelayEnds
<1> QED
  BY <1>1, <1>2 DEF CloudStep, KeepsScript

LEMMA LeftNext ==
  ASSUME LaunchOK, LeftInv, [LaunchNext]_launch_vars
  PROVE  LeftInv'
<1>1. ASSUME UNCHANGED <<launch_step, recorded, pointer, killed, unrecorded>>,
             service_alive' \subseteq service_alive
      PROVE  LeftInv'
  <2>1. \A c : Before(c)' = Before(c)
    BY <1>1 DEF Before
  <2> QED
    BY <1>1, <2>1 DEF LeftInv
<1>2. CASE ForkChild
  <2>1. /\ launch_step.at = "fork" /\ launch_step'.at = "record"
        /\ launch_step.child \in Children /\ launch_step'.child = launch_step.child
        /\ service_alive' = service_alive \cup {launch_step.child}
        /\ recorded' = recorded /\ pointer' = pointer
    BY <1>2, ForkFrame
  <2> QED
    BY <2>1 DEF LeftInv
<1>3. CASE TakeSignal
  <2>1. /\ launch_step # Gone /\ UNCHANGED <<service_alive, recorded, pointer>>
        /\ \/ launch_step.at # "clean" /\ launch_step' = Clean(1)
           \/ launch_step.at = "clean" /\ launch_step' = Gone /\ killed'
        /\ launch_step.at = "record" => unrecorded' = {launch_step.child}
    BY <1>3 DEF TakeSignal, Leave, InCleanup, cloud_vars
  <2>2. CASE launch_step' = Gone /\ killed'
    BY <2>1, <2>2, LaunchFields DEF LeftInv
  <2>3. CASE launch_step.at # "clean" /\ launch_step' = Clean(1)
    <3>1. launch_step'.at = "clean" /\ launch_step'.child = "stack"
      BY <2>3, LaunchFields DEF TakeDown
    <3>2. \A c \in Children : ~Before(c)'
      BY <3>1, DownIndices DEF Before, Children
    <3>3. launch_step.at # "gone"
      BY <2>1 DEF LaunchOK
    <3> QED
      BY <2>1, <2>3, <3>1, <3>2, <3>3 DEF LeftInv
  <2> QED
    BY <2>1, <2>2, <2>3
<1>4. CASE KillLaunch
  <2>1. /\ launch_step.at # "gone" /\ launch_step'.at = "gone"
        /\ killed' /\ UNCHANGED <<service_alive, pointer>>
    BY <1>4, LaunchFields DEF KillLaunch, cloud_vars, LaunchOK
  <2> QED
    BY <2>1 DEF LeftInv
<1>5. CASE CleanStep
  <2> DEFINE w == launch_step.child
  <2>1. /\ UNCHANGED <<service_alive, recorded, killed, unrecorded>>
        /\ launch_step.at = "clean" /\ w \in DownSet /\ CleanNext
        /\ w # "pointer" => pointer' = pointer
        /\ w \in Children \cap recorded => w \notin service_alive
    BY <1>5, CleanFrame DEF cloud_vars, LaunchOK
  <2>2. w \in service_alive => w \in unrecorded
    BY <2>1 DEF LeftInv
  <2>3. /\ \/ w = "pointer" /\ launch_step' = Gone
           \/ launch_step'.at = "clean"
        /\ \A c \in DownSet : Before(c)' => Before(c) \/ c = w
    BY <2>1, CleanGoesOn
  <2>4. Children \subseteq DownSet
    BY DEF Children, DownSet
  <2>5. w = "pointer" => \A c \in Children : Before(c)
    BY <2>1, DownIndices DEF Before, Children
  <2>6. w = "pointer" => launch_step'.at = "gone"
    BY <2>1, LaunchFields DEF CleanNext
  <2> HIDE DEF w
  <2>7. CASE launch_step'.at = "clean"
    BY <2>1, <2>2, <2>3, <2>4, <2>6, <2>7 DEF LeftInv
  <2>8. CASE w = "pointer" /\ launch_step' = Gone
    <3>1. service_alive \subseteq unrecorded
      BY <2>1, <2>5, <2>8 DEF LeftInv
    <3> QED
      BY <2>1, <2>8, <3>1, LaunchFields DEF LeftInv
  <2> QED
    BY <2>3, <2>7, <2>8
<1>6. CASE RoundStep
  <2>1. /\ UNCHANGED <<service_alive, killed, pointer, unrecorded>>
        /\ launch_step.at \notin {"clean", "gone"}
        /\ launch_step'.at \notin {"record", "gone"}
        /\ \A c \in DownSet : ~Before(c)'
        /\ \/ launch_step.at # "record" /\ recorded \cap service_alive \subseteq recorded'
           \/ launch_step.at = "record" /\ recorded' = recorded \cup {launch_step.child}
    BY <1>6, RoundFrame
  <2>2. service_alive \subseteq recorded'
    BY <2>1 DEF LeftInv
  <2>3. Children \subseteq DownSet
    BY DEF Children, DownSet
  <2> QED
    BY <2>1, <2>2, <2>3 DEF LeftInv
<1>7. CASE StaysStep \/ CloudStep \/ UNCHANGED launch_vars
  <2>1. /\ UNCHANGED <<launch_step, recorded, pointer, killed, unrecorded>>
        /\ service_alive' \subseteq service_alive
    BY <1>7, StaysFrame, CloudFrame DEF launch_vars, launch_own, cloud_vars
  <2> QED
    BY <1>1, <2>1
<1> QED
  BY <1>2, <1>3, <1>4, <1>5, <1>6, <1>7, LaunchSteps

LEMMA LaunchStarts == LaunchInit => LaunchOK /\ LateInv /\ LeftInv
<1> SUFFICES ASSUME LaunchInit PROVE LaunchOK /\ LateInv /\ LeftInv
  OBVIOUS
<1>1. /\ launch_step.at = "fork" /\ launch_step.child = "identity"
      /\ service_alive = {} /\ cloud_step = "off" /\ late_clouds = 0 /\ pointer
  BY LaunchFields DEF LaunchInit, CloudInit
<1> QED
  BY <1>1 DEF LaunchOK, LateInv, LeftInv, Children

\* In a session without motion at most one cloud, the one that was in hand, is
\* published after the contract broke, whichever of its facts broke and when.
THEOREM OnlyTheCloudInHand == LaunchSpec => []AtMostTheCloudInHand
<1>1. LaunchInit => LaunchOK /\ LateInv
  BY LaunchStarts
<1>2. LaunchOK /\ LateInv /\ [LaunchNext]_launch_vars => LaunchOK' /\ LateInv'
  BY LaunchOKNext, LateNext
<1>3. LateInv => AtMostTheCloudInHand
  BY DEF LateInv, AtMostTheCloudInHand
<1> QED
  BY <1>1, <1>2, <1>3, PTL DEF LaunchSpec

\* A session without motion that was not killed, or is no longer registered, leaves no
\* child behind, but for the one that was started in the moment a signal came.
THEOREM CleanupLeavesNothing == LaunchSpec => []NothingIsLeft
<1>1. LaunchInit => LaunchOK /\ LeftInv
  BY LaunchStarts
<1>2. LaunchOK /\ LeftInv /\ [LaunchNext]_launch_vars => LaunchOK' /\ LeftInv'
  BY LaunchOKNext, LeftNext
<1>3. LeftInv => NothingIsLeft
  BY LaunchFields DEF LeftInv, NothingIsLeft
<1> QED
  BY <1>1, <1>2, <1>3, PTL DEF LaunchSpec

-----------------------------------------------------------------------------
(* What is published after a stale cloud                                    *)

\* The gate of a relay without motion counts what the history counts, from the last
\* stale cloud on, and a cloud on its way out has opened it.
GateCounts ==
  /\ DOMAIN recovery = {"active", "fresh"}
  /\ recovery.fresh \in Nat /\ fresh_run \in Nat
  /\ cloud_profile = "nomotion" =>
       /\ recovery.active => fresh_run = recovery.fresh /\ recovery.fresh < FreshSamples
       /\ ~recovery.active => fresh_run = FreshSamples
       /\ cloud_step \in {"rechecking", "releasing"} => ~recovery.active

LEMMA OpenFields ==
  DOMAIN OpenGate = {"active", "fresh"} /\ ~OpenGate.active /\ OpenGate.fresh = 0
  BY DEF OpenGate

LEMMA GateEnds ==
  ASSUME RelayIsGone, cloud_profile' = cloud_profile
  PROVE  GateCounts'
  BY OpenFields, CloudRelayAssumption DEF RelayIsGone, GateCounts

LEMMA GateKept ==
  ASSUME GateCounts, UNCHANGED <<cloud_profile, recovery, fresh_run>>,
         cloud_step' \in {"rechecking", "releasing"} => cloud_step \in {"rechecking", "releasing"}
  PROVE  GateCounts'
  BY DEF GateCounts

LEMMA StaleCloses ==
  ASSUME GateCounts, ObserveStale, cloud_profile' = cloud_profile, cloud_step' = "spinning"
  PROVE  GateCounts'
<1>1. cloud_profile = "nomotion" =>
        DOMAIN recovery' = {"active", "fresh"} /\ recovery'.active /\ recovery'.fresh = 0
  BY DEF ObserveStale
<1>2. cloud_profile # "nomotion" => recovery' = recovery
  BY DEF ObserveStale
<1>3. fresh_run' = 0
  BY DEF ObserveStale
<1> QED
  BY <1>1, <1>2, <1>3, CloudRelayAssumption DEF GateCounts

LEMMA FreshCounts ==
  ASSUME GateCounts, AllowFresh, cloud_profile' = cloud_profile,
         fresh_run' = IF fresh_run = FreshSamples THEN fresh_run ELSE fresh_run + 1,
         \/ cloud_profile = "nomotion" /\ ~GateOpens /\ cloud_step' = "spinning"
         \/ cloud_profile = "motion" \/ GateOpens
  PROVE  GateCounts'
<1> USE CloudRelayAssumption, OpenFields DEF GateCounts
<1>1. CASE cloud_profile = "motion" \/ GateOpens
  <2>1. recovery' = OpenGate
    BY <1>1 DEF AllowFresh
  <2>2. cloud_profile = "nomotion" => fresh_run' = FreshSamples
    BY <1>1 DEF GateOpens
  <2> QED
    BY <2>1, <2>2
<1>2. CASE cloud_profile # "motion" /\ ~GateOpens
  <2>1. /\ DOMAIN recovery' = {"active", "fresh"}
        /\ recovery'.active /\ recovery.active /\ recovery'.fresh = recovery.fresh + 1
    <3>1. recovery.active /\ recovery' = [recovery EXCEPT !.fresh = recovery.fresh + 1]
      BY <1>2 DEF AllowFresh, GateOpens
    <3> QED
      BY <3>1
  <2> QED
    BY <1>2, <2>1 DEF GateOpens
<1> QED
  BY <1>1, <1>2

LEMMA RelayCounts ==
  ASSUME GateCounts, CloudRelayStep \/ ContractChanges
  PROVE  GateCounts'
<1> USE DEF cloud_gates, cloud_history, CloudGoes
<1>1. LatchCloudFault => GateCounts'
  BY GateEnds DEF LatchCloudFault, RelayEnds
<1>2. CASE ContractChanges
  BY <1>2, GateKept DEF ContractChanges
<1>3. CASE LoadContract
  BY <1>3, GateKept, GateEnds DEF LoadContract, RelayEnds
<1>4. CASE StartRelay
  BY <1>1, <1>4, GateKept DEF StartRelay
<1>5. CASE PollGuard
  BY <1>1, <1>5, GateEnds DEF PollGuard, RelayEnds
<1>6. CASE ReceiveCloud
  BY <1>1, <1>6, GateKept DEF ReceiveCloud
<1>7. CASE ClocksFail
  BY <1>1, <1>7 DEF ClocksFail
<1>8. CASE RecheckContract
  BY <1>1, <1>8, GateKept DEF RecheckContract
<1>9. ASSUME NEW verdict \in CloudVerdicts, LookAtCloud(verdict)
      PROVE  GateCounts'
  BY <1>1, <1>9, StaleCloses, FreshCounts DEF LookAtCloud, Dropped
<1>10. ASSUME NEW verdict \in CloudVerdicts, ReleaseCloud(verdict)
       PROVE  GateCounts'
  BY <1>1, <1>10, StaleCloses, GateKept DEF ReleaseCloud, LateStale
<1> QED
  BY <1>2, <1>3, <1>4, <1>5, <1>6, <1>7, <1>8, <1>9, <1>10 DEF CloudRelayStep

LEMMA GateNext ==
  ASSUME GateCounts, [LaunchNext]_launch_vars
  PROVE  GateCounts'
<1> USE DEF cloud_gates, cloud_history, relay_own
<1>1. CASE ForkChild
  BY <1>1, GateKept DEF ForkChild
<1>2. CASE RoundStep
  BY <1>2, GateKept DEF RoundStep, RecordChild, WaitRound, Boundary, ReapChild, KeepsSession
<1>3. CASE TakeSignal \/ KillLaunch
  BY <1>3, GateKept DEF TakeSignal, KillLaunch, cloud_vars
<1>4. CASE CleanStep
  BY <1>4, CleanFrame, GateKept DEF cloud_vars
<1>5. CASE StaysStep
  <2>1. ASSUME NEW c \in Children, ChildEnds(c)
        PROVE  GateCounts'
    BY <2>1, GateKept, GateEnds DEF ChildEnds
  <2>2. ASSUME NEW c \in Children, ParentFaults(c) \/ ParentFaultShows(c) \/ TerminateChild(c)
        PROVE  GateCounts'
    BY <2>2, GateKept DEF ParentFaults, ParentFaultShows, TerminateChild
  <2>3. ASSUME StampLocks \/ \E graph \in Graphs : CheckIdentity(graph)
        PROVE  GateCounts'
    BY <2>3, GateKept DEF StampLocks, CheckIdentity
  <2> QED
    BY <1>5, <2>1, <2>2, <2>3 DEF StaysStep
<1>6. CASE CloudStep
  BY <1>6, RelayCounts DEF CloudStep
<1>7. CASE UNCHANGED launch_vars
  BY <1>7, GateKept DEF launch_vars, cloud_vars
<1> QED
  BY <1>1, <1>2, <1>3, <1>4, <1>5, <1>6, <1>7, LaunchSteps

\* In a session without motion a cloud found stale, at either of the two looks, is
\* followed by the required number of fresh ones before anything is published,
\* however often the relay, its parents or the script ends and is started.
THEOREM RecoveryEarned == LaunchSpec => RecoveryIsEarned
<1>1. LaunchInit => GateCounts
  BY OpenFields, CloudRelayAssumption DEF LaunchInit, CloudInit, GateCounts
<1>2. GateCounts /\ [LaunchNext]_launch_vars => GateCounts'
  BY GateNext
<1>3. GateCounts /\ [LaunchNext]_launch_vars =>
        [ReleaseCloud("fresh") /\ cloud_profile = "nomotion" => fresh_run = FreshSamples]_cloud_vars
  BY DEF GateCounts, ReleaseCloud
<1> QED
  BY <1>1, <1>2, <1>3, PTL DEF LaunchSpec, RecoveryIsEarned

=============================================================================
