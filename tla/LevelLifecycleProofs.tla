-------------------------- MODULE LevelLifecycleProofs --------------------------
(***************************************************************************)
(* The invariants of LevelLifecycle for any set of server addresses, and   *)
(* of Detours, the inside of its stages, for any number of threads and of  *)
(* attempts to load.                                                       *)
(***************************************************************************)
EXTENDS LevelLifecycle, Detours, SequenceTheorems, TLAPS

\* Before Load has ended nothing is bound and no bot is managed.
NotLoaded ==
  stage # "loaded" =>
    /\ m_hookedGameServer = NoServer
    /\ m_identityMode = "Bot" /\ ~m_startInPlayerMode
    /\ bots = "none" /\ chosen = "Bot"
    /\ server = NoServer => level = "down"

\* A plugin configured for player mode gets behind the disguise stage only with
\* its detours in place.
ReadyForPlayer ==
  /\ m_startInPlayerMode => ready
  /\ stage \in {"virtuals", "attach"} => botMode \/ ready

\* No bot stays when a level goes down.
NoBotsBetweenLevels == level = "down" => bots = "none"

\* What AttachGameServerHook leaves in player mode while a level runs.
BoundToServer ==
  m_identityMode = "Player" /\ level # "down" => m_hookedGameServer = server /\ server # NoServer

\* The inductive invariant.
IndInv ==
  /\ TypeOK
  /\ HookTracked
  /\ PlayerIsHooked
  /\ ModeFollowsChoice
  /\ NotLoaded
  /\ ReadyForPlayer
  /\ NoBotsBetweenLevels
  /\ BoundToServer

\* AttachGameServerHook keeps the bookkeeping exact, whatever it finds, and
\* succeeds only with the current server bound.
LEMMA AttachKeepsTrack ==
  ASSUME TypeOK, HookTracked, NEW added \in BOOLEAN
  PROVE  LET attach == AttachGameServerHook(added)
         IN  /\ attach.hooked \in Servers \cup {NoServer}
             /\ attach.registered = {attach.hooked} \ {NoServer}
             /\ attach.ok \in BOOLEAN
             /\ attach.ok => attach.hooked = server /\ server # NoServer
BY LevelAssumption DEF TypeOK, HookTracked, AttachGameServerHook

\* In the initial states nothing is bound and no mode is chosen.
LEMMA InitIndInv == Init => IndInv
BY LevelAssumption DEF Init, IndInv, TypeOK, Modes, Stages, HookTracked, PlayerIsHooked,
   ModeFollowsChoice, NotLoaded, ReadyForPlayer, NoBotsBetweenLevels, BoundToServer

\* Every step of Load, of the API, of the bots and of the engine keeps the
\* invariant.
LEMMA NextKeepsIndInv == IndInv /\ [Next]_vars => IndInv'
<1> SUFFICES ASSUME IndInv, [Next]_vars PROVE IndInv'
  OBVIOUS
<1> USE LevelAssumption
<1> USE DEF IndInv, TypeOK, Modes, HookTracked, PlayerIsHooked, ModeFollowsChoice,
        NotLoaded, ReadyForPlayer, NoBotsBetweenLevels, BoundToServer,
        loadVars, engineVars, hookVars, modeVars
<1>1. ASSUME NEW ok \in BOOLEAN, NEW detoursReady \in BOOLEAN, LoadStage(ok, detoursReady)
      PROVE  IndInv'
  <2>1. /\ stage \in DOMAIN NextStage
        /\ stage' \in {NextStage[stage], "failed"}
        /\ res' \subseteq res \cup Taken[stage]
        /\ UNCHANGED << botMode, engineVars, hookVars, modeVars >>
    BY <1>1 DEF LoadStage
  <2>2. /\ stage # "loaded" /\ NextStage[stage] \in Stages
        /\ NextStage[stage] # "loaded"
        /\ stage # "disguise" => NextStage[stage] # "virtuals"
        /\ stage # "virtuals" => NextStage[stage] # "attach"
    BY <2>1 DEF NextStage, Stages
  <2>3. Taken[stage] \subseteq Resources
    BY <2>1 DEF NextStage, Taken, Resources
  <2>4. ready' = IF stage = "disguise" THEN detoursReady ELSE ready
    BY <1>1 DEF LoadStage
  <2>5. stage' \in {"virtuals", "attach"} => botMode \/ ready'
    BY <1>1, <2>1, <2>2, <2>4 DEF LoadStage, StagePasses, NextStage
  <2>6. TypeOK'
    BY <2>1, <2>2, <2>3, <2>4 DEF Stages
  <2> QED
    BY <2>1, <2>2, <2>5, <2>6
<1>2. ASSUME NEW added \in BOOLEAN, LoadAttach(added)
      PROVE  IndInv'
  <2> DEFINE attach == AttachGameServerHook(added)
  <2>1. /\ attach.hooked \in Servers \cup {NoServer}
        /\ attach.registered = {attach.hooked} \ {NoServer}
        /\ attach.ok \in BOOLEAN
        /\ attach.ok => attach.hooked = server /\ server # NoServer
    BY AttachKeepsTrack
  <2>2. /\ stage = "attach" /\ stage' = "loaded"
        /\ res' = res \cup {"listener"}
        /\ IF server # NoServer THEN Hooked(attach) ELSE UNCHANGED hookVars
        /\ m_identityMode' = IF server # NoServer /\ attach.ok /\ ~botMode THEN "Player" ELSE "Bot"
        /\ m_startInPlayerMode' = (server = NoServer /\ ~botMode)
        /\ chosen' = IF ~botMode /\ (server # NoServer => attach.ok) THEN "Player" ELSE "Bot"
        /\ UNCHANGED << botMode, ready, engineVars, bots >>
    BY <1>2 DEF LoadAttach
  <2> HIDE DEF attach
  <2>3. TypeOK'
    BY <2>1, <2>2 DEF Hooked, Resources
  <2>4. HookTracked' /\ PlayerIsHooked' /\ BoundToServer'
    BY <2>1, <2>2 DEF Hooked
  <2>5. ModeFollowsChoice' /\ NotLoaded' /\ ReadyForPlayer' /\ NoBotsBetweenLevels'
    BY <2>2
  <2> QED
    BY <2>3, <2>4, <2>5
<1>3. ASSUME NEW mode \in Modes, NEW added \in BOOLEAN, BH_SetMode(mode, added)
      PROVE  IndInv'
  <2>1. stage = "loaded"
    BY <1>3 DEF BH_SetMode, Loaded
  <2>2. CASE mode = "Bot"
    BY <1>3, <2>1, <2>2 DEF BH_SetMode, SetIdentityMode, ModeSet
  <2>3. CASE mode = "Player"
    <3> DEFINE attach == AttachGameServerHook(added)
    <3>1. /\ attach.hooked \in Servers \cup {NoServer}
          /\ attach.registered = {attach.hooked} \ {NoServer}
          /\ attach.ok \in BOOLEAN
          /\ attach.ok => attach.hooked = server /\ server # NoServer
      BY AttachKeepsTrack
    <3>2. /\ ready
          /\ Hooked(attach)
          /\ \/ attach.ok /\ ModeSet("Player") /\ chosen' = "Player"
             \/ ~attach.ok /\ m_identityMode = "Player" /\ ModeSet("Bot") /\ chosen' = "Bot"
             \/ ~attach.ok /\ m_identityMode = "Bot" /\ UNCHANGED modeVars
          /\ UNCHANGED << loadVars, engineVars >>
      BY <1>3, <2>3 DEF BH_SetMode, SetIdentityMode, Bound
    <3> HIDE DEF attach
    <3>3. TypeOK' /\ NotLoaded' /\ ReadyForPlayer' /\ NoBotsBetweenLevels'
      BY <2>1, <3>1, <3>2 DEF ModeSet, Hooked
    <3>4. HookTracked' /\ PlayerIsHooked' /\ BoundToServer'
      BY <3>1, <3>2 DEF ModeSet, Hooked
    <3>5. ModeFollowsChoice'
      BY <3>2 DEF ModeSet
    <3> QED
      BY <3>3, <3>4, <3>5
  <2> QED
    BY <2>2, <2>3
<1>4. CASE BotJoins
  BY <1>4 DEF BotJoins, Loaded
<1>5. CASE BotsLeave
  BY <1>5 DEF BotsLeave, Loaded
<1>6. CASE StartChangeLevel
  BY <1>6 DEF StartChangeLevel, Loaded
<1>7. CASE OnLevelShutdown
  BY <1>7 DEF OnLevelShutdown, PlayerNextLevel, Loaded
<1>8. ASSUME NEW next \in Servers \cup {NoServer}, ReplaceServer(next)
      PROVE  IndInv'
  BY <1>8 DEF ReplaceServer, Loaded
<1>9. ASSUME NEW added \in BOOLEAN, OnLevelInit(added)
      PROVE  IndInv'
  <2> DEFINE attach == AttachGameServerHook(added)
  <2>1. /\ attach.hooked \in Servers \cup {NoServer}
        /\ attach.registered = {attach.hooked} \ {NoServer}
        /\ attach.ok \in BOOLEAN
        /\ attach.ok => attach.hooked = server /\ server # NoServer
    BY AttachKeepsTrack
  <2>2. /\ stage = "loaded" /\ level = "down" /\ level' = "up"
        /\ Hooked(attach)
        /\ UNCHANGED << loadVars, server >>
    BY <1>9 DEF OnLevelInit, Loaded
  <2>3. \/ ~attach.ok /\ ModeSet("Bot") /\ chosen' = "Bot"
        \/ attach.ok /\ m_startInPlayerMode /\ ready /\ ModeSet("Player") /\ chosen' = "Player"
        \/ attach.ok /\ ~(m_startInPlayerMode /\ ready) /\ UNCHANGED modeVars
    BY <1>9 DEF OnLevelInit, Bound
  <2> HIDE DEF attach
  <2>4. CASE ~attach.ok /\ ModeSet("Bot") /\ chosen' = "Bot"
    BY <2>1, <2>2, <2>4 DEF Hooked, ModeSet
  <2>5. CASE attach.ok /\ m_startInPlayerMode /\ ready /\ ModeSet("Player") /\ chosen' = "Player"
    BY <2>1, <2>2, <2>5 DEF Hooked, ModeSet
  <2>6. CASE attach.ok /\ ~(m_startInPlayerMode /\ ready) /\ UNCHANGED modeVars
    BY <2>1, <2>2, <2>6 DEF Hooked
  <2> QED
    BY <2>3, <2>4, <2>5, <2>6
<1>10. CASE UNCHANGED vars
  BY <1>10 DEF vars
<1> QED
  BY <1>1, <1>2, <1>3, <1>4, <1>5, <1>6, <1>7, <1>8, <1>9, <1>10 DEF Next

\* The inductive invariant holds in every reachable state.
THEOREM AlwaysIndInv == Spec => []IndInv
BY InitIndInv, NextKeepsIndInv, PTL DEF Spec

\* The variables have their types, for any set of servers.
THEOREM TypeCorrect == Spec => []TypeOK
<1>1. IndInv => TypeOK
  BY DEF IndInv
<1> QED
  BY <1>1, AlwaysIndInv, PTL

\* The StartChangeLevel hook is on the server m_hookedGameServer names and on no
\* other, through any number of levels and failed bindings.
THEOREM HookAlwaysTracked == Spec => []HookTracked
<1>1. IndInv => HookTracked
  BY DEF IndInv
<1> QED
  BY <1>1, AlwaysIndInv, PTL

\* Player mode never runs on a level without the change-level hook.
THEOREM PlayerAlwaysHooked == Spec => []PlayerIsHooked
<1>1. IndInv => PlayerIsHooked
  BY DEF IndInv
<1> QED
  BY <1>1, AlwaysIndInv, PTL

\* The mode chosen last is in force or waits for the next level.
THEOREM ModeAlwaysFollowsChoice == Spec => []ModeFollowsChoice
<1>1. IndInv => ModeFollowsChoice
  BY DEF IndInv
<1> QED
  BY <1>1, AlwaysIndInv, PTL

\* Each StartChangeLevel finds the hook bound if bots look like players, and so
\* leaves none that does.
THEOREM ChangeLevelAlwaysRestores == Spec => ChangeLevelRestores
<1>1. IndInv /\ [Next]_vars => (level = "up" /\ level' = "changing" => bots' # "Player")
  <2> SUFFICES ASSUME IndInv, [Next]_vars, level = "up", level' = "changing"
               PROVE  bots' # "Player"
    OBVIOUS
  <2>1. StartChangeLevel
    BY DEF Next, vars, LoadStage, LoadAttach, BH_SetMode, BotJoins, BotsLeave,
           OnLevelShutdown, ReplaceServer, OnLevelInit, engineVars
  <2> QED
    BY <2>1 DEF StartChangeLevel, IndInv, ModeFollowsChoice, PlayerIsHooked, NoBotsBetweenLevels
<1> QED
  BY <1>1, AlwaysIndInv, PTL DEF Spec, ChangeLevelRestores

-------------------------------------------------------------------------------
\* What Load holds when it comes to a stage.
Held ==
  [interfaces |-> {}, log |-> {}, khook |-> {"log"}, schema |-> {"log"},
   gamedata |-> {"log", "schema"},
   disguise |-> {"log", "schema", "strings", "entities"},
   virtuals |-> {"log", "schema", "strings", "entities", "detours"}]

\* The inductive invariant of Load's resources.
LoadHolds ==
  /\ stage \in DOMAIN Held => res = Held[stage]
  /\ FailedLoadHoldsNothing

\* Each stage adds what it takes or gives back all there is.
LEMMA StageKeepsLoadHolds ==
  ASSUME LoadHolds, NEW ok \in BOOLEAN, NEW detoursReady \in BOOLEAN, LoadStage(ok, detoursReady)
  PROVE  LoadHolds'
<1>1. stage \in DOMAIN Held /\ res = Held[stage]
  BY DEF LoadStage, NextStage, LoadHolds, Held
<1>2. CASE ok
  <2>1. stage' = NextStage[stage] /\ res' = res \cup Taken[stage]
    BY <1>2 DEF LoadStage
  <2>2. stage' # "failed"
    BY <1>1, <2>1 DEF NextStage, Held
  <2>3. stage' \in DOMAIN Held => res' = Held[stage']
    BY <1>1, <2>1 DEF NextStage, Taken, Held
  <2> QED
    BY <2>2, <2>3 DEF LoadHolds, FailedLoadHoldsNothing, Held
<1>3. CASE ~ok
  <2>1. stage' = "failed" /\ res' = (res \cup Taken[stage]) \ GivenBack[stage]
    BY <1>3 DEF LoadStage
  <2>2. res' = {}
    BY <1>1, <2>1 DEF Held, Taken, GivenBack, DisguiseUndone, RolledBack
  <2> QED
    BY <2>1, <2>2 DEF LoadHolds, FailedLoadHoldsNothing, Held
<1> QED
  BY <1>2, <1>3

\* Whatever stage Load fails at, it leaves nothing of the plugin behind.
THEOREM FailureLeavesNothing == Spec => []FailedLoadHoldsNothing
<1>1. Init => LoadHolds
  BY DEF Init, LoadHolds, FailedLoadHoldsNothing, Held
<1>2. LoadHolds /\ [Next]_vars => LoadHolds'
  <2> SUFFICES ASSUME LoadHolds, [Next]_vars PROVE LoadHolds'
    OBVIOUS
  <2>1. ASSUME NEW ok \in BOOLEAN, NEW detoursReady \in BOOLEAN, LoadStage(ok, detoursReady)
        PROVE  LoadHolds'
    BY <2>1, StageKeepsLoadHolds
  <2>2. ASSUME NEW added \in BOOLEAN, LoadAttach(added)
        PROVE  LoadHolds'
    BY <2>2 DEF LoadAttach, LoadHolds, FailedLoadHoldsNothing, Held
  <2>3. CASE UNCHANGED << stage, res >>
    BY <2>3 DEF LoadHolds, FailedLoadHoldsNothing, Held
  <2> QED
    BY <2>1, <2>2, <2>3 DEF Next, vars, loadVars, BH_SetMode, BotJoins, BotsLeave,
       StartChangeLevel, OnLevelShutdown, ReplaceServer, OnLevelInit
<1>3. LoadHolds => FailedLoadHoldsNothing
  BY DEF LoadHolds
<1> QED
  BY <1>1, <1>2, <1>3, PTL DEF Spec
-------------------------------------------------------------------------------
(***************************************************************************)
(* Detours: what Load reports of its detours is what is in place.          *)
(***************************************************************************)
Once(order) == \A i, j \in DOMAIN order : order[i] = order[j] => i = j
Of(order) == {order[i] : i \in DOMAIN order}

\* Before the detours are prepared, and after they were removed, there are none.
NothingYet ==
  /\ step \in {"unloaded", "schema", "gamedata", "failed"} => target = {} /\ active = {}
  /\ step \in {"unloaded", "schema", "failed"} => deps = {}

\* A hook with a target is in place or still to be installed.
Installing ==
  step = "install" =>
    /\ Once(todo) /\ active \cap Of(todo) = {}
    /\ active \subseteq target /\ target \ active \subseteq Of(todo)

Published ==
  step \in {"virtual", "loaded"} => target = active /\ (~asBots => CanEnableDisguise)

\* IsBot is hooked only with what it relies on.
ScriptSupported ==
  step # "removing" /\ "script" \in active => "pack" \in active /\ "remove" \in deps

\* A hook that is in place during the removal will still be removed, and a thread
\* is inside the packing hook only while it is in place or waited for.
Removing ==
  /\ step = "removing" => active \subseteq Of(todo)
  /\ InHook # {} => "pack" \in active \/ (step = "removing" /\ "pack" \in Of(todo))

\* The inductive invariant.
DetourIndInv ==
  /\ DetourTypeOK
  /\ NothingYet
  /\ Installing
  /\ Published
  /\ ScriptSupported
  /\ Removing

\* Both orders name every hook once.
LEMMA OrdersComplete ==
  /\ InstallOrder \in Seq(Hooks) /\ Once(InstallOrder) /\ Of(InstallOrder) = Hooks
  /\ RemoveOrder \in Seq(Hooks) /\ Of(RemoveOrder) = Hooks
<1>1. InstallOrder \in Seq(Hooks) /\ RemoveOrder \in Seq(Hooks)
  BY DEF InstallOrder, RemoveOrder, Hooks, Required
<1>2. DOMAIN InstallOrder = 1 .. 7 /\ DOMAIN RemoveOrder = 1 .. 7
  BY DEF InstallOrder, RemoveOrder
<1>3. /\ InstallOrder[1] = "quota" /\ InstallOrder[2] = "voters" /\ InstallOrder[3] = "join"
      /\ InstallOrder[4] = "human" /\ InstallOrder[5] = "pack" /\ InstallOrder[6] = "endmatch"
      /\ InstallOrder[7] = "script"
  BY DEF InstallOrder
<1>4. /\ RemoveOrder[1] = "script" /\ RemoveOrder[2] = "pack" /\ RemoveOrder[3] = "endmatch"
      /\ RemoveOrder[4] = "join" /\ RemoveOrder[5] = "human" /\ RemoveOrder[6] = "voters"
      /\ RemoveOrder[7] = "quota"
  BY DEF RemoveOrder
<1>5. \A i \in 1 .. 7 : i = 1 \/ i = 2 \/ i = 3 \/ i = 4 \/ i = 5 \/ i = 6 \/ i = 7
  OBVIOUS
<1>6. Once(InstallOrder)
  BY <1>2, <1>3, <1>5 DEF Once
<1>7. Of(InstallOrder) = Hooks
  BY <1>2, <1>3, <1>5 DEF Of, Hooks, Required
<1>8. Of(RemoveOrder) = Hooks
  BY <1>2, <1>4, <1>5 DEF Of, Hooks, Required
<1> QED
  BY <1>1, <1>6, <1>7, <1>8

\* Taking the first hook of a list leaves the others.
LEMMA RestOfOrder ==
  ASSUME NEW order \in Seq(Hooks), order # << >>
  PROVE  /\ Head(order) \in Hooks /\ Tail(order) \in Seq(Hooks)
         /\ Of(order) = {Head(order)} \cup Of(Tail(order))
         /\ Once(order) => Once(Tail(order)) /\ Head(order) \notin Of(Tail(order))
<1>1. /\ Len(order) \in Nat \ {0}
      /\ DOMAIN order = 1 .. Len(order) /\ Head(order) = order[1]
  BY EmptySeq, LenProperties
<1>2. /\ Head(order) \in Hooks /\ Tail(order) \in Seq(Hooks)
      /\ Len(Tail(order)) = Len(order) - 1
      /\ \A i \in 1 .. Len(Tail(order)) : Tail(order)[i] = order[i + 1]
  BY HeadTailProperties
<1>3. DOMAIN Tail(order) = 1 .. Len(order) - 1
  BY <1>2, LenProperties
<1>4. \A i \in DOMAIN Tail(order) : i + 1 \in DOMAIN order /\ Tail(order)[i] = order[i + 1]
  BY <1>1, <1>2, <1>3
<1>5. \A i \in DOMAIN order : i = 1 \/ (i - 1 \in DOMAIN Tail(order) /\ Tail(order)[i - 1] = order[i])
  BY <1>1, <1>2, <1>3
<1>6. Of(order) = {Head(order)} \cup Of(Tail(order))
  BY <1>1, <1>4, <1>5 DEF Of
<1>7. ASSUME Once(order)
      PROVE  Once(Tail(order)) /\ Head(order) \notin Of(Tail(order))
  BY <1>1, <1>3, <1>4, <1>7 DEF Once, Of
<1> QED
  BY <1>2, <1>6, <1>7

LEMMA InitDetourInv == DetourInit => DetourIndInv
<1> SUFFICES ASSUME DetourInit PROVE DetourIndInv
  OBVIOUS
<1>1. 0 \in 0 .. MaxLoads /\ << >> \in Seq(Hooks)
  BY DetourAssumption, EmptySeq
<1>2. DetourTypeOK
  BY <1>1 DEF DetourInit, DetourTypeOK, Steps
<1>3. NothingYet /\ Installing /\ Published /\ ScriptSupported
  BY DEF DetourInit, NothingYet, Installing, Published, ScriptSupported
<1>4. Removing
  BY DEF DetourInit, Removing, InHook
<1> QED
  BY <1>2, <1>3, <1>4 DEF DetourIndInv

\* Every step of Load and of the packing threads keeps the invariant.
LEMMA NextKeepsDetourInv == DetourIndInv /\ [DetourNext]_detourVars => DetourIndInv'
<1> SUFFICES ASSUME DetourIndInv, [DetourNext]_detourVars PROVE DetourIndInv'
  OBVIOUS
<1> USE DEF DetourIndInv, DetourTypeOK, Steps, NothingYet, Installing, Published, ScriptSupported, Removing,
            packVars, InHook
<1>1. ASSUME NEW mode \in BOOLEAN, Load(mode) PROVE DetourIndInv'
  <2>1. loads' \in 0 .. MaxLoads
    BY <1>1, DetourAssumption DEF Load
  <2> QED
    BY <1>1, <2>1 DEF Load
<1>2. ASSUME NEW flags \in BOOLEAN, NEW pawn \in BOOLEAN, LoadFromSchema(flags, pawn) PROVE DetourIndInv'
  BY <1>2 DEF LoadFromSchema, Deps
<1>3. CASE PrepareFails
  BY <1>3 DEF PrepareFails, Reset
<1>4. CASE Prepare
  <2>1. /\ step = "gamedata" /\ step' = "install" /\ todo' = InstallOrder
        /\ UNCHANGED << loads, asBots, active, packVars >>
    BY <1>4 DEF Prepare
  <2>2. deps' \subseteq Deps
    BY <1>4 DEF Prepare, ResolveUtilRemoveAndEntSys, Deps
  <2>3. target' \subseteq Hooks
    BY <1>4 DEF Prepare, PrepareAll
  <2> QED
    BY <2>1, <2>2, <2>3, OrdersComplete
<1>5. ASSUME NEW ok \in BOOLEAN, InstallHook(ok) PROVE DetourIndInv'
  <2> DEFINE h == Head(todo)
  <2>1. /\ step = "install" /\ todo # << >> /\ todo' = Tail(todo)
        /\ Installed(h, ok /\ Wanted(h))
        /\ UNCHANGED << step, loads, asBots, deps, packVars >>
    BY <1>5 DEF InstallHook
  <2>2. /\ h \in Hooks /\ Tail(todo) \in Seq(Hooks)
        /\ Of(todo) = {h} \cup Of(Tail(todo))
        /\ Once(Tail(todo)) /\ h \notin Of(Tail(todo))
    BY <2>1, RestOfOrder
  <2> HIDE DEF h
  <2>3. CASE ok /\ Wanted(h)
    <3>1. /\ active' = active \cup {h} /\ target' = target
          /\ h \in target /\ (h = "script" => "pack" \in active /\ "remove" \in deps)
      BY <2>1, <2>3 DEF Installed, Wanted
    <3> QED
      BY <2>1, <2>2, <3>1
  <2>4. CASE ~(ok /\ Wanted(h))
    <3>1. active' = active /\ target' = target \ {h}
      BY <2>1, <2>4 DEF Installed
    <3> QED
      BY <2>1, <2>2, <3>1
  <2> QED
    BY <2>3, <2>4
<1>6. CASE Check
  <2>1. step = "install" /\ todo = << >> /\ UNCHANGED << loads, asBots, deps, target, active, packVars >>
    BY <1>6 DEF Check
  <2>2. target = active
    <3>1. Of(todo) = {}
      BY <2>1 DEF Of
    <3>2. active \subseteq target /\ target \ active \subseteq Of(todo)
      BY <2>1
    <3> QED
      BY <3>1, <3>2
  <2>3. CASE asBots \/ CanEnableDisguise
    <3>1. step' = "virtual" /\ todo' = todo
      BY <1>6, <2>3 DEF Check
    <3>2. CanEnableDisguise' <=> CanEnableDisguise
      BY <2>1 DEF CanEnableDisguise
    <3> QED
      BY <2>1, <2>2, <2>3, <3>1, <3>2
  <2>4. CASE ~(asBots \/ CanEnableDisguise)
    BY <1>6, <2>1, <2>4, OrdersComplete DEF Check
  <2> QED
    BY <2>3, <2>4
<1>7. ASSUME NEW ok \in BOOLEAN, InstallVirtualHooks(ok) PROVE DetourIndInv'
  <2>1. CASE ok
    BY <1>7, <2>1 DEF InstallVirtualHooks, CanEnableDisguise
  <2>2. CASE ~ok
    BY <1>7, <2>2, OrdersComplete DEF InstallVirtualHooks
  <2> QED
    BY <2>1, <2>2
<1>8. CASE TakeOut
  <2>1. Head(todo) \in Of(todo)
    BY <1>8, RestOfOrder DEF TakeOut
  <2> QED
    BY <1>8, <2>1 DEF TakeOut
<1>9. CASE RemoveHook
  <2>1. /\ Tail(todo) \in Seq(Hooks) /\ Of(todo) = {Head(todo)} \cup Of(Tail(todo))
    BY <1>9, RestOfOrder DEF RemoveHook
  <2> QED
    BY <1>9, <2>1 DEF RemoveHook
<1>10. CASE Removed
  <2>1. Of(todo) = {}
    BY <1>10 DEF Removed, Of
  <2> QED
    BY <1>10, <2>1 DEF Removed, ClearBindings, Reset
<1>11. ASSUME NEW t \in Threads, PackEntities(t) \/ Returns(t) PROVE DetourIndInv'
  <2>1. UNCHANGED hookingVars
    BY <1>11 DEF PackEntities, Returns, PackPre, PackPost, Unhooked
  <2>2. call' \in [Threads -> {"out", "waiting", "in", "unhooked"}] /\ owner' \in Threads \cup {NoThread}
    BY <1>11 DEF PackEntities, Returns, PackPre, PackPost, Unhooked, Unlock
  <2>3. InHook' # {} => InHook # {} \/ "pack" \in active
    BY <1>11 DEF PackEntities, Returns, PackPre, PackPost, Unhooked
  <2> QED
    BY <2>1, <2>2, <2>3 DEF hookingVars, CanEnableDisguise
<1>12. CASE UNCHANGED detourVars
  BY <1>12 DEF detourVars, hookingVars, CanEnableDisguise
<1> QED
  BY <1>1, <1>2, <1>3, <1>4, <1>5, <1>6, <1>7, <1>8, <1>9, <1>10, <1>11, <1>12 DEF DetourNext, LoadStep

\* The invariant holds in every reachable state.
THEOREM AlwaysDetourInv == DetourSpec => []DetourIndInv
BY InitDetourInv, NextKeepsDetourInv, PTL DEF DetourSpec

\* A loaded plugin publishes exactly the hooks that are in place and has what
\* player mode needs; a failed Load leaves none and no thread inside them.
THEOREM AlwaysAsPublished == DetourSpec => []HooksAsPublished
<1>1. DetourIndInv => HooksAsPublished
  BY DEF DetourIndInv, NothingYet, Published, ScriptSupported, Removing, HooksAsPublished
<1> QED
  BY <1>1, AlwaysDetourInv, PTL
===============================================================================
