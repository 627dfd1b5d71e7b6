------------------------------- MODULE Detours -------------------------------
(***************************************************************************)
(* The detours behind player mode.  Load resolves what they need from the  *)
(* schema and the game data, installs them one by one and, unless the bots *)
(* stay bots, fails if one is missing.  A Load that fails takes its        *)
(* detours out again while other threads pack entities: removing a hook    *)
(* waits for the calls that are inside it, and each of them needs          *)
(* g_packEntitiesMutex to return.                                          *)
(***************************************************************************)
EXTENDS Naturals, Sequences

CONSTANTS Threads,     \* engine threads that pack entities
          NoThread,    \* nobody owns the mutex
          MaxLoads     \* bound: calls of Load in one behaviour

ASSUME DetourAssumption == NoThread \notin Threads /\ MaxLoads \in Nat

Required == {"quota", "voters", "join", "human", "pack", "endmatch"}
Hooks == Required \cup {"script"}
\* UTIL_Remove, the entity-system reference and the controller's pawn handle.
Deps == {"remove", "entsys", "pawn"}

InstallOrder == << "quota", "voters", "join", "human", "pack", "endmatch", "script" >>
RemoveOrder == << "script", "pack", "endmatch", "join", "human", "voters", "quota" >>

VARIABLES step,     \* where Load is; "loaded" or "failed" at the end
          loads,    \* calls of Load so far
          asBots,   \* settings.botMode
          deps,     \* dependencies that are resolved
          target,   \* hooks whose target address is known
          active,   \* hooks that are in place
          todo,     \* hooks left to install or to remove
          call,     \* each thread's PackEntities call
          owner     \* g_packEntitiesMutex

hookingVars == << step, loads, asBots, deps, target, active, todo >>
packVars == << call, owner >>
detourVars == << hookingVars, packVars >>

Steps == {"unloaded", "schema", "gamedata", "install", "virtual", "removing", "loaded", "failed"}

DetourTypeOK ==
  /\ step \in Steps /\ loads \in 0 .. MaxLoads /\ asBots \in BOOLEAN
  /\ deps \subseteq Deps /\ target \subseteq Hooks /\ active \subseteq Hooks
  /\ todo \in Seq(Hooks)
  /\ call \in [Threads -> {"out", "waiting", "in", "unhooked"}]
  /\ owner \in Threads \cup {NoThread}

(***************************************************************************)
(* Load.                                                                   *)
(***************************************************************************)
Load(mode) ==
  /\ step \in {"unloaded", "failed"} /\ loads < MaxLoads
  /\ step' = "schema" /\ loads' = loads + 1 /\ asBots' = mode
  /\ UNCHANGED << deps, target, active, todo, packVars >>

\* The flags offset is required, the pawn handle is not.
LoadFromSchema(flags, pawn) ==
  /\ step = "schema"
  /\ step' = IF flags THEN "gamedata" ELSE "failed"
  /\ deps' = IF flags THEN (deps \ {"pawn"}) \cup (IF pawn THEN {"pawn"} ELSE {}) ELSE deps
  /\ UNCHANGED << loads, asBots, target, active, todo, packVars >>

Reset == deps' = {}

\* Prepare up to the signatures: a missing offset or module fails Load.
PrepareFails ==
  /\ step = "gamedata"
  /\ step' = "failed"
  /\ Reset
  /\ UNCHANGED << loads, asBots, target, active, todo, packVars >>

\* The entity system is read from the code of UTIL_Remove.
ResolveUtilRemoveAndEntSys(found) ==
  /\ "entsys" \in found => "remove" \in found
  /\ deps' = (deps \ {"remove", "entsys"}) \cup found

\* PreparePackEntitiesHook and PrepareSameMapTeardownHook may return early and
\* leave their target alone.
PrepareAll(found, kept) == target' = found \cup (target \cap (kept \ found))

Prepare ==
  /\ step = "gamedata"
  /\ step' = "install"
  /\ todo' = InstallOrder
  /\ \E found \in SUBSET {"remove", "entsys"} : ResolveUtilRemoveAndEntSys(found)
  /\ \E found \in SUBSET Hooks, kept \in SUBSET {"pack", "endmatch"} : PrepareAll(found, kept)
  /\ UNCHANGED << loads, asBots, active, packVars >>

\* Only hooks that are in place count as ready and are published.
Installed_KeepTarget(h, ok) ==
  /\ active' = IF ok THEN active \cup {h} ELSE active
  /\ UNCHANGED target
Installed(h, ok) ==
  /\ active' = IF ok THEN active \cup {h} ELSE active
  /\ target' = IF ok THEN target ELSE target \ {h}

Wanted(h) ==
  /\ h \in target
  /\ h = "script" => "pack" \in active /\ "remove" \in deps

InstallHook(ok) ==
  /\ step = "install" /\ todo # << >>
  /\ Installed(Head(todo), ok /\ Wanted(Head(todo)))
  /\ todo' = Tail(todo)
  /\ UNCHANGED << step, loads, asBots, deps, packVars >>

CanEnableDisguise == Required \subseteq active /\ Deps \subseteq deps

Check ==
  /\ step = "install" /\ todo = << >>
  /\ IF asBots \/ CanEnableDisguise
       THEN step' = "virtual" /\ UNCHANGED todo
       ELSE step' = "removing" /\ todo' = RemoveOrder
  /\ UNCHANGED << loads, asBots, deps, target, active, packVars >>

InstallVirtualHooks(ok) ==
  /\ step = "virtual"
  /\ IF ok THEN step' = "loaded" /\ UNCHANGED todo
           ELSE step' = "removing" /\ todo' = RemoveOrder
  /\ UNCHANGED << loads, asBots, deps, target, active, packVars >>

(***************************************************************************)
(* Remove.  The library takes a hook out, then waits for the calls inside. *)
(***************************************************************************)
InHook == {t \in Threads : call[t] \in {"waiting", "in"}}

TakeOut ==
  /\ step = "removing" /\ todo # << >> /\ Head(todo) \in active
  /\ active' = active \ {Head(todo)}
  /\ UNCHANGED << step, loads, asBots, deps, target, todo, packVars >>

RemoveHook ==
  /\ step = "removing" /\ todo # << >> /\ Head(todo) \notin active
  /\ Head(todo) = "pack" => InHook = {}
  /\ todo' = Tail(todo)
  /\ UNCHANGED << step, loads, asBots, deps, target, active, packVars >>

ClearBindings == target' = {}

Removed ==
  /\ step = "removing" /\ todo = << >>
  /\ step' = "failed"
  /\ ClearBindings
  /\ Reset
  /\ UNCHANGED << loads, asBots, active, todo, packVars >>

(***************************************************************************)
(* Packing.  A call that finds no hook runs the engine's function alone.   *)
(***************************************************************************)
PackEntities(t) ==
  /\ call[t] = "out"
  /\ call' = [call EXCEPT ![t] = IF "pack" \in active THEN "waiting" ELSE "unhooked"]
  /\ UNCHANGED << hookingVars, owner >>

\* The mutex is recursive: its owner may take it again.
PackPre(t) ==
  /\ call[t] = "waiting" /\ owner \in {NoThread, t}
  /\ owner' = t
  /\ call' = [call EXCEPT ![t] = "in"]
  /\ UNCHANGED hookingVars

Unlock_Never == UNCHANGED owner
Unlock == owner' = NoThread
PackPost(t) ==
  /\ call[t] = "in"
  /\ Unlock
  /\ call' = [call EXCEPT ![t] = "out"]
  /\ UNCHANGED hookingVars

Unhooked(t) ==
  /\ call[t] = "unhooked"
  /\ call' = [call EXCEPT ![t] = "out"]
  /\ UNCHANGED << hookingVars, owner >>

DetourInit ==
  /\ step = "unloaded" /\ loads = 0 /\ asBots = FALSE
  /\ deps = {} /\ target = {} /\ active = {} /\ todo = << >>
  /\ call = [t \in Threads |-> "out"] /\ owner = NoThread

LoadStep ==
  \/ \E flags, pawn \in BOOLEAN : LoadFromSchema(flags, pawn)
  \/ PrepareFails
  \/ Prepare
  \/ \E ok \in BOOLEAN : InstallHook(ok) \/ InstallVirtualHooks(ok)
  \/ Check
  \/ TakeOut
  \/ RemoveHook
  \/ Removed

Returns(t) == PackPre(t) \/ PackPost(t) \/ Unhooked(t)

DetourNext ==
  \/ \E mode \in BOOLEAN : Load(mode)
  \/ LoadStep
  \/ \E t \in Threads : PackEntities(t) \/ Returns(t)

\* Load runs on; a call of PackEntities that gets the mutex returns.
Fairness == WF_detourVars(LoadStep) /\ \A t \in Threads : WF_detourVars(Returns(t))

DetourSpec == DetourInit /\ [][DetourNext]_detourVars
FairDetourSpec == DetourSpec /\ Fairness

-------------------------------------------------------------------------------
\* What Load leaves behind is what it reports.  A plugin that is loaded
\* publishes the targets of exactly the hooks that are in place, has all it
\* needs when player mode was asked for, and hooks IsBot only where it can also
\* keep packing out; a Load that failed leaves no hook, no address and no
\* thread inside its code, however far it had come.
HooksAsPublished ==
  /\ step = "loaded" =>
       /\ target = active
       /\ ~asBots => CanEnableDisguise
       /\ "script" \in active => "pack" \in active /\ "remove" \in deps
  /\ step = "failed" => target = {} /\ active = {} /\ deps = {} /\ InHook = {}

\* Every Load comes to an end: the removal of the hooks does not wait for a
\* call that waits for the mutex, while other threads go on packing.
LoadEnds == step = "schema" ~> step \in {"loaded", "failed"}
===============================================================================
