----------------------------- MODULE LevelLifecycle -----------------------------
(***************************************************************************)
(* Loading the plugin, the identity mode and the hook on the game server   *)
(* across levels.                                                          *)
(*                                                                         *)
(* Load acquires its modules one after the other and gives back what it    *)
(* has when a stage fails.  Player mode needs the detours of               *)
(* CanEnableDisguise and the StartChangeLevel hook on the current game     *)
(* server, because that hook makes managed bots look like bots again       *)
(* before the engine tears the level down.  Servers come and go with the   *)
(* levels, the hook is bound to one of them, and the chosen mode has to    *)
(* survive in m_startInPlayerMode while there is none.                     *)
(***************************************************************************)
EXTENDS Naturals

CONSTANTS Servers,    \* addresses of game servers
          NoServer

ASSUME LevelAssumption == NoServer \notin Servers

Modes == {"Bot", "Player"}
Resources == {"log", "schema", "strings", "entities", "detours", "manager", "virtuals", "listener"}

VARIABLES stage,                \* where Load is; "loaded" or "failed" at the end
          res,                  \* what the plugin holds
          botMode,              \* settings.botMode
          ready,                \* CanEnableDisguise: all detours are in place
          server,               \* engine: INetworkGameServer
          level,                \* engine: "down", "up" or "changing"
          m_hookedGameServer,
          registered,           \* servers m_startChangeLevelHook is added to
          m_identityMode,
          m_startInPlayerMode,
          bots,                 \* what managed bots look like, "none" if there are none
          chosen                \* history: the mode last configured or accepted

engineVars == << server, level >>
loadVars == << stage, res, botMode, ready >>
hookVars == << m_hookedGameServer, registered >>
modeVars == << m_identityMode, m_startInPlayerMode, bots, chosen >>
vars == << loadVars, engineVars, hookVars, modeVars >>

Stages == {"interfaces", "log", "khook", "schema", "gamedata", "disguise", "virtuals", "attach"}

TypeOK ==
  /\ stage \in Stages \cup {"loaded", "failed"}
  /\ res \subseteq Resources
  /\ botMode \in BOOLEAN /\ ready \in BOOLEAN
  /\ server \in Servers \cup {NoServer}
  /\ level \in {"down", "up", "changing"}
  /\ m_hookedGameServer \in Servers \cup {NoServer}
  /\ registered \subseteq Servers
  /\ m_identityMode \in Modes /\ m_startInPlayerMode \in BOOLEAN
  /\ bots \in {"none", "Bot", "Player"}
  /\ chosen \in Modes

(***************************************************************************)
(* Load.                                                                   *)
(***************************************************************************)
NextStage ==
  [interfaces |-> "log", log |-> "khook", khook |-> "schema", schema |-> "gamedata",
   gamedata |-> "disguise", disguise |-> "virtuals", virtuals |-> "attach"]

\* What a stage has taken by the time it succeeds or fails.  Stages before
\* "virtuals" may fail half way; InstallVirtualHooks undoes its own part.
Taken ==
  [interfaces |-> {}, log |-> {"log"}, khook |-> {}, schema |-> {"schema"},
   gamedata |-> {"strings", "entities"}, disguise |-> {"detours"},
   virtuals |-> {"manager", "virtuals"}]

\* Unload with m_loaded false.
RolledBack ==
  {"detours", "virtuals", "manager", "strings", "entities", "schema", "log"}

\* What Load gives back when the stage fails.  log::Init keeps nothing.
DisguiseUndone_KeepDetours == {"strings", "entities", "schema", "log"}
DisguiseUndone == {"detours", "strings", "entities", "schema", "log"}
GivenBack ==
  [interfaces |-> {}, log |-> {"log"}, khook |-> {"log"}, schema |-> {"schema", "log"},
   gamedata |-> {"strings", "entities", "schema", "log"},
   disguise |-> DisguiseUndone,
   virtuals |-> RolledBack]

\* InstallPrepared may leave detours out; that fails Load in player mode only.
StagePasses(detoursReady) == stage = "disguise" => botMode \/ detoursReady

LoadStage(ok, detoursReady) ==
  /\ stage \in DOMAIN NextStage
  /\ ready' = IF stage = "disguise" THEN detoursReady ELSE ready
  /\ stage = "disguise" => (ok <=> StagePasses(detoursReady))
  /\ \/ /\ ok
        /\ stage' = NextStage[stage]
        /\ res' = res \cup Taken[stage]
     \/ /\ ~ok
        /\ stage' = "failed"
        /\ res' = (res \cup Taken[stage]) \ GivenBack[stage]
  /\ UNCHANGED << botMode, engineVars, hookVars, modeVars >>

\* AttachGameServerHook; added: AddChecked finds the hook in place.
AttachGameServerHook(added) ==
  LET left == registered \ {m_hookedGameServer}
  IN  IF server = m_hookedGameServer
        THEN [hooked |-> server, registered |-> registered, ok |-> server # NoServer]
      ELSE IF server # NoServer /\ added
        THEN [hooked |-> server, registered |-> left \cup {server}, ok |-> TRUE]
        ELSE [hooked |-> NoServer, registered |-> left, ok |-> FALSE]

Bound_Always(attach) == TRUE
Bound(attach) == attach.ok

Hooked(attach) ==
  /\ m_hookedGameServer' = attach.hooked
  /\ registered' = attach.registered

\* The end of Load: on a running server the mode starts now or never, else it
\* waits for the first level.
LoadAttach(added) ==
  LET attach == AttachGameServerHook(added)
      running == server # NoServer
  IN  /\ stage = "attach"
      /\ stage' = "loaded"
      /\ res' = res \cup {"listener"}
      /\ IF running THEN Hooked(attach) ELSE UNCHANGED hookVars
      /\ m_identityMode' = IF running /\ attach.ok /\ ~botMode THEN "Player" ELSE "Bot"
      /\ m_startInPlayerMode' = (~running /\ ~botMode)
      /\ chosen' = IF ~botMode /\ (running => attach.ok) THEN "Player" ELSE "Bot"
      /\ UNCHANGED << botMode, ready, engineVars, bots >>

Loaded == stage = "loaded"

(***************************************************************************)
(* The identity mode.                                                      *)
(***************************************************************************)
\* The part of SetIdentityMode behind its checks; ApplyManagedDisguise
\* changes the bots there are.
ModeSet(mode) ==
  /\ m_startInPlayerMode' = FALSE
  /\ m_identityMode' = mode
  /\ bots' = IF m_identityMode = mode \/ bots = "none" THEN bots ELSE mode

\* A call that cannot bind the hook ends player mode if it was on, and leaves a
\* mode that waits for the next level waiting.
SetIdentityMode(mode, added) ==
  LET attach == AttachGameServerHook(added)
  IN  \/ /\ mode = "Bot"
         /\ ModeSet("Bot")
         /\ chosen' = "Bot"
         /\ UNCHANGED hookVars
      \/ /\ mode = "Player" /\ ready
         /\ Hooked(attach)
         /\ \/ /\ Bound(attach)
               /\ ModeSet("Player")
               /\ chosen' = "Player"
            \/ /\ ~Bound(attach) /\ m_identityMode = "Player"
               /\ ModeSet("Bot")
               /\ chosen' = "Bot"
            \/ /\ ~Bound(attach) /\ m_identityMode = "Bot"
               /\ UNCHANGED modeVars

BH_SetMode(mode, added) ==
  /\ Loaded
  /\ SetIdentityMode(mode, added)
  /\ UNCHANGED << loadVars, engineVars >>

\* HookOnClientConnectedPost adopts a bot and disguises it if the mode says so.
BotJoins ==
  /\ Loaded /\ level = "up" /\ bots = "none"
  /\ bots' = m_identityMode
  /\ UNCHANGED << loadVars, engineVars, hookVars, m_identityMode, m_startInPlayerMode, chosen >>

BotsLeave ==
  /\ Loaded /\ bots # "none"
  /\ bots' = "none"
  /\ UNCHANGED << loadVars, engineVars, hookVars, m_identityMode, m_startInPlayerMode, chosen >>

(***************************************************************************)
(* Levels and servers.                                                     *)
(***************************************************************************)
\* The engine changes the level; its server calls the hook if it is bound to
\* this server, and HookStartChangeLevelPre restores and releases the bots.
StartChangeLevel ==
  /\ Loaded /\ level = "up" /\ server # NoServer
  /\ level' = "changing"
  /\ bots' = IF server \in registered THEN "none" ELSE bots
  /\ UNCHANGED << loadVars, server, hookVars, m_identityMode, m_startInPlayerMode, chosen >>

PlayerNextLevel_IfWaiting == m_startInPlayerMode
PlayerNextLevel == m_identityMode = "Player" \/ m_startInPlayerMode
OnLevelShutdown ==
  /\ Loaded /\ level \in {"up", "changing"}
  /\ level' = "down"
  /\ registered' = registered \ {m_hookedGameServer}
  /\ m_hookedGameServer' = NoServer
  /\ m_startInPlayerMode' = PlayerNextLevel
  /\ m_identityMode' = "Bot"
  /\ bots' = "none"
  /\ UNCHANGED << loadVars, server, chosen >>

\* The engine has no server, an old one or a new one between two levels.
ReplaceServer(next) ==
  /\ Loaded /\ next # server
  /\ level = "down" \/ server = NoServer
  /\ server' = next
  /\ UNCHANGED << loadVars, level, hookVars, modeVars >>

\* OnLevelInit: SetIdentityMode attaches again in player mode, which cannot
\* fail then.  Nobody else is there to disguise before the level is up.
OnLevelInit(added) ==
  LET attach == AttachGameServerHook(added)
  IN  /\ Loaded /\ level = "down"
      /\ level' = "up"
      /\ Hooked(attach)
      /\ \/ /\ ~Bound(attach)
            /\ ModeSet("Bot")
            /\ chosen' = "Bot"
         \/ /\ Bound(attach) /\ m_startInPlayerMode /\ ready
            /\ ModeSet("Player")
            /\ chosen' = "Player"
         \/ /\ Bound(attach) /\ ~(m_startInPlayerMode /\ ready)
            /\ UNCHANGED modeVars
      /\ UNCHANGED << loadVars, server >>

\* The plugin is loaded with the server process or late, on a running server.
Init ==
  /\ stage = "interfaces" /\ res = {} /\ ready = FALSE
  /\ botMode \in BOOLEAN
  /\ server \in Servers \cup {NoServer}
  /\ level \in IF server = NoServer THEN {"down"} ELSE {"down", "up"}
  /\ m_hookedGameServer = NoServer /\ registered = {}
  /\ m_identityMode = "Bot" /\ m_startInPlayerMode = FALSE
  /\ bots = "none" /\ chosen = "Bot"

Next ==
  \/ \E ok, detoursReady \in BOOLEAN : LoadStage(ok, detoursReady)
  \/ \E added \in BOOLEAN : LoadAttach(added)
  \/ \E mode \in Modes, added \in BOOLEAN : BH_SetMode(mode, added)
  \/ BotJoins
  \/ BotsLeave
  \/ StartChangeLevel
  \/ OnLevelShutdown
  \/ \E next \in Servers \cup {NoServer} : ReplaceServer(next)
  \/ \E added \in BOOLEAN : OnLevelInit(added)

Spec == Init /\ [][Next]_vars
-------------------------------------------------------------------------------

\* The bookkeeping of AttachGameServerHook and OnLevelShutdown is exact: the hook
\* is added to the server m_hookedGameServer names and to no server of an
\* earlier level.
HookTracked == registered = {m_hookedGameServer} \ {NoServer}

\* Player mode on a running level has the change-level hook on the current
\* server (TECH.md, SetIdentityMode), and all its detours.
PlayerIsHooked ==
  m_identityMode = "Player" =>
    /\ ready
    /\ level # "down" => server \in registered

\* When the engine starts to change the level, no managed bot looks like a
\* player any more: HookStartChangeLevelPre has been called for this server.
ChangeLevelRestores ==
  [][level = "up" /\ level' = "changing" => bots' # "Player"]_vars

\* The mode that was configured or accepted last is the mode of the bots, and
\* OnLevelShutdown keeps it for the next level; only a failure to bind the hook
\* gives it up.
ModeFollowsChoice ==
  /\ bots # "none" => bots = chosen
  /\ \/ m_identityMode = chosen /\ ~m_startInPlayerMode
     \/ /\ m_identityMode = "Bot" /\ chosen = "Player" /\ m_startInPlayerMode
        /\ level = "down"

\* A Load that fails at any stage leaves nothing of the plugin behind.
FailedLoadHoldsNothing == stage = "failed" => res = {}
===============================================================================
