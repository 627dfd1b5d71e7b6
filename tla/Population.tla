------------------------------ MODULE Population ------------------------------
(***************************************************************************)
(* The disguise: the fake-player flag of the managed clients and the       *)
(* FL_FAKECLIENT flag of their controllers, the global identity mode, and  *)
(* the hooks that turn managed bots back into bots for as long as the      *)
(* engine counts, adds, kicks or moves players.                            *)
(*                                                                         *)
(* A hooked engine function runs between its PRE and its POST callback, on *)
(* the game thread, and may make the engine connect and disconnect clients *)
(* and call other hooked functions.  frames is the stack of the calls that *)
(* are open (the code keeps one stack per hook; calls nest, so the top of  *)
(* the stack is the top of its hook's stack).  Which entry an adoption     *)
(* picks, and whether it picks one, is the subject of IdentityPool: here   *)
(* the outcome is a nondeterministic choice.                               *)
(***************************************************************************)
EXTENDS Integers, Sequences, FiniteSets

CONSTANTS Slots,
          NoClient,    \* empty place in the engine's client list
          NoSnap,      \* null snapshot
          MaxLives,    \* bound: clients the engine creates in one behaviour
          MaxFrames    \* bound: hooked calls open at once

(***************************************************************************)
(* life stands for the client pointer and user ID, fake for m_bFakePlayer  *)
(* and the connection-type bits, ctrl for the controller: none yet, or     *)
(* with FL_FAKECLIENT set ("fake") or clear ("player").                    *)
(***************************************************************************)
Client ==
  [kind : {"bot", "tv", "human"}, life : 1 .. MaxLives, fake : BOOLEAN,
   ctrl : {"none", "fake", "player"}, phase : {"connected", "active", "leaving"}]
Snap == [life : 1 .. MaxLives, fake : BOOLEAN, ctrl : {"none", "fake", "player"}]
Snapshots == [Slots -> Snap \cup {NoSnap}]

ASSUME PopulationAssumption ==
  /\ MaxLives \in Nat /\ MaxFrames \in Nat
  /\ NoClient \notin Client /\ NoSnap \notin Snap

Frame ==
  [kind : {"population", "command", "count"}, enabled : BOOLEAN,
   restore : Snapshots]

VARIABLES mode,        \* m_identityMode
          level,       \* engine: "up" between level init and shutdown
          client,      \* engine: client list, with each client's controller
          lives,       \* number of clients created so far
          managed,     \* slots the manager has adopted
          depth,       \* g_populationTransactionDepth
          redisguise,  \* g_populationTransactionRedisguise
          identity,    \* g_populationIdentity
          redone,      \* history: slots an API call disguised in the transaction
          frames       \* open hooked calls, outermost first

txnVars == << depth, redisguise, identity, redone >>
vars == << mode, level, client, lives, managed, txnVars, frames >>

NoSnapshots == [s \in Slots |-> NoSnap]

TypeOK ==
  /\ mode \in {"Bot", "Player"}
  /\ level \in {"up", "down"}
  /\ client \in [Slots -> Client \cup {NoClient}]
  /\ lives \in 0 .. MaxLives
  /\ managed \in SUBSET Slots
  /\ depth \in 0 .. MaxFrames
  /\ redisguise \in BOOLEAN
  /\ identity \in Snapshots
  /\ redone \subseteq Slots
  /\ frames \in Seq(Frame)
  /\ Len(frames) <= MaxFrames

IsDisguiseEnabled == mode = "Player"
PopulationTransactionActive == depth # 0
Present(s) == client[s] # NoClient

(***************************************************************************)
(* Flag writes.                                                            *)
(***************************************************************************)
\* SetControllerFakeClientFlag: no effect while there is no controller.
WithController(c, isFake) ==
  IF c.ctrl = "none" THEN c
  ELSE [c EXCEPT !.ctrl = IF isFake THEN "fake" ELSE "player"]
AsBot(c) == WithController([c EXCEPT !.fake = TRUE], TRUE)
AsPlayer(c) == WithController([c EXCEPT !.fake = FALSE], FALSE)

\* A newly adopted or newly entered bot: inside a transaction its controller
\* keeps counting as a bot.
Disguised_AlwaysPlayer(c) == AsPlayer(c)
Disguised(c) == WithController([c EXCEPT !.fake = FALSE], PopulationTransactionActive)

\* ApplyManagedDisguise, as a function of the clients.
ManagedDisguise(clients, disguised) ==
  [s \in Slots |-> IF s \in managed /\ clients[s] # NoClient
                     THEN IF disguised THEN AsPlayer(clients[s]) ELSE AsBot(clients[s])
                     ELSE clients[s]]

\* ScopedBotIdentityRestore: Capture remembers and turns into bots.
Captured ==
  [s \in Slots |-> IF s \in managed /\ Present(s)
                     THEN [life |-> client[s].life, fake |-> client[s].fake,
                           ctrl |-> client[s].ctrl]
                     ELSE NoSnap]
AfterCapture ==
  [s \in Slots |-> IF s \in managed /\ Present(s) THEN AsBot(client[s]) ELSE client[s]]

\* Restore puts back only the bits Capture changed, and only on the very
\* client that was captured, if the slot is still managed.
RestoredClient(c, snap) ==
  [c EXCEPT !.fake = @ /\ snap.fake,
            !.ctrl = IF @ # "none" /\ snap.ctrl = "player" THEN "player" ELSE @]
StillCaptured_BySlot(s, snaps) == snaps[s] # NoSnap /\ Present(s)
StillCaptured(s, snaps) ==
  /\ snaps[s] # NoSnap
  /\ s \in managed
  /\ Present(s)
  /\ client[s].life = snaps[s].life
Restored(snaps) ==
  [s \in Slots |-> IF StillCaptured(s, snaps) THEN RestoredClient(client[s], snaps[s])
                                              ELSE client[s]]

(***************************************************************************)
(* Transactions and frames.                                                *)
(***************************************************************************)
BeginPopulationTransaction(again) ==
  /\ depth' = depth + 1
  /\ IF depth = 0
       THEN /\ redisguise' = again
            /\ identity' = Captured
            /\ client' = AfterCapture
       ELSE /\ redisguise' = (redisguise \/ again)
            /\ UNCHANGED << identity, client >>
  /\ UNCHANGED redone

\* The outermost end restores the snapshot, then re-applies the disguise of the
\* mode that is current now.
AfterEnd_RestoreOnly(again) == Restored(identity)
AfterEnd(again) ==
  IF again THEN ManagedDisguise(Restored(identity), IsDisguiseEnabled) ELSE Restored(identity)

EndPopulationTransaction(again) ==
  /\ depth # 0
  /\ depth' = depth - 1
  /\ IF depth = 1
       THEN /\ redisguise' = FALSE
            /\ identity' = NoSnapshots
            /\ redone' = {}
            /\ client' = AfterEnd(redisguise \/ again)
       ELSE /\ redisguise' = (redisguise \/ again)
            /\ UNCHANGED << identity, redone, client >>

\* Inside CountPotentialVoters and the script's IsBot nothing but another such
\* call happens; the other hooked functions connect, move and remove clients.
Counting == frames # << >> /\ frames[Len(frames)].kind = "count"
EngineMayAct == ~Counting

\* Plugins call the API at any time, event handlers that run inside a hooked
\* call included.
ApiMayCall == ~Counting
Redone(slots) == redone' = IF PopulationTransactionActive THEN redone \cup slots ELSE redone

Push(kind, enabled, snaps) ==
  frames' = Append(frames, [kind |-> kind, enabled |-> enabled, restore |-> snaps])
Pop == frames' = SubSeq(frames, 1, Len(frames) - 1)

BeginPopulationFrame(kind, enabled) ==
  /\ EngineMayAct /\ level = "up" /\ Len(frames) < MaxFrames
  /\ Push(kind, enabled, NoSnapshots)
  /\ IF enabled THEN BeginPopulationTransaction(TRUE) ELSE UNCHANGED << txnVars, client >>
  /\ UNCHANGED << mode, level, lives, managed >>

\* QuotaPre, HumanTeamPre: in player mode.
QuotaPre == BeginPopulationFrame("population", IsDisguiseEnabled)

\* SourceTV is not a bot to a team join.
IsManagedBotController(s) ==
  s \in managed /\ Present(s) /\ client[s].kind # "tv" /\ client[s].ctrl # "none"

JoinTeamPre(s) ==
  /\ Present(s)
  /\ BeginPopulationFrame("population", IsDisguiseEnabled /\ IsManagedBotController(s))

\* EndMatchPre: only when the teams are picked anew.
EndMatchPre(pickNewTeams) ==
  BeginPopulationFrame("population", IsDisguiseEnabled /\ pickNewTeams)

\* HookDispatchConCommandPre: the bot_add and kick commands.
DispatchConCommandPre(populationCommand) ==
  BeginPopulationFrame("command", IsDisguiseEnabled /\ populationCommand)

\* The POST callback of whatever population call is innermost.
EndPopulationFrame ==
  LET top == frames[Len(frames)]
  IN  /\ frames # << >> /\ top.kind # "count"
      /\ Pop
      /\ IF top.enabled
           THEN EndPopulationTransaction(top.kind = "population" \/ IsDisguiseEnabled)
           ELSE UNCHANGED << txnVars, client >>
      /\ UNCHANGED << mode, level, lives, managed >>

\* VotersPre and ScriptIsBotPre take a snapshot of their own.
CountCaptures_OutsideOnly == depth = 0
CountCaptures == IsDisguiseEnabled
CountPre ==
  /\ level = "up" /\ Len(frames) < MaxFrames
  /\ Push("count", CountCaptures, IF CountCaptures THEN Captured ELSE NoSnapshots)
  /\ client' = IF CountCaptures THEN AfterCapture ELSE client
  /\ UNCHANGED << mode, level, lives, managed, txnVars >>

CountPost ==
  /\ Counting
  /\ Pop
  /\ client' = Restored(frames[Len(frames)].restore)
  /\ UNCHANGED << mode, level, lives, managed, txnVars >>

(***************************************************************************)
(* Clients.                                                                *)
(***************************************************************************)
NewClient(kind, ctrl) ==
  [kind |-> kind, life |-> lives + 1, fake |-> kind # "human", ctrl |-> ctrl,
   phase |-> "connected"]

\* HookOnClientConnectedPost and AdoptClient; picked: the pool had an entry.
OnClientConnected(s, kind, ctrl, picked) ==
  LET c == NewClient(kind, ctrl)
      adopted == kind # "human" /\ picked
  IN  /\ EngineMayAct /\ level = "up" /\ ~Present(s) /\ lives < MaxLives
      /\ kind = "human" => ctrl # "fake"
      /\ kind # "human" => ctrl # "player"
      /\ lives' = lives + 1
      /\ managed' = IF adopted THEN managed \cup {s} ELSE managed
      /\ client' = [client EXCEPT ![s] =
           IF adopted /\ IsDisguiseEnabled THEN Disguised(c) ELSE c]
      /\ UNCHANGED << mode, level, txnVars, frames >>

\* The engine creates the controller of a client that has none yet, with the
\* flag that the client's own fake-player flag calls for.
CreateController(s) ==
  /\ EngineMayAct /\ Present(s) /\ client[s].ctrl = "none"
  /\ client' = [client EXCEPT ![s].ctrl = IF client[s].fake THEN "fake" ELSE "player"]
  /\ UNCHANGED << mode, level, lives, managed, txnVars, frames >>

\* HookClientPutInServerPost; available: the SteamID is still unused.
ClientPutInServer(s, available) ==
  LET put == [client[s] EXCEPT !.phase = "active"]
      tv == client[s].kind = "tv"
  IN  /\ EngineMayAct /\ level = "up"
      /\ Present(s) /\ client[s].phase = "connected" /\ client[s].ctrl # "none"
      /\ managed' = IF tv \/ ~available THEN managed \ {s} ELSE managed
      /\ client' = [client EXCEPT ![s] =
           IF s \notin managed \/ tv THEN put
           ELSE IF ~available THEN AsBot(put)
           ELSE IF IsDisguiseEnabled THEN Disguised(put) ELSE put]
      /\ UNCHANGED << mode, level, lives, txnVars, frames >>

\* HookClientDisconnectPre; the engine frees the client afterwards.
ClientDisconnect(s) ==
  LET left == [client[s] EXCEPT !.phase = "leaving"]
  IN  /\ EngineMayAct /\ Present(s) /\ client[s].phase # "leaving"
      /\ client' = [client EXCEPT ![s] = IF s \in managed THEN AsBot(left) ELSE left]
      /\ managed' = managed \ {s}
      /\ redone' = redone \ {s}
      /\ UNCHANGED << mode, level, lives, depth, redisguise, identity, frames >>

FreeClient(s) ==
  /\ EngineMayAct /\ Present(s) /\ client[s].phase = "leaving"
  /\ client' = [client EXCEPT ![s] = NoClient]
  /\ UNCHANGED << mode, level, lives, managed, txnVars, frames >>

(***************************************************************************)
(* API calls and levels.                                                   *)
(***************************************************************************)
\* ApplySteamIdCommand, once the SteamID was found available.
ApplySteamIdCommand(s) ==
  /\ ApiMayCall /\ s \in managed /\ Present(s)
  /\ client' = [client EXCEPT ![s] = IF IsDisguiseEnabled THEN AsPlayer(@) ELSE @]
  /\ Redone({s})
  /\ UNCHANGED << mode, level, lives, managed, depth, redisguise, identity, frames >>

\* SetIdentityMode, when it is accepted (see LevelLifecycle).
SetIdentityMode(newMode) ==
  /\ ApiMayCall /\ level = "up" /\ mode # newMode
  /\ mode' = newMode
  /\ client' = ManagedDisguise(client, newMode = "Player")
  /\ Redone(managed)
  /\ UNCHANGED << level, lives, managed, depth, redisguise, identity, frames >>

\* HookStartChangeLevelPre.
StartChangeLevel ==
  /\ EngineMayAct /\ level = "up"
  /\ client' = ManagedDisguise(client, FALSE)
  /\ managed' = {} /\ redone' = {}
  /\ UNCHANGED << mode, level, lives, depth, redisguise, identity, frames >>

\* OnLevelShutdown; player mode is only suspended.
OnLevelShutdown ==
  /\ frames = << >> /\ level = "up"
  /\ level' = "down"
  /\ managed' = {}
  /\ mode' = "Bot"
  /\ UNCHANGED << client, lives, txnVars, frames >>

\* OnLevelInit, once the old level's fake clients are gone; player mode is
\* resumed when it was suspended and the new server can be hooked.
OnLevelInit(newMode) ==
  /\ level = "down"
  /\ \A s \in Slots : Present(s) => client[s].kind = "human"
  /\ level' = "up"
  /\ mode' = newMode
  /\ client' = ManagedDisguise(client, newMode = "Player")
  /\ UNCHANGED << lives, managed, txnVars, frames >>

Init ==
  /\ mode \in {"Bot", "Player"}
  /\ level = "up"
  /\ client = [s \in Slots |-> NoClient]
  /\ lives = 0
  /\ managed = {}
  /\ depth = 0
  /\ redisguise = FALSE
  /\ identity = NoSnapshots
  /\ redone = {}
  /\ frames = << >>

HookStep ==
  \/ QuotaPre
  \/ \E s \in Slots : JoinTeamPre(s)
  \/ \E pickNewTeams \in BOOLEAN : EndMatchPre(pickNewTeams)
  \/ \E populationCommand \in BOOLEAN : DispatchConCommandPre(populationCommand)
  \/ EndPopulationFrame
  \/ CountPre
  \/ CountPost

ClientStep(s) ==
  \/ \E kind \in {"bot", "tv", "human"}, ctrl \in {"none", "fake", "player"},
        picked \in BOOLEAN : OnClientConnected(s, kind, ctrl, picked)
  \/ CreateController(s)
  \/ \E available \in BOOLEAN : ClientPutInServer(s, available)
  \/ ClientDisconnect(s)
  \/ FreeClient(s)
  \/ ApplySteamIdCommand(s)

Next ==
  \/ HookStep
  \/ \E s \in Slots : ClientStep(s)
  \/ \E newMode \in {"Bot", "Player"} : SetIdentityMode(newMode)
  \/ StartChangeLevel
  \/ OnLevelShutdown
  \/ \E newMode \in {"Bot", "Player"} : OnLevelInit(newMode)

Spec == Init /\ [][Next]_vars

-------------------------------------------------------------------------------
\* No open call has turned the bots back into bots for its time.
Undisturbed == \A i \in 1 .. Len(frames) : ~frames[i].enabled

\* Outside those calls every managed client shows what the identity mode asks
\* for, also after bots joined, left or changed slots and after the mode was
\* switched in the middle of a call: the ends of the calls are paired with the
\* beginnings that took effect, whatever the mode is by then.
DisguiseMatchesMode ==
  Undisturbed => \A s \in managed :
    /\ client[s].fake <=> mode = "Bot"
    /\ client[s].phase = "active" => client[s].ctrl = (IF mode = "Bot" THEN "fake" ELSE "player")

\* During a transaction the engine sees the controller of every managed bot in
\* the game as a bot, so quota, kicks and team joins count it as one (the
\* comments of QuotaPre and JoinTeamPre).
PopulationAlwaysSeesBots ==
  PopulationTransactionActive => \A s \in managed :
    client[s].phase = "active" => client[s].ctrl = "fake"

\* The same of every bot that no API call disguised during the transaction,
\* whatever joins, leaves or takes over a slot in the meantime.
PopulationSeesBots ==
  PopulationTransactionActive => \A s \in managed \ redone :
    client[s].phase = "active" => client[s].ctrl = "fake"

\* While a voter count or a script's IsBot runs, managed bots in the game are
\* bots, in their client and in their controller.
CountSeesBots ==
  Counting => \A s \in managed :
    client[s].phase = "active" => client[s].ctrl = "fake" /\ client[s].fake

\* While a level is up, a bot the plugin does not manage is an ordinary bot for
\* the engine, and no hook writes the flags of a real player, even one who took
\* over the slot of a bot that a transaction has captured: no release path and
\* no late restore touches a client that is not managed.
UnmanagedUntouched ==
  \A s \in Slots : Present(s) =>
    /\ level = "up" /\ s \notin managed /\ client[s].kind = "bot"
         => client[s].fake /\ client[s].ctrl # "player"
    /\ client[s].kind = "human" => s \notin managed /\ ~client[s].fake /\ client[s].ctrl # "fake"
===============================================================================
