# BotHider in TLA+

BotHider makes the bots of a CS2 server look like players. A Metamod plugin in
C++ (`src/src`) hooks the engine and gives each bot an identity of
`bot_info.json`; a CounterStrikeSharp provider in C# (`src/csharp`) offers an
API to other plugins and shows the identity on the controllers; a console tool
(`src/tools`) fills in scoreboard flairs. The repository has no tests. This
directory holds the specifications of the parts in which order, failure and
slot reuse decide correctness, the TLC runs that check them, and TLAPS proofs
about all of them.

Check one run with `tlc -config MCIdentityPool.cfg MCIdentityPool`, one proof
module with `tlapm IdentityPoolProofs.tla`. `PROJECT.json` lists runs, mutants,
theorems, hazards and, per definition, the source lines it models.

## Inventory

Paths are relative to `src/`. Everything native runs on the game thread (except
PackEntities), and so does the provider: a hook, an event handler or a queued
write is one atomic step. What interleaves is the order of the hooks of
different clients, calls nested in calls, frames between a request and its
execution, and the threads that pack entities.

| Component | State | Operations | What is hard | What makes it correct |
|---|---|---|---|---|
| Identity registry (`features/identity/fake_client_manager`, `identity_state`, `client_hooks`, `features/botinfo`) | slot snapshots, slot-to-entry bindings, assignment flags, incarnation counter | adopt, late adoption at load, re-check at put-in-server, SetSteamId, disconnect, SourceTV release, level teardown | slots are reused; players take SteamIDs between check and use; the counter wraps | no entry leased twice or leaked; SteamIDs distinct; the engine's client agrees; tokens unambiguous |
| Disguise and population transactions (`identity_hooks`, `identity_runtime`) | mode, transaction depth, captured snapshots, stacks of frames | begin/end around quota, team join, commands, end of match; counts of voters; SetIdentityMode | calls nest; clients join, leave and reuse slots while a snapshot is held; API calls inside | the engine counts bots as bots; afterwards the disguise is what the mode says; players untouched |
| Deferred work (`command_hooks`, `identity_runtime`) | kick queue, controller removal queue | intercept kick, drain at frame end, queue and drain controller removal | executed frames later, after renames, reuse, rebinding; the manager's copy of a name is cut to 31 bytes | hits its target or nobody, unless its name is cut; never a controller in use; settles |
| Lifecycle and mode (`plugin.cpp`, `command_hooks`) | load stage, hooked server, mode, mode for the next level | Load with rollback, attach/detach of the change-level hook, level init/shutdown | every stage can fail; servers are replaced | hook on the tracked server only; Player mode only with it; nothing left by a failed Load |
| Avatars (`features/avatar`, `BridgeClient.cs`) | requests, per-slot progress, string table, file reads | SetBotAvatar, FinishAvatarReads, ProcessOverrides per frame | rows are keyed by SteamID and bots exchange SteamIDs; writes fail; reads end late | HasBotAvatar tells the truth; no row without owner; index 0 reserved |
| Presentation (`BotHiderImplPlugin.cs`, `ClanTagPresenter.cs`) | observed incarnation, pending flags, applied values, clan base per slot, generation | writes queued for the next frame, reconciliation every 2 s and at spawns and deaths, reset, restore, load and unload | slot reuse, map change and reload between queue and write; a write fails before or after it set the field | no stale write has the last word; the wanted value is published in the end; the controller gets its own clan back |
| PackEntities detour (`identity_hooks`, `identity_runtime`) | recursive mutex, call depth and saved pawns per thread | pre/post around a parallel engine function, script IsBot under the same mutex | threads, nesting, pawns shared, deleted or replaced in between | bots packed without FL_BOT; every pawn gets it back; scripts never see a pack in progress |
| Detours of player mode (`identity_hooks`, `gamedata.cpp`, `offsets.cpp`, `plugin.cpp`) | resolved dependencies, target addresses, hooks in place | resolve, install, check, publish, remove | any of them may be missing; a removal waits for calls that wait for a mutex; Load may be called again | published = in place; a failed Load leaves nothing; every Load ends |
| Ping display (`features/ping`, `config.cpp`) | configured range, ring of samples, last written average | take the range, record, average every 32 ticks, reset | a range half from the file; one ring for all bots of a slot | in the range; the average of this bot's samples |
| Provider slot (`BotHiderProvider.cs`, `bridge/exports.cpp`) | static API reference, bridge connection | attach, detach | one per assembly that loads the API | assigned and cleared by one instance |
| Flair generator (`tools/BotHiderFlairGenerator`) | Steam session, pending request, document, file | connect, query with retries, checkpoint, save | late answers, timeouts, lost session, crash in a save | right flair per account; file whole; bounded loss |
| Commands, permissions, config, PNG check, game data, logging | little or none | parsing and look-ups | input boundaries | pure functions |

Interactions: the engine calls the hooks; the hooks call the registry and the
runtime; the provider calls the bridge exports with the incarnation it read, so
that a call for a bot that left is refused; other plugins call the provider.

## Modules

| Module | Models | Runs |
|---|---|---|
| `IdentityLease` | abstract: each identity is held by one slot at a time, granted when free, returned by its holder | (property of `pool`) |
| `IdentityPool` | identity registry; implements `IdentityLease` | `pool` |
| `IdentityPoolProofs` | theorems about `IdentityPool` and `PingDisplay` | |
| `Population` | disguise flags, transactions, counts, mode | `population`, `population_api` |
| `PopulationProofs` | theorems about `Population` | |
| `DeferredRemoval` | kick queue and controller removal queue | `removal` |
| `DeferredRemovalProofs` | theorems about `DeferredRemoval` | |
| `LevelLifecycle` | Load, change-level hook, mode across levels | `level` |
| `LevelLifecycleProofs` | theorems about `LevelLifecycle` and `Detours` | |
| `AvatarOverride` | avatar reads, requests and string table | `avatar`, `avatar_live` |
| `AvatarOverrideProofs` | theorems about `AvatarOverride` | |
| `Presentation` | the provider's fields on the controllers, the clan presenter | `presentation` |
| `PresentationProofs` | theorems about `Presentation` | |
| `PackEntities` | packing hook, script IsBot, FL_BOT of pawns | `pack` |
| `PackEntitiesProofs` | theorems about `PackEntities` | |
| `Detours` | install and removal of the detours in Load | `detours` |
| `PingDisplay` | ping range, jitter, ring and average | `ping` |
| `FlairFile` | abstract: the file changes by whole saves of a bounded number of right answers | (property of `flair`) |
| `FlairGenerator` | the console tool; implements `FlairFile` | `flair` |
| `FlairGeneratorProofs` | theorems about `FlairGenerator` | |

A proof module speaks of two components where the names of one tell them apart
from the other (`PingSpec`, `DetourSpec`, ...); the behaviours are not composed.
The modules share no variables; where one depends on what another does, it
takes that as an action of its environment with the same guard: `Presentation`
and `PackEntities` adopt and release slots as `IdentityPool` does,
`PackEntities` takes the captured identities of a script's IsBot from
`Population`, `Detours` is the inside of the stages `schema` to `virtuals` of
`LevelLifecycle`, and `AvatarOverride` receives its SteamID changes from the
registry.

`MC...` modules only give constants values and symmetry sets. Names ending in
`_Something` (for instance `ReleaseSlots_KeepAssignment`) are mutated forms of
the definition they stand before; no specification uses them, they show that
the properties can fail.

### IdentityPool

Variables carry the code's names: `m_slots` (snapshots), `m_assigned`
(BotInfoStore flags), `g_slotEntries` (binding), `m_nextIncarnation`. The
engine's client list is `client`, one record per slot with kind, SteamID, phase
and the SourceTV flag. Each hook is an action: `OnClientConnected` (the
connected hook and the whole `AdoptClient` it calls), `ClientPutInServer` with
its SourceTV release and its second availability check, `ClientDisconnect`,
`ApplySteamIdCommand`, `GameFrame` (the SourceTV scan), `StartChangeLevel`,
`OnLevelShutdown`. `AdoptExistingBots`, the loop of a late load, is modelled
one slot per step; no other action runs before it is done. `Candidates`
keeps the rule that an entry whose name equals the bot's engine name is
preferred and abstracts the random choice to "any of the rest".

The bridge setters compare the caller's incarnation with the slot's; that check
is what `FreshIncarnations` is for: a token kept from an earlier adoption never
matches a later one, even across the wrap, as long as fewer adoptions than the
counter's range took place (`MaxAdoptions <= IncMax`; 2^64 in the code).

`ClashOnlyByHuman` says what the two checks achieve: the plugin never makes a clash itself, a player may connect with an ID
a bot already shows, and a bot that is still entering gives way. A bot already
in the game does not: that is what the code does.

### Population

`frames` is the stack of hooked calls that are open; every frame remembers
whether the disguise was enabled when it began (the code's per-call memory) so
that begin and end pair up although the mode may change in between.
`Captured`/`Restored` are the snapshot and its restore; a snapshot names the
client by `life` (pointer and user ID in the code), so that a restore after slot
reuse does nothing. Client and controller carry their own flag, because hooks
write both and not always to the same value. `redone` is a history variable: the
slots whose bot an API call disguised during the open transaction, which
`PopulationSeesBots` leaves out and `PopulationAlwaysSeesBots` does not.

### DeferredRemoval

A kick intercepted for a managed bot is queued with slot, life and incarnation;
the drain validates it, and the command it dispatches carries nothing but the
manager's copy of the bot's name, hence `EngineNames` (the engine makes names
unique) and `ApplyClientName`. The engine's names have no limit; `SetSlotName`
copies 31 bytes of what the engine settled on, or of the old name if it refused,
which is the constant `CopyText`, a function on names. Persona names come out of
fields of the same size and fit. So the copy differs from the engine's name
exactly when the latter is too long (`NameCut`), as it may be once the engine has
put a number in front of a name of 29 to 31 bytes. `KickTakesEffect` and
`KickHitsTarget` except that case and nothing else. A frame is
split: engine steps may come between the drain of one kick and the next because
the dispatched command runs other code. Controller removal waits one frame if a
client still refers to the controller; `retained` controllers may be bound to
the next client. A life stands for a user ID and is never reused: the 16-bit
counter of the engine comes round after 65536 connects, and an entry of either
queue is gone two simulating frames after it was made.

### LevelLifecycle

`stage` walks through the early returns of `Load`; `res` is what has been taken;
`GivenBack` is what each failure path releases. `registered` is the set of
servers whose StartChangeLevel is hooked, which the plugin tracks by one
pointer. `chosen` is a history variable: the last mode configured or accepted.

### AvatarOverride

`ProcessOverrides` is a loop over the slots and each turn (`ProcessTurn`) is a
step, as each may fail and writes the shared table; `caller` says from where the
loop was entered. A table is a sequence of rows, the first of which is the
reserved one. PNG bytes are abstract: a file's bytes are named by the call that
asked for them. Reads end in any order (`ReadAvatar`) and are handed over by
`FinishAvatarReads`.

### Presentation

Name, SteamID, crosshair, flair and clan do not depend on one another, so a
behaviour follows one of them, chosen in Init (`field`), and the module follows
the code where the five differ: name, SteamID and flair raise a pending flag
before they write and lower it after the players were told; crosshair and flair
compare with a cache of the applied value; the SteamID is read anew when a
queued write runs; the clan is never set through the API but kept with its
original value by `ClanTagPresenter`.

A controller has the value the server sees (`shown`) and the value the players
were told (`published`); `fail` chooses where a write throws: before the field
is set, or between setting it and telling the players, or (flair) no inventory.
`SetField` is the API call with its queued write, `RunQueuedWrite` the next
frame; a queued write knows its incarnation and whether client and generation
are still the ones it was queued under (`current`).

`forgotten` is a history variable. It marks a controller for which the provider
has lost the knowledge that a write is owed, and the properties leave such a
controller out until the next complete write. There are four ways: a reset drops
a raised pending flag, an unload drops a clan that could not be restored, a
controller with a saved clan changes its user, and a crosshair, which has no
pending flag, is set but not notified while the cache already holds the new
value. All four need a write that threw before.

### PackEntities

Every thread has its stack of open hooked calls; `owner` is the recursive mutex.
A pawn is a place in the entity list with a serial number, FL_BOT (`flag`) and
the value the engine gave it (`own`, history); handles keep naming a place after
its pawn was deleted and replaced. `covered` is a history variable: the pawns of
the managed bots when the outermost call began. The engine's actions take place
on the game thread, at any time but within a script's IsBot; those between two
packs of one thread and within a pack on another are all explored.

### Detours

`target` holds the addresses that are published, `active` the hooks in place,
`deps` the resolved dependencies that are not hooks. Each hook is installed in a
step of its own and may fail; the removal takes two steps per hook, as the hook
library first takes the hook out and then waits for the calls inside. A thread
that packs goes through "waiting" (for the mutex) and "in"; a call that found no
hook is "unhooked" and does not count. `Prepare*` may leave an old target alone
when it returns early, which is why the module runs Load again after a failure.

### PingDisplay

Load takes the two ends of the range from integers, a missing key or a key of
another type; `NextSamples` is the set of values the jitter can yield. The
window, 64 ticks and a write every 32, is 4 and 2 in the run. `recent` is a
history variable: the samples of the present bot that are in the window;
`Total` adds them up anew, where the code keeps a running sum and a ring index.

### FlairGenerator

Main task, callback pump and Steam interleave. `todo` is the set of entries
still to query; they are taken in file order, the least first. A request is named by its entry
and attempt; the coordinator may answer it once, at any later time, or never.
The pump takes the pending completion under the lock (`OnProfile`) and sets it
after the unlock (`CompleteCaptured`). A save is three steps, so `Kill` can
strike between them; `Start` runs the program again on the file. The
`_retryingConnectionManager` flag is the session state "closing".

`FlairFile` is what the file itself may do, whatever becomes of the run:
`ImplementsFile` maps the rename of the temporary file to a save of the entries
in which document and file differ, the start of a run to a choice of
`--overwrite`, and every other step, a crash included, to a stutter.

## Runs, bounds and results

All runs pass except `population_api`, which finds a disagreement (below).

| Run | Bounds | Why they are enough |
|---|---|---|
| `pool` | 3 slots, 2 entries, 3 SteamIDs, 2 names, counter 1..3 started at 3, 2 adoptions | more slots than entries (exhaustion), an ID no entry has, the wrap at the first adoption |
| `population`, `population_api` | 2 slots, 3 clients, 2 nested calls | slot reuse inside a call; two calls suffice to change the mode between an outer and an inner end, or to count inside a transaction |
| `removal` | 2 slots, 3 names (one cut to another), 2 clients, 2 kicks | the second client takes over the name, the slot or the controller of the first while a kick and a removal wait; a kick behind a kick; a cut name, borne by the other client or by none |
| `level` | 3 servers, any number of levels | server kept, replaced, lost, and returned to |
| `avatar` | 2 slots, 3 SteamIDs, 2 adoptions, 2 asks, 2 moves | two bots exchange SteamIDs with one spare ID |
| `avatar_live` | 2 slots, 2 SteamIDs, 2 adoptions, 1 ask, 1 move, all contents of a fresh table (empty, sentinel, data at 0) | a read outlives its bot; retries of a clear and of a set |
| `presentation` | 1 slot, 2 values and none, 2 clients, 2 queued writes, each of the five fields | slots do not touch one another; two clients reuse the slot and its controller, two writes can be out of date for different reasons |
| `pack` | 2 threads, 2 slots, 2 places, 3 pawns, 2 nested calls | two threads contend, calls nest, a place is reused and a pawn shared while packed |
| `ping` | window 4, write every 2, numbers below, in and above the range | the ring wraps within a bot and a second bot follows; every way a range can be invalid |
| `detours` | 2 threads, 2 calls of Load, all 7 hooks | one thread inside the hook and one waiting during the removal; a second Load on what the first left |
| `flair` | 4 keys (two of one account, one invalid, one with a flair), checkpoint every 2, 2 attempts, 1 change of connection manager, 2 runs | an answer to one entry arrives while another of the same or of another account is asked; a crash, then a second run on what it left |

The bounds are constants named in the modules (`MaxAdoptions`, `MaxLives`,
`MaxFrames`, `MaxKicks`, `MaxAsks`, `MaxMoves`, `MaxQueue`, `MaxSerials`,
`MaxDepth`, `MaxLoads`, `MaxRuns`) and appear as guards of actions of the
environment: clients, callers, the engine. Symmetry is used only in runs without
liveness. `CHECK_DEADLOCK FALSE` appears where the program really ends: after a
failed Load (`level`), and after the last run of the generator (`flair`).

What the runs show, beyond the sentence each has in `PROJECT.json`:

* `avatar_live`: `UnwantedCleared` is also what keeps bytes out of index 0 of the
  table, which the engine takes for players without a row: the code can never
  clear that row, so bytes once written there would stay. Without the reserved
  row, or without the refusal to write index 0, the run fails. `RequestsApplied`
  on the other hand excepts a request that index 0 stands in the way of.
* `presentation`: a queued write may be out of date in value, bot, map or
  provider; the incarnation, the generation and the client each exclude one of
  these, and none of the three alone would do (`WriteIsValid_AnyBot`).
* `ping`: the average cannot leave the range because every sample is in it; the
  baseline shown before the first write is drawn from the same range.

### Fairness

* `pool`: weak fairness of the game frame. `GameFrame` is a frame that simulates
  (`command_hooks.cpp:222` returns early in others); the engine runs those again
  and again while a level is up.
* `removal`: the engine goes on with its frames, and the code of a frame runs
  through the kicks and the removals; joins complete; infinitely many frames
  simulate.
* `avatar_live`: frames, loop turns and ticks run; strong fairness says that the
  one-second retry comes up and that the engine does not refuse the same write
  for ever: each write that is tried again and again succeeds once.
* `presentation`: weak fairness of a reconciliation whose writes succeed. It runs
  every two seconds while a map is up, and only writes that fail for ever could
  keep it from succeeding.
* `detours`: Load runs on, and a PackEntities call returns when it has the mutex
  or needs none. A thread that waits while others take turns need not get it:
  the removal takes the hook out first, so no new calls come.
* `flair`: only the main task is scheduled and its timers fire. Nothing is
  assumed of Steam.

### Finding

`population_api`: `ApplySteamIdCommand` (`command_hooks.cpp:266-270`) clears the
controller's bot flag whether or not a population transaction is open, whereas
adoption (`client_hooks.cpp:90-95`) keeps the flag during one. A SetBotSteamId
made from inside a hooked function, or a switch to Player mode there, makes the
engine see that bot as a player for the rest of the function
(`PopulationAlwaysSeesBots` fails). For every bot that no API call touched during
the transaction it holds (`PopulationSeesBots`, run `population`), and the end of
the transaction repairs the flags (`DisguiseMatchesMode`).

### Observations

* `SetSlotName` (`fake_client_manager.cpp:160-164`) keeps 31 bytes of the name
  that the engine applied, though TECH.md:42 calls the result of GetPersonaName
  the engine-applied name. The deferred kick looks the bot up by the cut name
  (`command_hooks.cpp:108-118`): if nobody has it, the kick that the plugin took
  over from the engine is lost, and if another bot has it, that one is kicked.
  No run is set to fail on this: it is the exception `NameCut` of `KickTakesEffect`
  and `KickHitsTarget`, and `removal` refutes either of them without it.

The others contradict no documentation:

* A SourceTV slot that is released keeps its fake-player flag cleared
  (`identity_runtime.cpp:319-338`); `UnmanagedUntouched` speaks of bots only.
* If the hook cannot be bound at level init, the Player mode kept for the level
  is given up; `ModeFollowsChoice` counts that as the choice withdrawn.
* `ChangeLevelRestores` is a property of the step in which the level change
  begins: an API call after it, before shutdown, can disguise the bots again.
* A crosshair whose write threw before the players were told is not written
  again when the cache already holds its value (`BotHiderImplPlugin.cs:233`, no
  pending flag), and a reset of the slot drops the pending flags of the other
  fields (`:260-262`) without clearing what they stood for. Both need a write
  that throws; `forgotten` marks them.
* A Steam session lost between two requests leaves no trace: every later query
  of the generator times out and the run ends with exit code 0.

## Proofs

TLC agreed with each statement before it was proved. All hold for every value of
the constants that meets the named assumptions.

`IdentityPoolProofs` (assumptions `PoolAssumption`: entries have distinct
nonzero SteamIDs; `IncarnationAssumption`: no more adoptions than incarnations;
`NoClientAssumption`). None of the invariants is inductive alone.
`IndInv == TypeOK /\ RegistryInv /\ SteamIdInv`:

* `LeasesConsistent` ties assignment flags, bindings and the managed flag, so
  that a fresh entry is nobody else's; `IncarnationsDistinct` needs
  `IncarnationsIssued` (every incarnation in use was issued, and the counter is
  the last one), because the next number is fresh only relative to those;
* `ManagedSidsDistinct` needs `EngineAgrees`: adoption excludes the IDs of
  clients and of managed slots; `NoLingeringSid` needs the release paths to
  clear the client; `LateLoadPending` says what the unfinished late-load loop
  may rely on.

One lemma per action shows that it keeps the two halves; the theorems are
`TypeCorrect`, `LeasesAlwaysConsistent`, `SidsAlwaysDistinct`,
`EngineAlwaysAgrees`, `IncarnationsAlwaysDistinct`, `IncarnationsAlwaysFresh`
and the refinement `RegistryImplementsLease`: the refinement mapping sends an
entry to the slot bound to it, initial states map to initial states, and each
step maps to grants and returns of the abstract lease or to a stutter.
`ClashesAlwaysByHuman` is an action property: a step gives no client a new
SteamID, or one client an ID no other has, or a player connects (`SidStep`).

The second half of the module is about `PingDisplay` (assumption
`PingAssumption`). `PingIndInv` says that the ring holds the samples of `recent`,
the oldest at the write index once it is full (`Ring`), that `sum` is their
total, that every sample, the baseline and the ping shown lie in a valid range
(`RangeKept`), and that what was written last is what is shown (`WrittenShown`).
One tick adds a sample to the total and, when the ring is full, takes the oldest
from it (`TotalOfAppend`, `TotalOfTail`); the average of numbers of a range is in
the range (`TotalBounded`, `AverageBounded`). Theorems: `PingAlwaysInRange`,
`PingAlwaysAverage`, for every window, range and number of ticks. The lemmas
about `Total` need induction over the length of a sequence. The library states
induction with an operator parameter, which the provers cannot instantiate;
`NumbersByInduction` states it for a set of numbers instead, from the least
element of what is left out (`NatLessThanWellFounded`), and `PrefixSums` is a
recursive function that is shown to exist (`PrefixSumsDefined`).

`LevelLifecycleProofs` (assumption `LevelAssumption`: the null server is no
server). `IndInv` adds to the properties what relates them: the plugin has
nothing hooked before it is loaded (`NotLoaded`), Player mode and its pending
form need the detours (`ReadyForPlayer`), there are no bots between levels, and
the tracked server is the current one while a level is up (`BoundToServer`).
Theorems: `TypeCorrect`, `HookAlwaysTracked`, `PlayerAlwaysHooked`,
`ModeAlwaysFollowsChoice`, `ChangeLevelAlwaysRestores`. `FailureLeavesNothing`
has an invariant of its own, `LoadHolds`: at every stage the plugin holds
exactly what the stages before it took (`Held`), so that what a failing stage
gives back is all there is.

`PackEntitiesProofs` (assumption `PackAssumption`: the game thread is a thread,
and the null values are none of the values they stand for). Two invariants, the
second on top of the first:

* `MutexInv`: types; a thread has hooked calls open if and only if it owns the
  mutex (`LockHeld`); a thread that does not pack remembers no pawns.
  `NoPackDuringScript` follows, since a script and a pack are both open calls.
* `FlagInv`: `PackedWithoutFlag` and `FlagReturned`, with `PackedLostFlag` (a
  living pawn that a thread remembers had FL_BOT from the engine) and
  `SerialsKnown` (pawns and remembered handles have serial numbers already used,
  so that a pawn created later is none of them).

Theorems: `MutexAlwaysHeld`, `TypeCorrect`, `ScriptsNeverMeetPacking`,
`FlagAlwaysKept`, `BotsArePackedWithoutFlag`, `FlagAlwaysReturned`, for any
number of threads, slots, pawns and nested calls.

The second half of the module is about `Detours` (assumption
`DetourAssumption`). `HooksAsPublished` speaks of the ends of Load only, so
`DetourIndInv` follows it through the steps: during the installation a hook with
a target is in place or still in the list (`Installing`), which names no hook
twice; during the removal every hook in place is still in the list, and a thread
is inside the packing hook only while that hook is in place or about to be waited
for (`Removing`). Theorem: `AlwaysAsPublished`.

`PopulationProofs` (assumption `PopulationAssumption`: the null client and the
null snapshot are no values of their kind). What the bots look like depends on
the whole stack of open calls, so no property is inductive alone:

* `FramesPaired`: `depth` is the number of open transactions and not zero only
  if the last one will disguise the bots again; a count has only counts above
  it, and takes part in the mode because the mode does not change under it.
* `FlagsNow` gives the flags of every managed client from the mode, the counts
  and the depth; `CountsRestore` says that what an open count will restore are
  the flags due below it, for the client that is in the slot now. A restore then
  re-establishes `FlagsNow`.
* `ClientsInPlace`: a managed slot has a client that is not leaving.

Theorems: `TypeCorrect`, `UnmanagedAlwaysUntouched`, `PopulationAlwaysSees`,
`CountAlwaysSees`, `DisguiseAlwaysMatches`, at any depth of nesting.

`DeferredRemovalProofs` (assumption `DeferredAssumption`: `NoName` is no name,
the null client no client, and what is cut once is not cut again). A kick carries a name and a token, a controller
removal a handle and a user ID. `ClientsApart` (no two clients share a life, a
name or a controller) and `ManagedInPlace` (the manager holds what
fits of the name the engine settled on) make the name in the command that of one
client at most: the named one if its name fits, and else the bearer of what is
left of it (`KicksHitTheirTarget`). `RemovalsOfTheLeaving` (a queued user ID is used up or its client is
on its way out) is why a drain leaves the others' controllers:
`ControllersAreKept`. Also `TypeCorrect`.

`AvatarOverrideProofs` (assumptions `AvatarAssumption`: the null SteamID and the
reserved key are no SteamIDs of bots; `TableAssumption`: a table the engine
makes for a level has each key once and no bytes under the SteamIDs of
`bot_info.json`, which belong to nobody else on the server).

* `IsTable`: keys stay distinct, so that `FindStringIndex` finds the one row.
* `OneOwner` and `BytesOwned`: a row with bytes has one slot that has applied it,
  also while SteamIDs are exchanged inside the loop. Without `OneOwner` a slot
  that clears its former row would clear another's.
* `Published`: a SteamID the manager reports is the one the slot was processed
  for, under its present incarnation and request. During the loop there is one
  exception: a slot whose turn is still to come may have lost its former row to
  a slot before it; its own turn then moves it. `SidsApart` ends the exception.
* `ReadsInTime`: a read that is still for the bot in its slot began after the
  bot came and after its avatar was last cleared.
* `UnseenTableIsClean`: the first frame of a level finds no bytes to own.

Theorems: `TypeCorrect`, `ReadsAlwaysReachTheirBot`, `OverridesAlwaysOwned`,
`AvatarAlwaysApplied`.

`PresentationProofs` (assumption `PresentationAssumption`: the null snapshot,
controller and clan state are no values of their kind). Every operation on a
slot, from `WriteVisible` to `ResetAppliedSlot`, is shown to `Keep` the slot, so
that a step is proved by naming the operation it applies to which slots.

* `KeepsOwn` is `ClanIsGivenBack` for one slot with its controller.
* `NoStateInAdvance`: a clan state left from an earlier client does not name the
  client in the slot before that one has a controller; so a new controller, which
  shows its own clan, is not taken for one under a clan.
* `QueueOK`: a queued write that counts has the wanted value or a later one of
  the same bot follows it; none counts once the provider is unloaded, so that
  the caches stay empty until it is loaded (`UnloadedIsBlank`).

Theorems: `TypeCorrect`, `ClanAlwaysGivenBack` and the action property
`StaleWritesNeverLast`, for any number of slots, clients, values and queued
writes. `NoStaleWriteLast` speaks of the steps that take a write off the queue;
`QueueTaken` shows that only `RunQueuedWrite` does.

`FlairGeneratorProofs` (assumption `GeneratorAssumption`: `Invalid` is no
account, and a torn file is not a document). `IndInv` is `TypeOK` with two parts.

* `RequestInv`: a pending request is the one the task waits for, and its
  completion belongs to it (`PendingIsCurrent`); what the coordinator, the pump,
  the completion and the cache hold are answers to the accounts they name
  (`AnswersRight`), also when an answer comes for an attempt that timed out; the
  loop works on an entry that has an account (`EntryChosen`).
* `DataInv`: document and file hold old flairs and right answers, and where they
  differ the document has an answer (`DocumentsRight`); they differ in no more
  entries than were updated since the last checkpoint (`UnsavedCounted`), each of
  which was taken once (`Progress`); without `--overwrite` an entry still to do
  has no flair (`OldOnesKept`).

The next entry is the least of a set, which exists by `SetInduction`. Theorems:
`TypeCorrect`, `FlairsAlwaysRight`, `LossAlwaysBounded`, `RequestsNeverOverlap`,
the refinement `GeneratorImplementsFile`, in which `UnsavedCounted` bounds a save
and `OldOnesKept` says that it replaces nothing, and `FlairsAlwaysKept`, which
states the same of one flair over time (`KeepsFlairs`; no run lists it, as
`ImplementsFile` implies it).

Every invariant, every action property and both refinements that the passing
runs check are proved. Only model-checked is all liveness (`HltvReleased`,
`KickTakesEffect`, `RemovalsSettle`, `RequestsApplied`, `UnwantedCleared`,
`WantedIsPublished`, `ClanReturns`, `LoadEnds`, `RunEnds`): it needs fairness and
ENABLED, which are out of the prover's reach. `PopulationAlwaysSeesBots` is not
proved because it does not hold (`population_api`).

## Plan

Done, in this order of importance: registry, disguise, deferred work,
lifecycle, avatars, flair generator, presentation with the clan presenter,
packing, ping, detours; the proofs of all of them. What could follow:

1. A refinement of the avatar loop: a table in which every SteamID belongs to one
   slot, which the proofs of `OverridesOwned` and `AvatarIsApplied` already
   describe.
2. A composition of `IdentityPool` and `Population`, with one slot table, in the
   place of the actions that each takes from the other as its environment.

## Not modelled

* The provider slot: each assembly that loads the API has a slot of its own,
  filled once at load and cleared at unload; the loads, failed loads and unloads
  are actions of `Presentation`.
* Commands and permissions: chat commands parse their arguments and call the API
  operations that the modules take as input; the permission file is read once.
* The PNG check: a walk over the chunks of a buffer, without state.
* How addresses are found: patterns, relative addresses and schema look-ups read
  the game's binary. `Detours` takes from them what was found; the interfaces
  are a stage of `LevelLifecycle` that passes or fails.
* The reading of files: `Entries` are the identities Load accepted, and the
  settings are what the parser can hand on. The first writing of the settings
  file has no bearing on the values used.
* An Unload of a loaded plugin: the code refuses it.
* The visible ping on the controller: written unconditionally at every
  reconciliation, never compared or restored.
* Logging and the build.
