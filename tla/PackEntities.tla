---------------------------- MODULE PackEntities ----------------------------
(***************************************************************************)
(* The engine packs entities for its clients on several threads.  Around   *)
(* every PackEntities call the hook clears FL_BOT on the pawns of the      *)
(* managed bots, and around a script's IsBot it turns the clients back     *)
(* into bots.  One recursive mutex, g_packEntitiesMutex, keeps the two and *)
(* the packing threads apart; the call depth and the list of the pawns to  *)
(* restore are thread-local.                                               *)
(***************************************************************************)
EXTENDS Integers, Sequences, FiniteSets

CONSTANTS Threads,
          GameThread,  \* the thread that runs scripts
          Slots,
          Entities,    \* places of the entity list
          NoThread,    \* nobody owns the mutex
          NoHandle,    \* a controller without a pawn
          NoPawn,      \* an empty place
          MaxSerials,  \* bound: pawns the engine creates in one behaviour
          MaxDepth     \* bound: hooked calls open at once on one thread

ASSUME PackAssumption ==
  /\ GameThread \in Threads /\ NoThread \notin Threads
  /\ MaxSerials \in Nat /\ MaxDepth \in Nat
  /\ NoHandle \notin [index : Entities, serial : Nat]
  /\ NoPawn \notin [serial : Nat, flag : BOOLEAN, own : BOOLEAN, deleting : BOOLEAN]

(***************************************************************************)
(* A handle is a place in the entity list and the serial number its pawn   *)
(* had.  flag is FL_BOT of the pawn, own what the engine gave it.          *)
(***************************************************************************)
Serials == 1 .. MaxSerials
Handle == [index : Entities, serial : Serials]
Pawn == [serial : Serials, flag : BOOLEAN, own : BOOLEAN, deleting : BOOLEAN]

VARIABLES mode,     \* m_identityMode
          managed,  \* slots the manager has adopted
          pawn,     \* engine: the pawn handle of each slot's controller
          entity,   \* engine: the entity list
          serials,  \* serial numbers used so far
          owner,    \* g_packEntitiesMutex: the thread that holds it
          calls,    \* each thread's open hooked calls, outermost first
          packed,   \* g_packedPawns of each thread
          covered   \* history: managed pawns when the outermost call began

engineVars == << mode, managed, pawn, entity, serials >>
vars == << engineVars, owner, calls, packed, covered >>

TypeOK ==
  /\ mode \in {"Bot", "Player"}
  /\ managed \subseteq Slots
  /\ pawn \in [Slots -> Handle \cup {NoHandle}]
  /\ entity \in [Entities -> Pawn \cup {NoPawn}]
  /\ serials \in 0 .. MaxSerials
  /\ owner \in Threads \cup {NoThread}
  /\ calls \in [Threads -> Seq({"pack", "isbot", "isbot off"})]
  /\ packed \in [Threads -> SUBSET Handle]
  /\ covered \in [Threads -> SUBSET Handle]

IsDisguiseEnabled == mode = "Player"

\* g_packEntitiesDepth of the thread.
Packing(t) == \E i \in DOMAIN calls[t] : calls[t][i] = "pack"
InScript(t) == \E i \in DOMAIN calls[t] : calls[t][i] # "pack"
Top(t) == calls[t][Len(calls[t])]

(***************************************************************************)
(* Pawns.                                                                  *)
(***************************************************************************)
\* The entity a handle still names: right serial, not being deleted.
Lives_ByIndex(h) == entity[h.index] # NoPawn /\ ~entity[h.index].deleting
Lives(h) ==
  /\ entity[h.index] # NoPawn
  /\ entity[h.index].serial = h.serial
  /\ ~entity[h.index].deleting

\* ResolveClientPawn for every managed slot.
ManagedPawns == {pawn[s] : s \in {z \in managed : pawn[z] # NoHandle /\ Lives(pawn[z])}}

\* A pawn that has lost FL_BOT already, for instance one shared by two slots,
\* is not recorded again.
ApplyBotFlagOverride(t) ==
  LET modified == {h \in ManagedPawns : entity[h.index].flag}
  IN  /\ packed' = [packed EXCEPT ![t] = modified]
      /\ entity' = [e \in Entities |->
           IF \E h \in modified : h.index = e THEN [entity[e] EXCEPT !.flag = FALSE] ELSE entity[e]]

RestoreBotFlagOverride(t) ==
  entity' = [e \in Entities |->
    IF \E h \in packed[t] : h.index = e /\ Lives(h) THEN [entity[e] EXCEPT !.flag = TRUE]
                                                    ELSE entity[e]]

(***************************************************************************)
(* The hooks.  The mutex is recursive: its owner may take it again, and it *)
(* is free when the owner's outermost call has returned.                   *)
(***************************************************************************)
Lock_Never(t) == owner' = t
Lock(t) == owner \in {NoThread, t} /\ owner' = t
Unlock(t) == owner' = IF Len(calls[t]) = 1 THEN NoThread ELSE owner

Enter(t, call) == Len(calls[t]) < MaxDepth /\ calls' = [calls EXCEPT ![t] = Append(@, call)]
Leave(t) == calls' = [calls EXCEPT ![t] = SubSeq(@, 1, Len(@) - 1)]

\* Nothing but another IsBot happens inside a script's IsBot.
PackPre(t) ==
  /\ ~InScript(t)
  /\ Lock(t)
  /\ Enter(t, "pack")
  /\ IF ~Packing(t) /\ IsDisguiseEnabled
       THEN ApplyBotFlagOverride(t) /\ covered' = [covered EXCEPT ![t] = ManagedPawns]
       ELSE UNCHANGED << entity, packed, covered >>
  /\ UNCHANGED << mode, managed, pawn, serials >>

\* Only the return of the outermost call restores.
Outermost(t) == \A i \in 1 .. Len(calls[t]) - 1 : calls[t][i] # "pack"

PackPost(t) ==
  /\ calls[t] # << >> /\ Top(t) = "pack"
  /\ Leave(t)
  /\ IF Outermost(t)
       THEN /\ RestoreBotFlagOverride(t)
            /\ packed' = [packed EXCEPT ![t] = {}]
            /\ covered' = [covered EXCEPT ![t] = {}]
       ELSE UNCHANGED << entity, packed, covered >>
  /\ Unlock(t)
  /\ UNCHANGED << mode, managed, pawn, serials >>

\* "isbot": the call captured and restored the bots' identity (Population),
\* without telling the clients.
ScriptIsBotPre_Unlocked(t) ==
  /\ t = GameThread
  /\ Enter(t, IF IsDisguiseEnabled THEN "isbot" ELSE "isbot off")
  /\ UNCHANGED << engineVars, owner, packed, covered >>
ScriptIsBotPre(t) ==
  /\ t = GameThread
  /\ Lock(t)
  /\ Enter(t, IF IsDisguiseEnabled THEN "isbot" ELSE "isbot off")
  /\ UNCHANGED << engineVars, packed, covered >>

ScriptIsBotPost(t) ==
  /\ calls[t] # << >> /\ Top(t) # "pack"
  /\ Leave(t)
  /\ Unlock(t)
  /\ UNCHANGED << engineVars, packed, covered >>

(***************************************************************************)
(* The engine and the rest of the plugin, on the game thread.              *)
(***************************************************************************)
EngineMayAct == ~InScript(GameThread)
hookVars == << owner, calls, packed, covered >>

SetMode(newMode) ==
  /\ EngineMayAct /\ mode # newMode
  /\ mode' = newMode
  /\ UNCHANGED << managed, pawn, entity, serials, hookVars >>

Adopt(s) ==
  /\ EngineMayAct /\ s \notin managed
  /\ managed' = managed \cup {s}
  /\ UNCHANGED << mode, pawn, entity, serials, hookVars >>

Release(s) ==
  /\ EngineMayAct /\ s \in managed
  /\ managed' = managed \ {s}
  /\ UNCHANGED << mode, pawn, entity, serials, hookVars >>

\* A pawn for the slot's controller: FL_BOT only if the slot holds a bot.
CreatePawn(s, e, isBot) ==
  /\ EngineMayAct /\ entity[e] = NoPawn /\ serials < MaxSerials
  /\ s \in managed => isBot
  /\ serials' = serials + 1
  /\ entity' = [entity EXCEPT ![e] =
       [serial |-> serials + 1, flag |-> isBot, own |-> isBot, deleting |-> FALSE]]
  /\ pawn' = [pawn EXCEPT ![s] = [index |-> e, serial |-> serials + 1]]
  /\ UNCHANGED << mode, managed, hookVars >>

\* Two controllers may refer to one pawn: a player takes over a bot.
SharePawn(s, z) ==
  /\ EngineMayAct /\ pawn[s] # NoHandle /\ pawn[z] # pawn[s]
  /\ pawn' = [pawn EXCEPT ![z] = pawn[s]]
  /\ UNCHANGED << mode, managed, entity, serials, hookVars >>

MarkForDelete(e) ==
  /\ EngineMayAct /\ entity[e] # NoPawn /\ ~entity[e].deleting
  /\ entity' = [entity EXCEPT ![e].deleting = TRUE]
  /\ UNCHANGED << mode, managed, pawn, serials, hookVars >>

\* The handles that name it stay where they are.
Delete(e) ==
  /\ EngineMayAct /\ entity[e] # NoPawn /\ entity[e].deleting
  /\ entity' = [entity EXCEPT ![e] = NoPawn]
  /\ UNCHANGED << mode, managed, pawn, serials, hookVars >>

Init ==
  /\ mode \in {"Bot", "Player"}
  /\ managed = {}
  /\ pawn = [s \in Slots |-> NoHandle]
  /\ entity = [e \in Entities |-> NoPawn]
  /\ serials = 0
  /\ owner = NoThread
  /\ calls = [t \in Threads |-> << >>]
  /\ packed = [t \in Threads |-> {}]
  /\ covered = [t \in Threads |-> {}]

HookStep(t) == PackPre(t) \/ PackPost(t) \/ ScriptIsBotPre(t) \/ ScriptIsBotPost(t)

EngineStep ==
  \/ \E newMode \in {"Bot", "Player"} : SetMode(newMode)
  \/ \E s \in Slots :
       \/ Adopt(s)
       \/ Release(s)
       \/ \E e \in Entities, isBot \in BOOLEAN : CreatePawn(s, e, isBot)
       \/ \E z \in Slots : SharePawn(s, z)
  \/ \E e \in Entities : MarkForDelete(e) \/ Delete(e)

Next == EngineStep \/ \E t \in Threads : HookStep(t)

Spec == Init /\ [][Next]_vars

-------------------------------------------------------------------------------
\* The pawns that were managed bots when a thread's outermost pack began are
\* packed without FL_BOT until that call returns, whatever the other threads
\* and nested calls on this one do.
PackedWithoutFlag ==
  \A t \in Threads : \A h \in covered[t] : Lives(h) => ~entity[h.index].flag

\* No pawn loses or gains FL_BOT by the hook for longer than the call: not when
\* pawns are shared, deleted or replaced in the list while packed, not when a
\* slot is released or the mode changes before the call returns.
FlagReturned ==
  \A e \in Entities :
    /\ entity[e] # NoPawn /\ ~entity[e].deleting
    /\ \A t \in Threads : [index |-> e, serial |-> entity[e].serial] \notin packed[t]
    => entity[e].flag = entity[e].own

\* No thread packs the bots while a script on another sees them as bots.
NoPackDuringScript ==
  \A t, u \in Threads : InScript(t) /\ Packing(u) => t = u
===============================================================================
