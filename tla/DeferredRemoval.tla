---------------------------- MODULE DeferredRemoval ----------------------------
(***************************************************************************)
(* Work that a hook puts off to the next game frame: bot_kick for a kick   *)
(* or kickid command that named a managed bot, and the removal of the      *)
(* controller that a kicked bot leaves behind.  Between the command and    *)
(* the frame, bots leave, join and are renamed, slots are reused and a     *)
(* controller may be bound to another client.                              *)
(*                                                                         *)
(* A client is identified by the number of its life, which stands for the  *)
(* client pointer, its user ID and, while it is managed, the incarnation   *)
(* of its slot (IdentityPool shows that incarnations are not reused; user  *)
(* IDs are 16 bits wide and repeat only after 65536 connects, which is     *)
(* left out).  The engine's names have no limit, the manager's copy of a   *)
(* name has 31 bytes.  SourceTV is left to IdentityPool.                   *)
(***************************************************************************)
EXTENDS Integers, Sequences

CONSTANTS kMaxSlots,
          Names,       \* names of clients; the engine keeps them distinct
          CopyText,    \* what the manager's 31 bytes hold of a name
          NoClient, NoName,
          MaxLives,    \* bound: clients the engine creates in one behaviour
          MaxKicks     \* bound: kicks waiting for a frame

Slots == 0 .. kMaxSlots - 1
Lives == 1 .. MaxLives

\* ctrl: the controller the client refers to, named after the life it was
\* created for.
Client ==
  [life : Lives, bot : BOOLEAN, name : Names, ctrl : Lives,
   phase : {"connected", "active", "leaving"}]

ASSUME DeferredAssumption ==
  /\ kMaxSlots \in Nat \ {0}
  /\ MaxLives \in Nat /\ MaxKicks \in Nat
  /\ NoName \notin Names /\ NoClient \notin Client
  /\ CopyText \in [Names -> Names]
  /\ \A n \in Names : CopyText[CopyText[n]] = CopyText[n]

\* Persona names come out of fields of the same size: nothing is cut from them.
PersonaNames == {CopyText[n] : n \in Names}

PendingBotKick == [slot : Slots, life : Lives, incarnation : Lives]
PendingControllerRemoval ==
  [handle : Lives, userId : Lives, referencedFrames : {0, 1}]

VARIABLES client,        \* engine: client list
          ctrl,          \* engine: controllers, "none", "live" or "deleted"
          lives,         \* clients created so far
          incarnation,   \* manager: incarnation of a slot, 0 if not managed
          slotName,      \* manager: name of a slot
          kicks,         \* g_pendingBotKicks
          draining,      \* the kicks DrainPendingBotKicks still has to look at
          removals,      \* g_pendingControllerRemovals
          pc             \* "engine", or where HookGameFramePost is

vars == << client, ctrl, lives, incarnation, slotName, kicks, draining, removals, pc >>

TypeOK ==
  /\ client \in [Slots -> Client \cup {NoClient}]
  /\ ctrl \in [Lives -> {"none", "live", "deleted"}]
  /\ lives \in 0 .. MaxLives
  /\ incarnation \in [Slots -> 0 .. MaxLives]
  /\ slotName \in [Slots -> Names \cup {NoName}]
  /\ kicks \in Seq(PendingBotKick) /\ Len(kicks) <= MaxKicks
  /\ draining \in Seq(PendingBotKick) /\ Len(draining) <= MaxKicks
  /\ removals \in SUBSET PendingControllerRemoval
  /\ pc \in {"engine", "kicks", "removals"}

Present(s) == client[s] # NoClient
IsManaged(s) == incarnation[s] # 0
UsedNames(s) == {client[t].name : t \in {u \in Slots \ {s} : Present(u)}}

\* SetEngineName: the engine picks another name when the wanted one is taken.
EngineNames(s, wanted) ==
  IF wanted \in UsedNames(s) THEN Names \ UsedNames(s) ELSE {wanted}

\* Fake clients connect and enter within one engine call, so that no frame and
\* no deferred kick comes in between.
NobodyEntering == \A s \in Slots : Present(s) => client[s].phase # "connected"

(***************************************************************************)
(* Clients.  The engine acts between frames, and within the bot_kick that  *)
(* a frame dispatches.                                                     *)
(***************************************************************************)
EngineActs == pc \in {"engine", "kicks"}

\* A client connects, with a controller of its own or bound to one that an
\* earlier client left behind.  A bot may be adopted, under a persona name.
OnClientConnected(s, isBot, name, persona, adopted, reused) ==
  LET life == lives + 1
  IN  /\ EngineActs /\ NobodyEntering
      /\ ~Present(s) /\ lives < MaxLives
      /\ name \notin UsedNames(s)
      /\ reused # life => /\ ctrl[reused] = "live"
                          /\ \A t \in Slots : Present(t) => client[t].ctrl # reused
      /\ adopted => isBot
      /\ lives' = life
      /\ ctrl' = [ctrl EXCEPT ![reused] = "live"]
      /\ client' = [client EXCEPT ![s] =
           [life |-> life, bot |-> isBot, name |-> name, ctrl |-> reused,
            phase |-> "connected"]]
      /\ incarnation' = [incarnation EXCEPT ![s] = IF adopted THEN life ELSE 0]
      /\ slotName' = [slotName EXCEPT ![s] = IF adopted THEN persona ELSE NoName]
      /\ UNCHANGED << kicks, draining, removals, pc >>

\* ApplyClientName: the engine takes the wanted name, makes another one of it,
\* or refuses and keeps the name it had.  SetSlotName copies the outcome.
AppliedName_Wanted(wanted, applied) == wanted
AppliedName(wanted, applied) == CopyText[applied]
ApplyClientName(s, wanted, applied) ==
  /\ applied \in EngineNames(s, wanted) \cup {client[s].name}
  /\ slotName' = [slotName EXCEPT ![s] = AppliedName(wanted, applied)]

\* HookClientPutInServerPost: a managed bot gets its persona name, or is released
\* because its SteamID turns out to be taken.
ClientPutInServer(s, applied) ==
  /\ EngineActs /\ Present(s) /\ client[s].phase = "connected"
  /\ \/ /\ IsManaged(s)
        /\ ApplyClientName(s, slotName[s], applied)
        /\ UNCHANGED incarnation
     \/ /\ applied = client[s].name
        /\ incarnation' = [incarnation EXCEPT ![s] = 0]
        /\ slotName' = [slotName EXCEPT ![s] = NoName]
  /\ client' = [client EXCEPT ![s].phase = "active", ![s].name = applied]
  /\ UNCHANGED << ctrl, lives, kicks, draining, removals, pc >>

\* BH_SetName on a managed slot.
ApplyPersonaNameCommand(s, wanted, applied) ==
  /\ EngineActs /\ IsManaged(s) /\ Present(s)
  /\ ApplyClientName(s, wanted, applied)
  /\ client' = [client EXCEPT ![s].name = applied]
  /\ UNCHANGED << ctrl, lives, incarnation, kicks, draining, removals, pc >>

\* QueueControllerRemovalForClient.
QueuedRemoval(s) ==
  LET h == client[s].ctrl
  IN  IF ctrl[h] = "live" /\ \A item \in removals : item.handle # h
        THEN removals \cup {[handle |-> h, userId |-> client[s].life, referencedFrames |-> 0]}
        ELSE removals

\* HookClientDisconnectPre; targeted: the client was kicked or banned.
Disconnect(s, targeted) ==
  /\ client' = [client EXCEPT ![s].phase = "leaving"]
  /\ removals' = IF IsManaged(s) /\ targeted THEN QueuedRemoval(s) ELSE removals
  /\ incarnation' = [incarnation EXCEPT ![s] = 0]
  /\ slotName' = [slotName EXCEPT ![s] = NoName]

ClientDisconnect(s, targeted) ==
  /\ EngineActs /\ Present(s) /\ client[s].phase # "leaving"
  /\ Disconnect(s, targeted)
  /\ UNCHANGED << ctrl, lives, kicks, draining, pc >>

\* The engine frees a client that has left, and its controller or not.
FreeClient(s, retained) ==
  /\ EngineActs /\ Present(s) /\ client[s].phase = "leaving"
  /\ client' = [client EXCEPT ![s] = NoClient]
  /\ ctrl' = IF retained THEN ctrl ELSE [ctrl EXCEPT ![client[s].ctrl] = "deleted"]
  /\ UNCHANGED << lives, incarnation, slotName, kicks, draining, removals, pc >>

(***************************************************************************)
(* Kick commands.                                                          *)
(***************************************************************************)
FindManagedSlotByPersonaName(name) == {s \in Slots : IsManaged(s) /\ slotName[s] = name}
FindManagedSlotByUserId(userId) ==
  {s \in Slots : IsManaged(s) /\ Present(s) /\ client[s].life = userId}

\* The first slot of the set found, as the loops over the slots return it.
QueueManagedBotKick(found) ==
  LET s == CHOOSE t \in found : \A u \in found : t <= u
  IN  /\ found # {} /\ Present(s) /\ Len(kicks) < MaxKicks
      /\ kicks' = Append(kicks,
           [slot |-> s, life |-> client[s].life, incarnation |-> incarnation[s]])

KickCommand(found) ==
  /\ EngineActs
  /\ QueueManagedBotKick(found)
  /\ UNCHANGED << client, ctrl, lives, incarnation, slotName, draining, removals, pc >>

(***************************************************************************)
(* HookGameFramePost.                                                      *)
(***************************************************************************)
\* DrainPendingBotKicks takes the queue over before it dispatches anything, so
\* kicks queued from inside a dispatch wait for the next frame.
BeginFrame ==
  /\ pc = "engine" /\ NobodyEntering
  /\ pc' = "kicks"
  /\ draining' = kicks
  /\ kicks' = << >>
  /\ UNCHANGED << client, ctrl, lives, incarnation, slotName, removals >>

KickIsCurrent_SlotOnly(k) == IsManaged(k.slot) /\ Present(k.slot)
KickIsCurrent(k) ==
  /\ IsManaged(k.slot)
  /\ Present(k.slot) /\ client[k.slot].life = k.life
  /\ incarnation[k.slot] = k.incarnation

\* One turn of the loop: bot_kick is given a name and finds the bot by it.
DrainKick ==
  LET k == Head(draining)
      found == {s \in Slots : /\ Present(s) /\ client[s].bot
                              /\ client[s].phase # "leaving"
                              /\ client[s].name = slotName[k.slot]}
  IN  /\ pc = "kicks" /\ draining # << >> /\ NobodyEntering
      /\ draining' = Tail(draining)
      /\ \/ /\ KickIsCurrent(k)
            /\ \E s \in found : Disconnect(s, TRUE)
         \/ /\ ~KickIsCurrent(k) \/ found = {}
            /\ UNCHANGED << client, removals, incarnation, slotName >>
      /\ UNCHANGED << ctrl, lives, kicks, pc >>

\* Frames of a server that does not simulate stop here.
EndKicks(simulating) ==
  /\ pc = "kicks" /\ draining = << >> /\ NobodyEntering
  /\ pc' = IF simulating THEN "removals" ELSE "engine"
  /\ UNCHANGED << client, ctrl, lives, incarnation, slotName, kicks, draining, removals >>

Referrers(h) == {s \in Slots : Present(s) /\ client[s].ctrl = h}

\* DrainPendingControllerRemovals: an entry is dropped when its controller is
\* gone or bound to another client, waits one frame while the kicked client is
\* still there, and else removes the controller.
Stale_ByHandle(item) == ctrl[item.handle] # "live"
Stale(item) ==
  \/ ctrl[item.handle] # "live"
  \/ \E s \in Referrers(item.handle) : client[s].life # item.userId
Waits(item) ==
  /\ ~Stale(item)
  /\ Referrers(item.handle) # {}
  /\ item.referencedFrames = 0

Counted_Not(item) == item
Counted(item) == [item EXCEPT !.referencedFrames = @ + 1]
DrainPendingControllerRemovals ==
  LET removed == {item.handle : item \in {i \in removals : ~Stale(i) /\ ~Waits(i)}}
  IN  /\ pc = "removals"
      /\ pc' = "engine"
      /\ ctrl' = [h \in Lives |-> IF h \in removed THEN "deleted" ELSE ctrl[h]]
      /\ removals' = {Counted(i) : i \in {j \in removals : Waits(j)}}
      /\ UNCHANGED << client, lives, incarnation, slotName, kicks, draining >>

\* identity_state::ReleaseAll, before a level change.
StartChangeLevel ==
  /\ pc = "engine"
  /\ incarnation' = [s \in Slots |-> 0]
  /\ slotName' = [s \in Slots |-> NoName]
  /\ kicks' = << >>
  /\ removals' = {}
  /\ UNCHANGED << client, ctrl, lives, draining, pc >>

Init ==
  /\ client = [s \in Slots |-> NoClient]
  /\ ctrl = [h \in Lives |-> "none"]
  /\ lives = 0
  /\ incarnation = [s \in Slots |-> 0]
  /\ slotName = [s \in Slots |-> NoName]
  /\ kicks = << >> /\ draining = << >>
  /\ removals = {}
  /\ pc = "engine"

EngineStep ==
  \/ \E s \in Slots, isBot, adopted \in BOOLEAN, name \in Names,
        persona \in PersonaNames, reused \in 1 .. lives + 1 :
       lives < MaxLives /\ OnClientConnected(s, isBot, name, persona, adopted, reused)
  \/ \E s \in Slots, applied \in Names : ClientPutInServer(s, applied)
  \/ \E s \in Slots, wanted \in PersonaNames, applied \in Names :
       ApplyPersonaNameCommand(s, wanted, applied)
  \/ \E s \in Slots, targeted \in BOOLEAN : ClientDisconnect(s, targeted)
  \/ \E s \in Slots, retained \in BOOLEAN : FreeClient(s, retained)
  \/ \E name \in Names : KickCommand(FindManagedSlotByPersonaName(name))
  \/ \E userId \in Lives : KickCommand(FindManagedSlotByUserId(userId))
  \/ StartChangeLevel

FrameStep ==
  \/ BeginFrame
  \/ DrainKick
  \/ \E simulating \in BOOLEAN : EndKicks(simulating)
  \/ DrainPendingControllerRemovals

Next == EngineStep \/ FrameStep

Spec == Init /\ [][Next]_vars

\* The engine completes joins and goes on with its frames, and simulates again
\* and again.
Fairness ==
  /\ WF_vars(\E s \in Slots, applied \in Names : ClientPutInServer(s, applied))
  /\ WF_vars(FrameStep)
  /\ SF_vars(EndKicks(TRUE))

FairSpec == Spec /\ Fairness

-------------------------------------------------------------------------------
\* The manager's copy of the client's name lacks the end of it.
NameCut(s) == Present(s) /\ CopyText[client[s].name] # client[s].name

\* A deferred kick removes the very bot the command named, or nobody: not the
\* next occupant of the slot, and not the bearer of a name given away since.
\* Only a bot whose name was cut may be mistaken, for the bearer of the rest.
KickHitsTarget ==
  [][draining # << >> /\ draining' = Tail(draining) =>
       LET k == Head(draining)
       IN  \A s \in Slots :
             Present(s) /\ client[s].phase # "leaving" /\ client'[s].phase = "leaving"
               => \/ client[s].life = k.life
                  \/ /\ NameCut(k.slot) /\ client[k.slot].life = k.life
                     /\ client[s].name = CopyText[client[k.slot].name]]_vars

\* The clean-up never takes the controller of a client that is in the game,
\* even if that client was bound to a controller queued for removal.
ClientsKeepController ==
  \A s \in Slots :
    Present(s) /\ client[s].phase # "leaving" => ctrl[client[s].ctrl] = "live"

\* A kick that was taken over from the engine is carried out: the bot does not
\* stay managed in its slot, unless the engine knows it by a name too long for
\* the manager.
KickTakesEffect ==
  \A l \in Lives :
    (\E i \in 1 .. Len(kicks) : kicks[i].life = l)
      ~> ~\E s \in Slots :
            Present(s) /\ client[s].life = l /\ IsManaged(s) /\ ~NameCut(s)

\* Whatever is queued for removal is dealt with, also when the kicked client
\* stays in the client list.
RemovalsSettle ==
  \A h \in Lives : (\E item \in removals : item.handle = h)
                     ~> ~\E item \in removals : item.handle = h
===============================================================================
