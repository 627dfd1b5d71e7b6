----------------------------- MODULE IdentityPool -----------------------------
(***************************************************************************)
(* The identity registry of the native plugin: the pool of configured      *)
(* identities (BotInfoStore), the binding of slots to pool entries         *)
(* (identity_state), the published slot snapshots (FakeClientManager) and  *)
(* the SteamID fields of the engine's clients that the hooks write.        *)
(*                                                                         *)
(* All of it runs on the server's game thread, so a hook is one atomic     *)
(* step; what interleaves is the order in which the engine calls the hooks *)
(* for different clients.  The engine itself (client list, connects,       *)
(* levels, SourceTV) is external: it is modelled by the calls it can make. *)
(* The fake-player flags, the deferred queues and the avatars, which the   *)
(* same hooks also touch, are in the modules Population, DeferredRemoval   *)
(* and AvatarOverride.                                                     *)
(***************************************************************************)
EXTENDS Integers, FiniteSets

CONSTANTS kMaxSlots,     \* client slots the plugin tracks (64 in the code)
          Entries,       \* entries of bot_info.json that Load accepted
          SteamIds,      \* every nonzero SteamID64 that can occur
          SidOf,         \* steamId64 of an entry
          Names,         \* engine names and persona names
          NameOf,        \* configured name of an entry
          NoEntry,       \* null entry pointer
          NoSid,         \* SteamID 0
          NoClient,      \* empty place in the engine's client list
          ClockSeed,     \* clock value Init stores in m_nextIncarnation
          IncMax,        \* largest incarnation (2^64 - 1 in the code)
          MaxAdoptions   \* bound: adoptions in one behaviour

Slots == 0 .. kMaxSlots - 1
NoSlot == kMaxSlots    \* no slot has this number

ASSUME PoolAssumption ==
  /\ kMaxSlots \in Nat \ {0}
  /\ SidOf \in [Entries -> SteamIds]
  /\ \A d, e \in Entries : SidOf[d] = SidOf[e] => d = e
  /\ NameOf \in [Entries -> Names]
  /\ NoEntry \notin Entries
  /\ NoSid \notin SteamIds

ASSUME IncarnationAssumption ==
  /\ IncMax \in Nat \ {0}
  /\ ClockSeed \in 0 .. IncMax
  /\ MaxAdoptions \in Nat
  /\ MaxAdoptions <= IncMax

(***************************************************************************)
(* An engine client.  "bot" and "tv" are fake players; hltv is the byte    *)
(* IsHltv reads, which the engine may set only after the client connected. *)
(***************************************************************************)
Kinds == {"bot", "tv", "human"}
Phases == {"connected", "active", "leaving"}

Client ==
  [kind : Kinds, sid : SteamIds \cup {NoSid}, phase : Phases, hltv : BOOLEAN]

\* The fields of a SlotSnapshot the registry decides on.
Snapshot ==
  [managed : BOOLEAN, steamId : SteamIds \cup {NoSid}, incarnation : 0 .. IncMax]

EmptySlot == [managed |-> FALSE, steamId |-> NoSid, incarnation |-> 0]

ASSUME NoClientAssumption == NoClient \notin Client

VARIABLES client,          \* engine: client list of the game server
          level,           \* engine: "up" between level init and shutdown
          lateSlot,        \* loop index of AdoptExistingBots, kMaxSlots when done
          m_assigned,      \* BotInfoStore: entries handed out
          g_slotEntries,   \* identity_state: entry bound to a slot
          m_slots,         \* FakeClientManager: snapshots
          m_nextIncarnation,
          adoptions        \* history: number of adoptions so far

poolVars == << m_assigned, g_slotEntries, m_slots, m_nextIncarnation, adoptions >>
vars == << client, level, lateSlot, poolVars >>

TypeOK ==
  /\ client \in [Slots -> Client \cup {NoClient}]
  /\ level \in {"up", "down"}
  /\ lateSlot \in 0 .. kMaxSlots
  /\ m_assigned \in SUBSET Entries
  /\ g_slotEntries \in [Slots -> Entries \cup {NoEntry}]
  /\ m_slots \in [Slots -> Snapshot]
  /\ m_nextIncarnation \in 0 .. IncMax
  /\ adoptions \in 0 .. MaxAdoptions

IsManaged(s) == m_slots[s].managed
Present(s) == client[s] # NoClient
IsHltv(s) == Present(s) /\ client[s].hltv

(***************************************************************************)
(* SteamID availability.                                                   *)
(***************************************************************************)
ClientSteamIds(s) ==
  {client[t].sid : t \in {u \in Slots \ {s} : Present(u)}} \ {NoSid}

ManagedSteamIds(s) ==
  {m_slots[t].steamId : t \in {u \in Slots \ {s} : IsManaged(u)}}

CollectOccupiedSteamIds_ManagedOnly(s) == ManagedSteamIds(s)
CollectOccupiedSteamIds(s) == ClientSteamIds(s) \cup ManagedSteamIds(s)

\* Available requires a client in the slot: without one the check fails.
Available_Unchecked(s, sid) == sid # NoSid
Available(s, sid) ==
  sid # NoSid /\ Present(s) /\ sid \notin CollectOccupiedSteamIds(s)

(***************************************************************************)
(* BotInfoStore.  PickForBot draws at random among the exact-name matches, *)
(* or among all free entries when no name matches.                         *)
(***************************************************************************)
FreeEntries_IgnoreAssigned(occupied) == {e \in Entries : SidOf[e] \notin occupied}
FreeEntries(occupied) == {e \in Entries \ m_assigned : SidOf[e] \notin occupied}

Candidates(name, occupied) ==
  LET available == FreeEntries(occupied)
      matches == {e \in available : NameOf[e] = name}
  IN  IF matches = {} THEN available ELSE matches

(***************************************************************************)
(* FakeClientManager.                                                      *)
(***************************************************************************)
\* ++m_nextIncarnation, skipping 0 when the counter wraps.
NextIncarnation(n) == IF n = IncMax THEN 1 ELSE n + 1

AdoptedSnapshot_SameIncarnation(sid) ==
  [managed |-> TRUE, steamId |-> sid, incarnation |-> m_nextIncarnation]
AdoptedSnapshot(sid) ==
  [managed |-> TRUE, steamId |-> sid,
   incarnation |-> NextIncarnation(m_nextIncarnation)]

\* PickForBot's assignment, AdoptSlot and BindSlot, for the entry picked.
Adopt(s, e) ==
  /\ adoptions < MaxAdoptions
  /\ m_assigned' = m_assigned \cup {e}
  /\ m_slots' = [m_slots EXCEPT ![s] = AdoptedSnapshot(SidOf[e])]
  /\ m_nextIncarnation' = NextIncarnation(m_nextIncarnation)
  /\ g_slotEntries' = [g_slotEntries EXCEPT ![s] = e]
  /\ adoptions' = adoptions + 1

\* identity_state::ReleaseSlot, for every slot of S.
ReleaseSlots_KeepAssignment(S) ==
  /\ g_slotEntries' = [s \in Slots |-> IF s \in S THEN NoEntry ELSE g_slotEntries[s]]
  /\ m_slots' = [s \in Slots |-> IF s \in S THEN EmptySlot ELSE m_slots[s]]
  /\ UNCHANGED << m_assigned, m_nextIncarnation, adoptions >>
ReleaseSlots(S) ==
  /\ m_assigned' = m_assigned \ {g_slotEntries[s] : s \in S}
  /\ g_slotEntries' = [s \in Slots |-> IF s \in S THEN NoEntry ELSE g_slotEntries[s]]
  /\ m_slots' = [s \in Slots |-> IF s \in S THEN EmptySlot ELSE m_slots[s]]
  /\ UNCHANGED << m_nextIncarnation, adoptions >>

\* identity_state::ReleaseAll.
ReleaseAll ==
  /\ m_assigned' = {}
  /\ g_slotEntries' = [s \in Slots |-> NoEntry]
  /\ m_slots' = [s \in Slots |-> EmptySlot]
  /\ UNCHANGED << m_nextIncarnation, adoptions >>

\* ssc::WriteSteamId on the clients of S.
SteamIdWritten_Never(S, sid) == client
SteamIdWritten(S, sid) ==
  [s \in Slots |-> IF s \in S THEN [client[s] EXCEPT !.sid = sid] ELSE client[s]]

-------------------------------------------------------------------------------
\* A client as the engine creates it.
FakeClient(kind, phase, flagged) ==
  [kind |-> kind, sid |-> NoSid, phase |-> phase, hltv |-> flagged]

HumanClient(sid, phase) ==
  [kind |-> "human", sid |-> sid, phase |-> phase, hltv |-> FALSE]

HumanSids == {client[t].sid : t \in {u \in Slots : Present(u) /\ client[u].kind = "human"}}

ExistingClients ==
  {FakeClient("bot", "active", FALSE)}
    \cup {FakeClient("tv", "active", f) : f \in BOOLEAN}
    \cup {HumanClient(i, "active") : i \in SteamIds}

\* The plugin is loaded either into an empty server or (late) into one where
\* bots, SourceTV and players are already on.
Init ==
  /\ level = "up"
  /\ \/ client = [s \in Slots |-> NoClient] /\ lateSlot = kMaxSlots
     \/ /\ client \in [Slots -> ExistingClients \cup {NoClient}]
        /\ \A s, t \in Slots :
             s # t /\ Present(s) /\ Present(t) /\ client[s].sid = client[t].sid
               => client[s].sid = NoSid
        /\ lateSlot = 0
  /\ m_assigned = {}
  /\ g_slotEntries = [s \in Slots |-> NoEntry]
  /\ m_slots = [s \in Slots |-> EmptySlot]
  /\ m_nextIncarnation = ClockSeed
  /\ adoptions = 0

Loaded == lateSlot = kMaxSlots

\* AdoptClient for a client c in slot s; the slot stays unmanaged when the
\* pool is exhausted.
AdoptClient(s, c, name) ==
  LET picks == Candidates(name, CollectOccupiedSteamIds(s))
  IN  \/ /\ picks = {}
         /\ client' = [client EXCEPT ![s] = c]
         /\ UNCHANGED poolVars
      \/ \E e \in picks :
           /\ Adopt(s, e)
           /\ client' = [client EXCEPT ![s] = [c EXCEPT !.sid = SidOf[e]]]

\* One iteration of AdoptExistingBots.  nameHltv: the client is called SourceTV.
AdoptExistingBots(name, nameHltv) ==
  LET s == lateSlot
      eligible == /\ Present(s)
                  /\ client[s].kind # "human"
                  /\ ~client[s].hltv
                  /\ client[s].kind = "tv" => ~nameHltv
  IN  /\ lateSlot < kMaxSlots
      /\ lateSlot' = lateSlot + 1
      /\ \/ ~eligible /\ UNCHANGED << client, poolVars >>
         \/ eligible /\ AdoptClient(s, client[s], name)
      /\ UNCHANGED level

\* The engine puts a fake client in slot s; HookOnClientConnectedPost.
\* nameHltv: name or network ID say SourceTV; flagged: IsHltv already holds.
OnClientConnected(s, kind, name, nameHltv, flagged) ==
  LET c == FakeClient(kind, "connected", flagged)
      ignored == nameHltv \/ flagged \/ IsManaged(s)
  IN  /\ Loaded /\ level = "up" /\ ~Present(s)
      /\ kind = "bot" => ~nameHltv /\ ~flagged
      /\ \/ /\ ignored
            /\ client' = [client EXCEPT ![s] = c]
            /\ UNCHANGED poolVars
         \/ ~ignored /\ AdoptClient(s, c, name)
      /\ UNCHANGED << level, lateSlot >>

\* A player connects: the hook returns at once (fakePlayer is false).
HumanConnected(s, sid) ==
  /\ Loaded /\ level = "up" /\ ~Present(s)
  /\ sid \notin HumanSids
  /\ client' = [client EXCEPT ![s] = HumanClient(sid, "connected")]
  /\ UNCHANGED << level, lateSlot, poolVars >>

\* The engine recognises a fake client as SourceTV.
SetHltv(s) ==
  /\ Loaded /\ Present(s) /\ client[s].kind = "tv" /\ ~client[s].hltv
  /\ client' = [client EXCEPT ![s].hltv = TRUE]
  /\ UNCHANGED << level, lateSlot, poolVars >>

\* HookClientPutInServerPost: the SteamID is checked again, since others may
\* have connected since the slot was adopted.
ClientPutInServer(s) ==
  LET put == [client[s] EXCEPT !.phase = "active"]
      sid == m_slots[s].steamId
  IN  /\ Loaded /\ level = "up" /\ Present(s) /\ client[s].phase = "connected"
      /\ \/ /\ ~IsManaged(s)
            /\ client' = [client EXCEPT ![s] = put]
            /\ UNCHANGED poolVars
         \/ /\ IsManaged(s)
            /\ IsHltv(s) \/ ~Available(s, sid)
            /\ client' = [client EXCEPT ![s] = [put EXCEPT !.sid = NoSid]]
            /\ ReleaseSlots({s})
         \/ /\ IsManaged(s)
            /\ ~IsHltv(s) /\ Available(s, sid)
            /\ client' = [client EXCEPT ![s] = [put EXCEPT !.sid = sid]]
            /\ UNCHANGED poolVars
      /\ UNCHANGED << level, lateSlot >>

\* BH_SetSteamId on a managed slot; a rejected call changes nothing.
ApplySteamIdCommand(s, sid) ==
  /\ Loaded /\ IsManaged(s) /\ Available(s, sid)
  /\ client' = SteamIdWritten({s}, sid)
  /\ m_slots' = [m_slots EXCEPT ![s].steamId = sid]
  /\ UNCHANGED << level, lateSlot, m_assigned, g_slotEntries, m_nextIncarnation, adoptions >>

\* HookClientDisconnectPre; the engine frees the client afterwards.
ClientDisconnect(s) ==
  LET left == [client[s] EXCEPT !.phase = "leaving"]
  IN  /\ Loaded /\ Present(s) /\ client[s].phase # "leaving"
      /\ \/ /\ IsManaged(s)
            /\ client' = [client EXCEPT ![s] = [left EXCEPT !.sid = NoSid]]
            /\ ReleaseSlots({s})
         \/ /\ ~IsManaged(s)
            /\ client' = [client EXCEPT ![s] = left]
            /\ UNCHANGED poolVars
      /\ UNCHANGED << level, lateSlot >>

FreeClient(s) ==
  /\ Loaded /\ Present(s) /\ client[s].phase = "leaving"
  /\ client' = [client EXCEPT ![s] = NoClient]
  /\ UNCHANGED << level, lateSlot, poolVars >>

\* HookGameFramePost in a frame that simulates, as others return before they get
\* here: the slots that turned out to be SourceTV are released.
GameFrame_NoHltv == Loaded /\ level = "up" /\ UNCHANGED vars
GameFrame ==
  LET tv == {s \in Slots : IsManaged(s) /\ IsHltv(s)}
  IN  /\ Loaded /\ level = "up" /\ tv # {}
      /\ client' = SteamIdWritten(tv, NoSid)
      /\ ReleaseSlots(tv)
      /\ UNCHANGED << level, lateSlot >>

\* HookStartChangeLevelPre.
StartChangeLevel ==
  /\ Loaded /\ level = "up"
  /\ client' = SteamIdWritten({s \in Slots : IsManaged(s) /\ Present(s)}, NoSid)
  /\ ReleaseAll
  /\ UNCHANGED << level, lateSlot >>

\* OnLevelShutdown: the slots are released, the clients are left as they are.
OnLevelShutdown ==
  /\ Loaded /\ level = "up"
  /\ level' = "down"
  /\ ReleaseAll
  /\ UNCHANGED << client, lateSlot >>

\* A level starts once the engine has dropped the fake clients of the old one.
OnLevelInit ==
  /\ Loaded /\ level = "down"
  /\ \A s \in Slots : Present(s) => client[s].kind = "human"
  /\ level' = "up"
  /\ UNCHANGED << client, lateSlot, poolVars >>

SlotStep(s) ==
  \/ \E kind \in {"bot", "tv"}, name \in Names, nameHltv, flagged \in BOOLEAN :
       OnClientConnected(s, kind, name, nameHltv, flagged)
  \/ \E sid \in SteamIds : HumanConnected(s, sid)
  \/ SetHltv(s)
  \/ ClientPutInServer(s)
  \/ \E sid \in SteamIds : ApplySteamIdCommand(s, sid)
  \/ ClientDisconnect(s)
  \/ FreeClient(s)

Next ==
  \/ \E name \in Names, nameHltv \in BOOLEAN : AdoptExistingBots(name, nameHltv)
  \/ \E s \in Slots : SlotStep(s)
  \/ GameFrame
  \/ StartChangeLevel
  \/ OnLevelShutdown
  \/ OnLevelInit

Spec == Init /\ [][Next]_vars

\* The engine simulates again and again for as long as a level is up.
FairSpec == Spec /\ WF_vars(GameFrame)
-------------------------------------------------------------------------------
\* BotInfoStore's assignment flags and the slot bindings tell the same story:
\* the entries marked assigned are exactly the bound ones, no entry is bound to
\* two slots, and a slot is managed exactly when an entry is bound to it.  So
\* no disconnect, SourceTV release or level change leaks or double-frees an
\* identity.
LeasesConsistent ==
  /\ m_assigned = {g_slotEntries[s] : s \in Slots} \ {NoEntry}
  /\ \A s, t \in Slots :
       s # t /\ g_slotEntries[s] # NoEntry => g_slotEntries[s] # g_slotEntries[t]
  /\ \A s \in Slots : IsManaged(s) <=> g_slotEntries[s] # NoEntry

\* Two managed bots never have the same SteamID, whatever the order of
\* adoptions and SetSteamId calls, and none has SteamID 0.
ManagedSidsDistinct ==
  \A s \in Slots : IsManaged(s) =>
    /\ m_slots[s].steamId # NoSid
    /\ \A t \in Slots \ {s} : IsManaged(t) => m_slots[s].steamId # m_slots[t].steamId

\* A managed slot always has a live fake client, and the engine's client
\* carries the SteamID that the snapshot publishes.
EngineAgrees ==
  \A s \in Slots : IsManaged(s) =>
    /\ Present(s)
    /\ client[s].kind # "human"
    /\ client[s].phase # "leaving"
    /\ client[s].sid = m_slots[s].steamId

\* While a level is up, a fake client the plugin does not manage (never
\* adopted, or released by any of the release paths) carries no SteamID.
NoLingeringSid ==
  level = "up" =>
    \A s \in Slots : Present(s) /\ client[s].kind # "human" /\ ~IsManaged(s)
                      => client[s].sid = NoSid

\* What the engine's clients carry and what the registry publishes never come
\* apart: neither a managed client without its SteamID nor one that keeps it
\* after any of the ways out of a slot.
SteamIdsAgree == EngineAgrees /\ NoLingeringSid

\* Until the late-load loop is done: slots it has not reached are as Init left
\* them.
LateLoadPending ==
  lateSlot < kMaxSlots =>
    /\ level = "up"
    /\ \A s \in Slots : s >= lateSlot =>
         ~IsManaged(s) /\ (Present(s) => client[s].phase = "active")

\* The k-th incarnation issued since Init, across the wrap of the counter.
IncarnationAt(k) ==
  IF ClockSeed + k <= IncMax THEN ClockSeed + k ELSE ClockSeed + k - IncMax
Issued == {IncarnationAt(k) : k \in 1 .. adoptions}

\* A managed slot's incarnation is nonzero (0 means "none" to the bridge and
\* to the kick queue) and is no other managed slot's.
IncarnationsDistinct ==
  \A s \in Slots : IsManaged(s) =>
    /\ m_slots[s].incarnation # 0
    /\ \A t \in Slots \ {s} :
         IsManaged(t) => m_slots[s].incarnation # m_slots[t].incarnation

\* The counter and the snapshots only hold incarnations that were issued.
IncarnationsIssued ==
  /\ m_nextIncarnation = IncarnationAt(adoptions)
  /\ \A s \in Slots : IsManaged(s) => m_slots[s].incarnation \in Issued

\* The inductive invariant: the properties above strengthen one another.
RegistryInv == LeasesConsistent /\ IncarnationsDistinct /\ IncarnationsIssued
SteamIdInv ==
  ManagedSidsDistinct /\ EngineAgrees /\ NoLingeringSid /\ LateLoadPending
IndInv == TypeOK /\ RegistryInv /\ SteamIdInv

\* An adoption never takes an incarnation issued before, even if that slot was
\* released since and even across the wrap: a token kept from an earlier
\* adoption can never match a later one.
FreshIncarnations ==
  [][\A s \in Slots :
       m_slots'[s].managed /\ m_slots'[s].incarnation # m_slots[s].incarnation
         => m_slots'[s].incarnation \notin Issued]_vars

Clash(c, s, t) ==
  c[s] # NoClient /\ c[t] # NoClient /\ c[s].sid = c[t].sid /\ c[s].sid # NoSid

\* No step of the plugin gives two clients the same SteamID: a clash appears only
\* when a player connects with an ID that a bot already shows, and a bot that
\* enters the server and keeps its identity clashes with nobody.
ClashOnlyByHuman ==
  [][/\ \A s, t \in Slots : s # t /\ Clash(client', s, t) /\ ~Clash(client, s, t)
          => \E u \in {s, t} : client[u] = NoClient /\ client'[u].kind = "human"
     /\ \A s \in Slots :
          /\ Present(s) /\ client[s].phase = "connected" /\ client'[s] # NoClient
          /\ client'[s].phase = "active" /\ m_slots'[s].managed
          => \A t \in Slots \ {s} : ~Clash(client', s, t)]_vars

\* A slot adopted before the engine flagged its client as SourceTV does not
\* stay managed.
HltvReleased ==
  \A s \in Slots : (IsManaged(s) /\ IsHltv(s)) ~> ~(IsManaged(s) /\ IsHltv(s))

\* What the registry promises: each identity is leased to one slot at a time.
slotOf ==
  [e \in Entries |-> IF \E s \in Slots : g_slotEntries[s] = e
                       THEN CHOOSE s \in Slots : g_slotEntries[s] = e
                       ELSE NoSlot]

Lease == INSTANCE IdentityLease WITH holder <- slotOf

\* Every step of the registry is a step of the lease service: an identity is
\* granted only while nobody holds it and is returned by its holder.
ImplementsLease == Lease!Spec
===============================================================================
