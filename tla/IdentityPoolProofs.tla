-------------------------- MODULE IdentityPoolProofs --------------------------
(***************************************************************************)
(* Proofs about IdentityPool, for any number of slots, entries and         *)
(* SteamIDs, any clock seed and any width of the incarnation counter, and  *)
(* about PingDisplay, the ping of a slot the manager has adopted, for any  *)
(* window, write interval and configuration.                               *)
(***************************************************************************)
EXTENDS IdentityPool, PingDisplay, WellFoundedInduction, SequenceTheorems, TLAPS

USE DEF Slots, NoSlot

\* A pick comes from the entries that are neither assigned nor occupied.
LEMMA PickIsFree ==
  ASSUME NEW name, NEW occupied, NEW e \in Candidates(name, occupied)
  PROVE  e \in Entries /\ e \notin m_assigned /\ SidOf[e] \notin occupied
BY DEF Candidates, FreeEntries

\* The next incarnation is the next of the issued series.
LEMMA NextIsIssuedNext ==
  ASSUME NEW k \in 0 .. MaxAdoptions, k < MaxAdoptions
  PROVE  /\ NextIncarnation(IncarnationAt(k)) = IncarnationAt(k + 1)
         /\ IncarnationAt(k + 1) \in 1 .. IncMax
         /\ \A j \in 1 .. k : IncarnationAt(j) # IncarnationAt(k + 1)
BY IncarnationAssumption, SMT DEF NextIncarnation, IncarnationAt

\* Adopt keeps the registry's part of the invariant.
LEMMA AdoptKeepsRegistry ==
  ASSUME TypeOK, RegistryInv, NEW s \in Slots, ~IsManaged(s),
         NEW e \in Entries \ m_assigned, Adopt(s, e)
  PROVE  /\ m_assigned' \in SUBSET Entries
         /\ g_slotEntries' \in [Slots -> Entries \cup {NoEntry}]
         /\ m_slots' \in [Slots -> Snapshot]
         /\ m_nextIncarnation' \in 0 .. IncMax
         /\ adoptions' \in 0 .. MaxAdoptions
         /\ RegistryInv'
<1> DEFINE inc == IncarnationAt(adoptions + 1)
<1>1. /\ NextIncarnation(m_nextIncarnation) = inc
      /\ inc \in 1 .. IncMax
      /\ inc \notin Issued
  BY NextIsIssuedNext, IncarnationAssumption
     DEF TypeOK, RegistryInv, IncarnationsIssued, Adopt, Issued
<1>2. m_slots' = [m_slots EXCEPT ![s] =
                   [managed |-> TRUE, steamId |-> SidOf[e], incarnation |-> inc]]
  BY <1>1 DEF Adopt, AdoptedSnapshot
<1> HIDE DEF inc
<1>3. /\ m_assigned' \in SUBSET Entries
      /\ g_slotEntries' \in [Slots -> Entries \cup {NoEntry}]
      /\ adoptions' \in 0 .. MaxAdoptions
      /\ m_nextIncarnation' \in 0 .. IncMax
  BY <1>1, IncarnationAssumption DEF Adopt, TypeOK
<1>4. m_slots' \in [Slots -> Snapshot]
  BY <1>1, <1>2, PoolAssumption, IncarnationAssumption DEF TypeOK, Snapshot
<1>5. LeasesConsistent'
  BY <1>2, PoolAssumption DEF Adopt, TypeOK, RegistryInv, LeasesConsistent, IsManaged, Snapshot
<1>6. Issued' = Issued \cup {inc}
  BY <1>1, IncarnationAssumption, SMT DEF Adopt, TypeOK, Issued, inc
<1>7. IncarnationsDistinct'
  BY <1>1, <1>2 DEF TypeOK, RegistryInv, IncarnationsDistinct, IncarnationsIssued, IsManaged, Snapshot
<1>8. IncarnationsIssued'
  BY <1>1, <1>2, <1>6 DEF Adopt, TypeOK, RegistryInv, IncarnationsIssued, IsManaged, Snapshot, inc
<1> QED BY <1>3, <1>4, <1>5, <1>7, <1>8 DEF RegistryInv

\* ReleaseSlots keeps it, whatever set of managed slots is released.
LEMMA ReleaseKeepsRegistry ==
  ASSUME TypeOK, RegistryInv, NEW S \in SUBSET Slots,
         \A s \in S : IsManaged(s), ReleaseSlots(S)
  PROVE  /\ m_assigned' \in SUBSET Entries
         /\ g_slotEntries' \in [Slots -> Entries \cup {NoEntry}]
         /\ m_slots' \in [Slots -> Snapshot]
         /\ m_nextIncarnation' \in 0 .. IncMax
         /\ adoptions' \in 0 .. MaxAdoptions
         /\ RegistryInv'
<1>1. /\ m_assigned' \in SUBSET Entries
      /\ g_slotEntries' \in [Slots -> Entries \cup {NoEntry}]
      /\ m_slots' \in [Slots -> Snapshot]
      /\ m_nextIncarnation' \in 0 .. IncMax
      /\ adoptions' \in 0 .. MaxAdoptions
  BY PoolAssumption, IncarnationAssumption DEF ReleaseSlots, TypeOK, Snapshot, EmptySlot
<1>2. LeasesConsistent'
  BY PoolAssumption DEF ReleaseSlots, TypeOK, RegistryInv, LeasesConsistent, IsManaged, EmptySlot, Snapshot
<1>3. IncarnationsDistinct' /\ IncarnationsIssued'
  BY DEF ReleaseSlots, TypeOK, RegistryInv, IncarnationsDistinct, IncarnationsIssued,
         IsManaged, EmptySlot, Snapshot, Issued
<1> QED BY <1>1, <1>2, <1>3 DEF RegistryInv

\* ReleaseAll keeps it.
LEMMA ReleaseAllKeepsRegistry ==
  ASSUME TypeOK, RegistryInv, ReleaseAll
  PROVE  /\ m_assigned' \in SUBSET Entries
         /\ g_slotEntries' \in [Slots -> Entries \cup {NoEntry}]
         /\ m_slots' \in [Slots -> Snapshot]
         /\ m_nextIncarnation' \in 0 .. IncMax
         /\ adoptions' \in 0 .. MaxAdoptions
         /\ RegistryInv'
<1>1. /\ m_assigned' \in SUBSET Entries
      /\ g_slotEntries' \in [Slots -> Entries \cup {NoEntry}]
      /\ m_slots' \in [Slots -> Snapshot]
      /\ m_nextIncarnation' \in 0 .. IncMax
      /\ adoptions' \in 0 .. MaxAdoptions
  BY PoolAssumption, IncarnationAssumption DEF ReleaseAll, TypeOK, Snapshot, EmptySlot
<1>2. LeasesConsistent'
  BY PoolAssumption DEF ReleaseAll, TypeOK, RegistryInv, LeasesConsistent, IsManaged, EmptySlot, Snapshot
<1>3. IncarnationsDistinct' /\ IncarnationsIssued'
  BY DEF ReleaseAll, TypeOK, RegistryInv, IncarnationsDistinct, IncarnationsIssued,
         IsManaged, EmptySlot, Snapshot, Issued
<1> QED BY <1>1, <1>2, <1>3 DEF RegistryInv

\* Steps that leave the registry alone keep it.
LEMMA SameRegistry ==
  ASSUME TypeOK, RegistryInv, UNCHANGED poolVars
  PROVE  /\ m_assigned' \in SUBSET Entries
         /\ g_slotEntries' \in [Slots -> Entries \cup {NoEntry}]
         /\ m_slots' \in [Slots -> Snapshot]
         /\ m_nextIncarnation' \in 0 .. IncMax
         /\ adoptions' \in 0 .. MaxAdoptions
         /\ RegistryInv'
BY DEF TypeOK, poolVars, RegistryInv, LeasesConsistent, IncarnationsDistinct,
       IncarnationsIssued, IsManaged, Issued

\* What a late load finds on the server.
LEMMA ExistingClientsType ==
  \A c \in ExistingClients :
    c \in Client /\ c.phase = "active" /\ (c.kind # "human" => c.sid = NoSid)
<1> TAKE c \in ExistingClients
<1>1. CASE c = FakeClient("bot", "active", FALSE)
  BY <1>1 DEF FakeClient, Client, Kinds, Phases
<1>2. CASE \E f \in BOOLEAN : c = FakeClient("tv", "active", f)
  BY <1>2 DEF FakeClient, Client, Kinds, Phases
<1>3. CASE \E i \in SteamIds : c = HumanClient(i, "active")
  BY <1>3 DEF HumanClient, Client, Kinds, Phases
<1> QED BY <1>1, <1>2, <1>3 DEF ExistingClients

\* The initial states satisfy the invariant.
LEMMA InitIndInv == Init => IndInv
<1> SUFFICES ASSUME Init PROVE IndInv
  OBVIOUS
<1>1. TypeOK
  <2>1. client \in [Slots -> Client \cup {NoClient}]
    BY ExistingClientsType, SMT DEF Init
  <2>2. lateSlot \in 0 .. kMaxSlots
    BY PoolAssumption DEF Init
  <2> QED
    BY <2>1, <2>2, PoolAssumption, IncarnationAssumption
       DEF Init, TypeOK, Snapshot, EmptySlot
<1>2. RegistryInv
  BY IncarnationAssumption, PoolAssumption
     DEF Init, RegistryInv, LeasesConsistent, IncarnationsDistinct, IncarnationsIssued,
         IncarnationAt, IsManaged, EmptySlot
<1>3. SteamIdInv
  <2>1. \A s \in Slots : ~IsManaged(s)
    BY DEF Init, IsManaged, EmptySlot
  <2>2. \A s \in Slots : Present(s) =>
          (client[s].kind # "human" => client[s].sid = NoSid) /\ client[s].phase = "active"
    BY ExistingClientsType DEF Init, Present
  <2>3. ManagedSidsDistinct /\ EngineAgrees
    BY <2>1 DEF ManagedSidsDistinct, EngineAgrees
  <2>4. level = "up"
    BY DEF Init
  <2>5. NoLingeringSid
    BY <2>1, <2>2 DEF NoLingeringSid
  <2>6. LateLoadPending
    BY <2>1, <2>2, <2>4 DEF LateLoadPending
  <2> QED BY <2>3, <2>5, <2>6 DEF SteamIdInv
<1> QED BY <1>1, <1>2, <1>3 DEF IndInv

-------------------------------------------------------------------------------
\* Adopting the client c of an unmanaged slot s keeps the invariant, both when
\* the pool is exhausted and when an entry is picked.
LEMMA AdoptClientKeepsInv ==
  ASSUME IndInv, NEW s \in Slots, NEW c \in Client, NEW name,
         ~IsManaged(s), c.kind # "human", c.phase # "leaving", c.sid = NoSid,
         AdoptClient(s, c, name), UNCHANGED level,
         \/ Loaded /\ UNCHANGED lateSlot
         \/ lateSlot = s /\ lateSlot' = s + 1
  PROVE  IndInv'
<1> USE DEF IndInv
<1> DEFINE occ == CollectOccupiedSteamIds(s)
<1>0. lateSlot' \in 0 .. kMaxSlots
  BY PoolAssumption DEF TypeOK
<1>1. CASE client' = [client EXCEPT ![s] = c] /\ UNCHANGED poolVars
  <2>1. TypeOK'
    BY <1>0, <1>1, SameRegistry DEF TypeOK
  <2>2. RegistryInv'
    BY <1>1, SameRegistry
  <2>3. m_slots' = m_slots
    BY <1>1 DEF poolVars
  <2>4. ManagedSidsDistinct'
    BY <2>3 DEF SteamIdInv, ManagedSidsDistinct, IsManaged
  <2>5. EngineAgrees'
    BY <1>1, <2>3 DEF SteamIdInv, EngineAgrees, TypeOK, IsManaged, Present
  <2>6. NoLingeringSid'
    BY <1>1, <2>3 DEF SteamIdInv, NoLingeringSid, TypeOK, IsManaged, Present
  <2>7. LateLoadPending'
    BY <1>1, <2>3, PoolAssumption
       DEF SteamIdInv, LateLoadPending, TypeOK, IsManaged, Present, Loaded
  <2> QED BY <2>1, <2>2, <2>4, <2>5, <2>6, <2>7 DEF SteamIdInv
<1>2. ASSUME NEW e \in Candidates(name, occ), Adopt(s, e),
             client' = [client EXCEPT ![s] = [c EXCEPT !.sid = SidOf[e]]]
      PROVE  IndInv'
  <2>1. e \in Entries /\ e \notin m_assigned /\ SidOf[e] \notin occ
    BY <1>2, PickIsFree
  <2>2. [c EXCEPT !.sid = SidOf[e]] \in Client /\ SidOf[e] # NoSid
    BY <2>1, PoolAssumption DEF Client
  <2>3. TypeOK'
    BY <1>0, <1>2, <2>1, <2>2, AdoptKeepsRegistry DEF TypeOK
  <2>4. RegistryInv'
    BY <1>2, <2>1, AdoptKeepsRegistry
  <2>5. m_slots' = [m_slots EXCEPT ![s] = AdoptedSnapshot(SidOf[e])]
    BY <1>2 DEF Adopt
  <2>6. \A t \in Slots \ {s} : IsManaged(t) => m_slots[t].steamId # SidOf[e]
    BY <2>1 DEF CollectOccupiedSteamIds, ManagedSteamIds
  <2>7. ManagedSidsDistinct'
    BY <2>2, <2>5, <2>6 DEF SteamIdInv, ManagedSidsDistinct, TypeOK, IsManaged, AdoptedSnapshot
  <2>8. EngineAgrees'
    BY <1>2, <2>2, <2>5, NoClientAssumption
       DEF SteamIdInv, EngineAgrees, TypeOK, IsManaged, AdoptedSnapshot, Present, Client
  <2>9. NoLingeringSid' /\ LateLoadPending'
    BY <1>2, <2>2, <2>5, PoolAssumption, NoClientAssumption
       DEF SteamIdInv, NoLingeringSid, LateLoadPending, TypeOK, IsManaged, AdoptedSnapshot,
           Present, Client, Loaded
  <2> QED BY <2>3, <2>4, <2>7, <2>8, <2>9 DEF SteamIdInv
<1> QED BY <1>1, <1>2 DEF AdoptClient

\* Releasing the managed slots S, with SteamID 0 written to their clients (which
\* may change phase too), keeps the invariant.
LEMMA ReleaseKeepsInv ==
  ASSUME IndInv, NEW S \in SUBSET Slots, \A s \in S : IsManaged(s), Loaded,
         ReleaseSlots(S), UNCHANGED << level, lateSlot >>,
         client' \in [Slots -> Client \cup {NoClient}],
         \A s \in S : client'[s] # NoClient => client'[s].sid = NoSid,
         \A s \in Slots \ S : client'[s] = client[s]
  PROVE  IndInv'
<1> USE DEF IndInv
<1>1. TypeOK' /\ RegistryInv'
  BY ReleaseKeepsRegistry DEF TypeOK
<1>2. m_slots' = [s \in Slots |-> IF s \in S THEN EmptySlot ELSE m_slots[s]]
  BY DEF ReleaseSlots
<1>3. ManagedSidsDistinct'
  BY <1>2 DEF SteamIdInv, ManagedSidsDistinct, IsManaged, EmptySlot
<1>4. EngineAgrees'
  BY <1>2 DEF SteamIdInv, EngineAgrees, IsManaged, EmptySlot, Present
<1>5. NoLingeringSid'
  BY <1>2 DEF SteamIdInv, NoLingeringSid, IsManaged, EmptySlot, Present
<1>6. LateLoadPending'
  BY PoolAssumption DEF LateLoadPending, Loaded, TypeOK
<1> QED BY <1>1, <1>3, <1>4, <1>5, <1>6 DEF SteamIdInv

\* A step that changes one client and nothing else keeps the invariant if the
\* new client is as a managed slot, or an unmanaged one, needs it.
LEMMA ClientStepKeepsInv ==
  ASSUME IndInv, NEW s \in Slots, NEW c \in Client \cup {NoClient}, Loaded,
         client' = [client EXCEPT ![s] = c],
         UNCHANGED << level, lateSlot, poolVars >>,
         IsManaged(s) => /\ c # NoClient
                         /\ c.kind # "human" /\ c.phase # "leaving"
                         /\ c.sid = m_slots[s].steamId,
         ~IsManaged(s) /\ level = "up" /\ c # NoClient /\ c.kind # "human" => c.sid = NoSid
  PROVE  IndInv'
<1> USE DEF IndInv
<1>1. TypeOK' /\ RegistryInv'
  BY SameRegistry DEF TypeOK
<1>2. m_slots' = m_slots
  BY DEF poolVars
<1>3. ManagedSidsDistinct'
  BY <1>2 DEF SteamIdInv, ManagedSidsDistinct, IsManaged
<1>4. EngineAgrees'
  BY <1>2 DEF SteamIdInv, EngineAgrees, TypeOK, IsManaged, Present
<1>5. NoLingeringSid'
  BY <1>2 DEF SteamIdInv, NoLingeringSid, TypeOK, IsManaged, Present
<1>6. LateLoadPending'
  BY PoolAssumption DEF LateLoadPending, Loaded, TypeOK
<1> QED BY <1>1, <1>3, <1>4, <1>5, <1>6 DEF SteamIdInv

\* One step per hook of a single slot.
LEMMA SlotStepKeepsInv ==
  ASSUME IndInv, NEW s \in Slots, SlotStep(s)
  PROVE  IndInv'
<1> USE DEF IndInv
<1>0. client[s] \in Client \cup {NoClient}
  BY DEF TypeOK
<1>1. ASSUME NEW kind \in {"bot", "tv"}, NEW name \in Names, NEW nameHltv \in BOOLEAN,
             NEW flagged \in BOOLEAN, OnClientConnected(s, kind, name, nameHltv, flagged)
      PROVE  IndInv'
  <2> DEFINE c == FakeClient(kind, "connected", flagged)
  <2>1. ~Present(s) /\ Loaded /\ UNCHANGED << level, lateSlot >>
    BY <1>1 DEF OnClientConnected
  <2>2. ~IsManaged(s)
    BY <2>1 DEF SteamIdInv, EngineAgrees
  <2>3. /\ c \in Client /\ c.kind # "human" /\ c.phase # "leaving" /\ c.sid = NoSid
    BY DEF FakeClient, Client, Kinds, Phases
  <2>4. \/ client' = [client EXCEPT ![s] = c] /\ UNCHANGED poolVars
        \/ AdoptClient(s, c, name)
    BY <1>1 DEF OnClientConnected
  <2> HIDE DEF c
  <2> QED BY <2>1, <2>2, <2>3, <2>4, ClientStepKeepsInv, AdoptClientKeepsInv
<1>2. ASSUME NEW sid \in SteamIds, HumanConnected(s, sid)
      PROVE  IndInv'
  <2>1. ~Present(s) /\ Loaded
    BY <1>2 DEF HumanConnected
  <2>2. ~IsManaged(s)
    BY <2>1 DEF SteamIdInv, EngineAgrees
  <2>3. HumanClient(sid, "connected") \in Client /\ HumanClient(sid, "connected").kind = "human"
    BY DEF HumanClient, Client, Kinds, Phases
  <2> QED BY <1>2, <2>1, <2>2, <2>3, ClientStepKeepsInv DEF HumanConnected
<1>3. CASE SetHltv(s)
  <2> DEFINE c == [client[s] EXCEPT !.hltv = TRUE]
  <2>1. client[s] \in Client /\ Present(s)
    BY <1>0, <1>3 DEF SetHltv, Present
  <2>2. /\ c \in Client /\ c.kind = client[s].kind /\ c.phase = client[s].phase
        /\ c.sid = client[s].sid
    BY <2>1 DEF Client
  <2>3. client' = [client EXCEPT ![s] = c] /\ UNCHANGED << level, lateSlot, poolVars >> /\ Loaded
    BY <1>3 DEF SetHltv
  <2>4. c # NoClient
    BY <2>2, NoClientAssumption
  <2> HIDE DEF c
  <2> QED BY <2>1, <2>2, <2>3, <2>4, ClientStepKeepsInv
          DEF SteamIdInv, EngineAgrees, NoLingeringSid
<1>4. CASE ClientPutInServer(s)
  <2> DEFINE put == [client[s] EXCEPT !.phase = "active"]
             sid == m_slots[s].steamId
  <2>1. client[s] \in Client /\ Present(s) /\ Loaded /\ UNCHANGED << level, lateSlot >>
    BY <1>0, <1>4 DEF ClientPutInServer, Present
  <2>2. /\ put \in Client /\ put.kind = client[s].kind /\ put.phase = "active"
        /\ put.sid = client[s].sid /\ put # NoClient
    BY <2>1, NoClientAssumption DEF Client, Phases
  <2>3. CASE ~IsManaged(s) /\ client' = [client EXCEPT ![s] = put] /\ UNCHANGED poolVars
    <3> HIDE DEF put
    <3> QED BY <2>1, <2>2, <2>3, ClientStepKeepsInv DEF SteamIdInv, NoLingeringSid
  <2>4. CASE /\ IsManaged(s) /\ client' = [client EXCEPT ![s] = [put EXCEPT !.sid = NoSid]]
             /\ ReleaseSlots({s})
    <3>1. [put EXCEPT !.sid = NoSid] \in Client /\ [put EXCEPT !.sid = NoSid].sid = NoSid
      BY <2>2 DEF Client
    <3> HIDE DEF put
    <3>2. /\ client' \in [Slots -> Client \cup {NoClient}]
          /\ client'[s].sid = NoSid
          /\ \A t \in Slots \ {s} : client'[t] = client[t]
      BY <2>4, <3>1 DEF TypeOK
    <3> QED BY <2>1, <2>4, <3>2, ReleaseKeepsInv
  <2>5. CASE /\ IsManaged(s) /\ client' = [client EXCEPT ![s] = [put EXCEPT !.sid = sid]]
             /\ UNCHANGED poolVars
    <3>1. sid = client[s].sid /\ client[s].kind # "human"
      BY <2>5 DEF SteamIdInv, EngineAgrees
    <3>2. [put EXCEPT !.sid = sid] = put
      BY <2>2, <3>1 DEF Client
    <3>3. client' = [client EXCEPT ![s] = put]
      BY <2>5, <3>2
    <3> HIDE DEF put
    <3> QED BY <2>1, <2>2, <2>5, <3>1, <3>3, ClientStepKeepsInv
  <2> QED BY <1>4, <2>3, <2>4, <2>5 DEF ClientPutInServer
<1>5. ASSUME NEW sid \in SteamIds, ApplySteamIdCommand(s, sid)
      PROVE  IndInv'
  <2>1. IsManaged(s) /\ Loaded /\ Available(s, sid) /\ UNCHANGED << level, lateSlot >>
    BY <1>5 DEF ApplySteamIdCommand
  <2>2. /\ client[s] \in Client /\ client[s].kind # "human" /\ client[s].phase # "leaving"
    BY <1>0, <2>1 DEF SteamIdInv, EngineAgrees, Present
  <2>3. client' = [client EXCEPT ![s] = [client[s] EXCEPT !.sid = sid]]
    BY <1>5 DEF ApplySteamIdCommand, SteamIdWritten, TypeOK
  <2>4. m_slots' = [m_slots EXCEPT ![s] = [m_slots[s] EXCEPT !.steamId = sid]]
    BY <1>5 DEF ApplySteamIdCommand
  <2>5. /\ m_slots' \in [Slots -> Snapshot]
        /\ \A t \in Slots : /\ m_slots'[t].managed = m_slots[t].managed
                            /\ m_slots'[t].incarnation = m_slots[t].incarnation
    BY <2>4 DEF TypeOK, Snapshot
  <2>6. client' \in [Slots -> Client \cup {NoClient}]
    BY <2>2, <2>3 DEF TypeOK, Client
  <2>7. TypeOK'
    BY <1>5, <2>5, <2>6 DEF TypeOK, ApplySteamIdCommand
  <2>8. RegistryInv'
    BY <1>5, <2>5 DEF ApplySteamIdCommand, RegistryInv, LeasesConsistent, IncarnationsDistinct,
                      IncarnationsIssued, IsManaged, Issued
  <2>9. \A t \in Slots \ {s} : IsManaged(t) => m_slots[t].steamId # sid
    BY <2>1 DEF Available, CollectOccupiedSteamIds, ManagedSteamIds
  <2>10. ManagedSidsDistinct'
    BY <2>4, <2>9, PoolAssumption DEF SteamIdInv, ManagedSidsDistinct, IsManaged, TypeOK, Snapshot
  <2>11. EngineAgrees'
    BY <2>1, <2>2, <2>3, <2>4, NoClientAssumption
       DEF SteamIdInv, EngineAgrees, IsManaged, Present, TypeOK, Snapshot, Client
  <2>12. NoLingeringSid'
    BY <2>1, <2>3, <2>5 DEF SteamIdInv, NoLingeringSid, IsManaged, Present, TypeOK
  <2>13. LateLoadPending'
    BY <2>1, PoolAssumption DEF LateLoadPending, Loaded, TypeOK
  <2> QED BY <2>7, <2>8, <2>10, <2>11, <2>12, <2>13 DEF SteamIdInv
<1>6. CASE ClientDisconnect(s)
  <2> DEFINE left == [client[s] EXCEPT !.phase = "leaving"]
  <2>1. client[s] \in Client /\ Present(s) /\ Loaded /\ UNCHANGED << level, lateSlot >>
    BY <1>0, <1>6 DEF ClientDisconnect, Present
  <2>2. /\ left \in Client /\ left.kind = client[s].kind
        /\ left.sid = client[s].sid /\ left # NoClient
    BY <2>1, NoClientAssumption DEF Client, Phases
  <2>3. CASE ~IsManaged(s) /\ client' = [client EXCEPT ![s] = left] /\ UNCHANGED poolVars
    <3> HIDE DEF left
    <3> QED BY <2>1, <2>2, <2>3, ClientStepKeepsInv DEF SteamIdInv, NoLingeringSid
  <2>4. CASE /\ IsManaged(s) /\ client' = [client EXCEPT ![s] = [left EXCEPT !.sid = NoSid]]
             /\ ReleaseSlots({s})
    <3>1. [left EXCEPT !.sid = NoSid] \in Client /\ [left EXCEPT !.sid = NoSid].sid = NoSid
      BY <2>2 DEF Client
    <3> HIDE DEF left
    <3>2. /\ client' \in [Slots -> Client \cup {NoClient}]
          /\ client'[s].sid = NoSid
          /\ \A t \in Slots \ {s} : client'[t] = client[t]
      BY <2>4, <3>1 DEF TypeOK
    <3> QED BY <2>1, <2>4, <3>2, ReleaseKeepsInv
  <2> QED BY <1>6, <2>3, <2>4 DEF ClientDisconnect
<1>7. CASE FreeClient(s)
  <2>1. ~IsManaged(s)
    BY <1>7 DEF FreeClient, SteamIdInv, EngineAgrees
  <2> QED BY <1>7, <2>1, ClientStepKeepsInv DEF FreeClient
<1> QED BY <1>1, <1>2, <1>3, <1>4, <1>5, <1>6, <1>7 DEF SlotStep

\* Every step keeps the invariant.
LEMMA NextKeepsInv == IndInv /\ [Next]_vars => IndInv'
<1> SUFFICES ASSUME IndInv, [Next]_vars PROVE IndInv'
  OBVIOUS
<1> USE DEF IndInv
<1>1. ASSUME NEW name \in Names, NEW nameHltv \in BOOLEAN, AdoptExistingBots(name, nameHltv)
      PROVE  IndInv'
  <2>1. /\ lateSlot \in Slots /\ lateSlot' = lateSlot + 1 /\ UNCHANGED level
        /\ ~IsManaged(lateSlot) /\ level = "up"
    BY <1>1, PoolAssumption DEF AdoptExistingBots, TypeOK, SteamIdInv, LateLoadPending
  <2>2. CASE UNCHANGED << client, poolVars >>
    <3>1. TypeOK' /\ RegistryInv'
      BY <2>1, <2>2, SameRegistry, PoolAssumption DEF TypeOK
    <3>2. m_slots' = m_slots /\ client' = client
      BY <2>2 DEF poolVars
    <3>3. ManagedSidsDistinct' /\ EngineAgrees' /\ NoLingeringSid'
      BY <2>1, <3>2 DEF SteamIdInv, ManagedSidsDistinct, EngineAgrees, NoLingeringSid, IsManaged, Present
    <3>4. LateLoadPending'
      BY <2>1, <3>2, PoolAssumption DEF SteamIdInv, LateLoadPending, IsManaged, Present, TypeOK
    <3> QED BY <3>1, <3>3, <3>4 DEF SteamIdInv
  <2>3. CASE /\ Present(lateSlot) /\ client[lateSlot].kind # "human"
             /\ AdoptClient(lateSlot, client[lateSlot], name)
    <3>1. /\ client[lateSlot] \in Client /\ client[lateSlot].phase # "leaving"
          /\ client[lateSlot].sid = NoSid
      BY <1>1, <2>1, <2>3, PoolAssumption
         DEF AdoptExistingBots, TypeOK, Present, SteamIdInv, LateLoadPending, NoLingeringSid
    <3> QED BY <2>1, <2>3, <3>1, AdoptClientKeepsInv
  <2> QED BY <1>1, <2>2, <2>3 DEF AdoptExistingBots
<1>2. ASSUME NEW s \in Slots, SlotStep(s)
      PROVE  IndInv'
  BY <1>2, SlotStepKeepsInv
<1>3. CASE GameFrame
  <2> DEFINE tv == {s \in Slots : IsManaged(s) /\ IsHltv(s)}
  <2>1. /\ client' = SteamIdWritten(tv, NoSid) /\ ReleaseSlots(tv)
        /\ Loaded /\ UNCHANGED << level, lateSlot >>
    BY <1>3 DEF GameFrame
  <2>2. \A s \in tv : client[s] \in Client /\ [client[s] EXCEPT !.sid = NoSid] \in Client
                       /\ [client[s] EXCEPT !.sid = NoSid].sid = NoSid
    BY DEF TypeOK, IsHltv, Present, Client
  <2>3. tv \in SUBSET Slots /\ \A s \in tv : IsManaged(s)
    OBVIOUS
  <2> HIDE DEF tv
  <2>4. /\ client' \in [Slots -> Client \cup {NoClient}]
        /\ \A s \in tv : client'[s].sid = NoSid
        /\ \A s \in Slots \ tv : client'[s] = client[s]
    BY <2>1, <2>2, <2>3 DEF SteamIdWritten, TypeOK
  <2> QED BY <2>1, <2>3, <2>4, ReleaseKeepsInv
<1>4. CASE StartChangeLevel
  <2> DEFINE M == {s \in Slots : IsManaged(s) /\ Present(s)}
  <2>1. /\ client' = SteamIdWritten(M, NoSid) /\ ReleaseAll
        /\ Loaded /\ UNCHANGED << level, lateSlot >>
    BY <1>4 DEF StartChangeLevel
  <2>2. \A s \in M : [client[s] EXCEPT !.sid = NoSid] \in Client
                       /\ [client[s] EXCEPT !.sid = NoSid].sid = NoSid
    BY DEF TypeOK, Present, Client
  <2>3. \A s \in Slots : s \in M <=> IsManaged(s)
    BY DEF SteamIdInv, EngineAgrees
  <2> HIDE DEF M
  <2>4. /\ client' \in [Slots -> Client \cup {NoClient}]
        /\ \A s \in Slots : /\ IsManaged(s) => client'[s].sid = NoSid
                            /\ ~IsManaged(s) => client'[s] = client[s]
    BY <2>1, <2>2, <2>3 DEF SteamIdWritten, TypeOK
  <2>5. \A s \in Slots : ~m_slots'[s].managed
    BY <2>1 DEF ReleaseAll, EmptySlot
  <2>6. TypeOK' /\ RegistryInv'
    BY <2>1, <2>4, ReleaseAllKeepsRegistry DEF TypeOK
  <2>7. ManagedSidsDistinct' /\ EngineAgrees'
    BY <2>5 DEF ManagedSidsDistinct, EngineAgrees, IsManaged
  <2>8. NoLingeringSid'
    <3> SUFFICES ASSUME level = "up", NEW s \in Slots,
                        client'[s] # NoClient, client'[s].kind # "human"
                 PROVE  client'[s].sid = NoSid
      BY <2>1 DEF NoLingeringSid, Present
    <3>1. CASE IsManaged(s)
      BY <2>4, <3>1
    <3>2. CASE ~IsManaged(s)
      BY <2>4, <3>2 DEF SteamIdInv, NoLingeringSid, Present
    <3> QED BY <3>1, <3>2
  <2>9. LateLoadPending'
    BY <2>1, PoolAssumption DEF LateLoadPending, Loaded, TypeOK
  <2> QED BY <2>6, <2>7, <2>8, <2>9 DEF SteamIdInv
<1>5. CASE OnLevelShutdown
  <2>1. \A s \in Slots : ~m_slots'[s].managed
    BY <1>5 DEF OnLevelShutdown, ReleaseAll, EmptySlot
  <2>2. TypeOK' /\ RegistryInv'
    BY <1>5, ReleaseAllKeepsRegistry DEF TypeOK, OnLevelShutdown
  <2>3. ManagedSidsDistinct' /\ EngineAgrees' /\ NoLingeringSid'
    BY <1>5, <2>1 DEF OnLevelShutdown, ManagedSidsDistinct, EngineAgrees, NoLingeringSid, IsManaged
  <2>4. LateLoadPending'
    BY <1>5, PoolAssumption DEF OnLevelShutdown, LateLoadPending, Loaded, TypeOK
  <2> QED BY <2>2, <2>3, <2>4 DEF SteamIdInv
<1>6. CASE OnLevelInit
  <2>1. TypeOK' /\ RegistryInv'
    BY <1>6, SameRegistry DEF TypeOK, OnLevelInit
  <2>2. m_slots' = m_slots /\ client' = client
    BY <1>6 DEF OnLevelInit, poolVars
  <2>3. ManagedSidsDistinct' /\ EngineAgrees' /\ NoLingeringSid'
    BY <1>6, <2>2 DEF OnLevelInit, SteamIdInv, ManagedSidsDistinct, EngineAgrees, NoLingeringSid,
                      IsManaged, Present
  <2>4. LateLoadPending'
    BY <1>6, PoolAssumption DEF OnLevelInit, LateLoadPending, Loaded, TypeOK
  <2> QED BY <2>1, <2>3, <2>4 DEF SteamIdInv
<1>7. CASE UNCHANGED vars
  <2>1. TypeOK' /\ RegistryInv'
    BY <1>7, SameRegistry DEF TypeOK, vars
  <2>2. m_slots' = m_slots /\ client' = client /\ level' = level /\ lateSlot' = lateSlot
    BY <1>7 DEF vars, poolVars
  <2>3. SteamIdInv'
    BY <2>2 DEF SteamIdInv, ManagedSidsDistinct, EngineAgrees, NoLingeringSid, LateLoadPending,
                IsManaged, Present
  <2> QED BY <2>1, <2>3
<1> QED BY <1>1, <1>2, <1>3, <1>4, <1>5, <1>6, <1>7 DEF Next

\* The invariant holds in every reachable state.
LEMMA AlwaysIndInv == Spec => []IndInv
BY InitIndInv, NextKeepsInv, PTL DEF Spec

-------------------------------------------------------------------------------
\* Every variable stays in its type, for all constants.
THEOREM TypeCorrect == Spec => []TypeOK
<1>1. IndInv => TypeOK
  BY DEF IndInv
<1> QED BY <1>1, AlwaysIndInv, PTL

\* No path leaks an identity or gives it to two bots: what BotInfoStore marks as
\* assigned is what the slots are bound to.
THEOREM LeasesAlwaysConsistent == Spec => []LeasesConsistent
<1>1. IndInv => LeasesConsistent
  BY DEF IndInv, RegistryInv
<1> QED BY <1>1, AlwaysIndInv, PTL

\* Managed bots always have pairwise distinct, nonzero SteamIDs.
THEOREM SidsAlwaysDistinct == Spec => []ManagedSidsDistinct
<1>1. IndInv => ManagedSidsDistinct
  BY DEF IndInv, SteamIdInv
<1> QED BY <1>1, AlwaysIndInv, PTL

\* The engine's client carries the published SteamID of a managed slot, and a
\* fake client that is not managed carries none.
THEOREM EngineAlwaysAgrees == Spec => []SteamIdsAgree
<1>1. IndInv => SteamIdsAgree
  BY DEF IndInv, SteamIdInv, SteamIdsAgree
<1> QED BY <1>1, AlwaysIndInv, PTL

\* Managed slots have pairwise distinct, nonzero incarnations, across the wrap.
THEOREM IncarnationsAlwaysDistinct == Spec => []IncarnationsDistinct
<1>1. IndInv => IncarnationsDistinct
  BY DEF IndInv, RegistryInv
<1> QED BY <1>1, AlwaysIndInv, PTL

-------------------------------------------------------------------------------
\* What a step can do to the registry.
RegistryStep ==
  \/ UNCHANGED poolVars
  \/ \E s \in Slots, e \in Entries \ m_assigned : ~IsManaged(s) /\ Adopt(s, e)
  \/ \E S \in SUBSET Slots : ReleaseSlots(S)
  \/ ReleaseAll
  \/ \E s \in Slots, sid \in SteamIds :
       /\ m_slots' = [m_slots EXCEPT ![s].steamId = sid]
       /\ UNCHANGED << m_assigned, g_slotEntries, m_nextIncarnation, adoptions >>

\* AdoptClient either leaves the registry alone or adopts a free entry.
LEMMA AdoptClientIsRegistryStep ==
  ASSUME NEW s \in Slots, NEW c, NEW name, ~IsManaged(s), AdoptClient(s, c, name)
  PROVE  RegistryStep
BY PickIsFree DEF AdoptClient, RegistryStep

\* Every step of the specification is one of them.
LEMMA NextIsRegistryStep == IndInv /\ [Next]_vars => RegistryStep
<1> SUFFICES ASSUME IndInv, [Next]_vars PROVE RegistryStep
  OBVIOUS
<1>1. ASSUME NEW name \in Names, NEW nameHltv \in BOOLEAN, AdoptExistingBots(name, nameHltv)
      PROVE  RegistryStep
  <2>1. lateSlot \in Slots /\ ~IsManaged(lateSlot)
    BY <1>1, PoolAssumption DEF AdoptExistingBots, IndInv, TypeOK, SteamIdInv, LateLoadPending
  <2>2. UNCHANGED poolVars \/ AdoptClient(lateSlot, client[lateSlot], name)
    BY <1>1 DEF AdoptExistingBots
  <2> QED BY <2>1, <2>2, AdoptClientIsRegistryStep DEF RegistryStep
<1>2. ASSUME NEW s \in Slots, SlotStep(s)
      PROVE  RegistryStep
  <2>1. ASSUME NEW kind \in {"bot", "tv"}, NEW name \in Names, NEW nameHltv \in BOOLEAN,
               NEW flagged \in BOOLEAN, OnClientConnected(s, kind, name, nameHltv, flagged)
        PROVE  RegistryStep
    <3>1. ~IsManaged(s)
      BY <2>1 DEF OnClientConnected, IndInv, SteamIdInv, EngineAgrees
    <3>2. UNCHANGED poolVars \/ AdoptClient(s, FakeClient(kind, "connected", flagged), name)
      BY <2>1 DEF OnClientConnected
    <3> QED BY <3>1, <3>2, AdoptClientIsRegistryStep DEF RegistryStep
  <2>2. CASE ClientPutInServer(s) \/ ClientDisconnect(s)
    BY <2>2 DEF ClientPutInServer, ClientDisconnect, RegistryStep
  <2>3. ASSUME NEW sid \in SteamIds, ApplySteamIdCommand(s, sid)
        PROVE  RegistryStep
    BY <2>3 DEF ApplySteamIdCommand, RegistryStep
  <2>4. CASE UNCHANGED poolVars
    BY <2>4 DEF RegistryStep
  <2> QED BY <1>2, <2>1, <2>2, <2>3, <2>4 DEF SlotStep, HumanConnected, SetHltv, FreeClient
<1>3. CASE GameFrame
  BY <1>3 DEF GameFrame, RegistryStep
<1>4. CASE StartChangeLevel \/ OnLevelShutdown
  BY <1>4 DEF StartChangeLevel, OnLevelShutdown, RegistryStep
<1>5. CASE OnLevelInit \/ UNCHANGED vars
  BY <1>5 DEF OnLevelInit, vars, RegistryStep
<1> QED BY <1>1, <1>2, <1>3, <1>4, <1>5 DEF Next

\* The refinement mapping inverts the bindings.
SlotOfIsInverse ==
  /\ slotOf \in [Entries -> Slots \cup {NoSlot}]
  /\ \A e \in Entries, s \in Slots : slotOf[e] = s <=> g_slotEntries[s] = e
  /\ \A e \in Entries : slotOf[e] = NoSlot <=> e \notin m_assigned

\* It does so because no entry is bound twice.
LEMMA SlotOfInverts == IndInv => SlotOfIsInverse
<1> SUFFICES ASSUME TypeOK, LeasesConsistent PROVE SlotOfIsInverse
  BY DEF IndInv, RegistryInv
<1>1. ASSUME NEW e \in Entries, NEW s \in Slots, g_slotEntries[s] = e
      PROVE  slotOf[e] = s
  <2>1. \A t \in Slots : g_slotEntries[t] = e => t = s
    BY <1>1, PoolAssumption DEF LeasesConsistent
  <2>2. (CHOOSE t \in Slots : g_slotEntries[t] = e) = s
    BY <1>1, <2>1
  <2> QED BY <1>1, <2>2 DEF slotOf
<1>2. ASSUME NEW e \in Entries, \A s \in Slots : g_slotEntries[s] # e
      PROVE  slotOf[e] = NoSlot
  BY <1>2 DEF slotOf
<1>3. NoSlot \notin Slots
  BY PoolAssumption
<1>4. \A e \in Entries : e \in m_assigned <=> \E s \in Slots : g_slotEntries[s] = e
  BY PoolAssumption DEF LeasesConsistent
<1>5. slotOf = [e \in Entries |-> slotOf[e]]
  BY DEF slotOf
<1> QED BY <1>1, <1>2, <1>3, <1>4, <1>5 DEF SlotOfIsInverse

\* The registry implements the lease service.
THEOREM RegistryImplementsLease == Spec => ImplementsLease
<1>1. Init => Lease!Init
  BY PoolAssumption DEF Init, Lease!Init, slotOf
<1>2. IndInv /\ IndInv' /\ [Next]_vars => [Lease!Next]_slotOf
  <2> SUFFICES ASSUME IndInv, IndInv', RegistryStep
               PROVE  Lease!Next \/ slotOf' = slotOf
    BY NextIsRegistryStep
  <2>0. /\ TypeOK /\ LeasesConsistent /\ TypeOK' /\ LeasesConsistent'
    BY DEF IndInv, RegistryInv
  <2>a. /\ slotOf \in [Entries -> Slots \cup {NoSlot}]
        /\ \A e \in Entries, s \in Slots : slotOf[e] = s <=> g_slotEntries[s] = e
        /\ \A e \in Entries : slotOf[e] = NoSlot <=> e \notin m_assigned
    BY SlotOfInverts DEF SlotOfIsInverse
  <2>b. /\ slotOf' \in [Entries -> Slots \cup {NoSlot}]
        /\ \A e \in Entries, s \in Slots : slotOf'[e] = s <=> g_slotEntries'[s] = e
        /\ \A e \in Entries : slotOf'[e] = NoSlot <=> e \notin m_assigned'
    <3>1. SlotOfIsInverse'
      BY SlotOfInverts, PTL
    <3> QED BY <3>1 DEF SlotOfIsInverse
  <2>1. CASE UNCHANGED g_slotEntries
    BY <2>1 DEF slotOf
  <2>2. ASSUME NEW s \in Slots, NEW e \in Entries \ m_assigned, ~IsManaged(s), Adopt(s, e)
        PROVE  Lease!Grant(e, s)
    <3>1. g_slotEntries[s] = NoEntry
      BY <2>0, <2>2 DEF LeasesConsistent
    <3>2. g_slotEntries' = [g_slotEntries EXCEPT ![s] = e] /\ m_assigned' = m_assigned \cup {e}
      BY <2>2 DEF Adopt
    <3>3. slotOf[e] = NoSlot /\ s \notin Lease!Holding
      BY <2>a, <3>1, PoolAssumption DEF Lease!Holding
    <3>4. \A d \in Entries : slotOf'[d] = IF d = e THEN s ELSE slotOf[d]
      BY <2>0, <2>a, <2>b, <3>1, <3>2, PoolAssumption DEF TypeOK
    <3>5. slotOf' = [slotOf EXCEPT ![e] = s]
      BY <2>a, <2>b, <3>4
    <3> QED BY <3>3, <3>5 DEF Lease!Grant
  <2>3. ASSUME NEW S \in SUBSET Slots,
               g_slotEntries' = [s \in Slots |-> IF s \in S THEN NoEntry ELSE g_slotEntries[s]]
        PROVE  Lease!Return(S)
    <3>1. \A d \in Entries : slotOf'[d] = IF slotOf[d] \in S THEN NoSlot ELSE slotOf[d]
      <4> SUFFICES ASSUME NEW d \in Entries
                   PROVE  slotOf'[d] = IF slotOf[d] \in S THEN NoSlot ELSE slotOf[d]
        OBVIOUS
      <4>1. CASE slotOf[d] \in S
        <5>1. \A s \in Slots : g_slotEntries'[s] # d
          BY <2>a, <2>3, <4>1, PoolAssumption
        <5> QED BY <2>b, <4>1, <5>1
      <4>2. CASE slotOf[d] \in Slots /\ slotOf[d] \notin S
        <5>1. g_slotEntries'[slotOf[d]] = d
          BY <2>a, <2>3, <4>2
        <5> QED BY <2>b, <4>2, <5>1
      <4>3. CASE slotOf[d] = NoSlot
        <5>1. \A s \in Slots : g_slotEntries[s] # d
          BY <2>a, <4>3, PoolAssumption
        <5>2. \A s \in Slots : g_slotEntries'[s] # d
          BY <2>3, <5>1, PoolAssumption
        <5>3. slotOf'[d] = NoSlot
          BY <2>b, <5>2
        <5> QED BY <4>3, <5>3, PoolAssumption
      <4> QED BY <2>a, <4>1, <4>2, <4>3
    <3> QED BY <2>b, <3>1 DEF Lease!Return
  <2>4. CASE ReleaseAll
    <3>1. g_slotEntries' = [s \in Slots |-> IF s \in Slots THEN NoEntry ELSE g_slotEntries[s]]
      BY <2>4 DEF ReleaseAll
    <3> QED BY <2>3, <3>1 DEF Lease!Next
  <2>5. CASE \E S \in SUBSET Slots : ReleaseSlots(S)
    BY <2>3, <2>5 DEF ReleaseSlots, Lease!Next
  <2>6. CASE \E s \in Slots, e \in Entries \ m_assigned : ~IsManaged(s) /\ Adopt(s, e)
    BY <2>2, <2>6 DEF Lease!Next
  <2> QED BY <2>1, <2>4, <2>5, <2>6 DEF RegistryStep, poolVars
<1> QED BY <1>1, <1>2, AlwaysIndInv, PTL DEF Spec, ImplementsLease, Lease!Spec

\* A token kept from an earlier adoption never matches a later one.
THEOREM IncarnationsAlwaysFresh == Spec => FreshIncarnations
<1>1. IndInv /\ [Next]_vars =>
        [\A s \in Slots :
           m_slots'[s].managed /\ m_slots'[s].incarnation # m_slots[s].incarnation
             => m_slots'[s].incarnation \notin Issued]_vars
  <2> SUFFICES ASSUME IndInv, RegistryStep, NEW s \in Slots,
                      m_slots'[s].managed, m_slots'[s].incarnation # m_slots[s].incarnation
               PROVE  m_slots'[s].incarnation \notin Issued
    BY NextIsRegistryStep
  <2> USE DEF IndInv
  <2>1. ASSUME NEW t \in Slots, NEW e \in Entries, Adopt(t, e)
        PROVE  m_slots'[s].incarnation \notin Issued
    <3>1. /\ NextIncarnation(m_nextIncarnation) = IncarnationAt(adoptions + 1)
          /\ IncarnationAt(adoptions + 1) \notin Issued
      BY <2>1, NextIsIssuedNext, IncarnationAssumption
         DEF TypeOK, RegistryInv, IncarnationsIssued, Adopt, Issued
    <3>2. m_slots'[s].incarnation = NextIncarnation(m_nextIncarnation)
      BY <2>1 DEF Adopt, AdoptedSnapshot, TypeOK, Snapshot
    <3> QED BY <3>1, <3>2
  <2>2. CASE UNCHANGED poolVars
    BY <2>2 DEF poolVars
  <2>3. CASE ReleaseAll \/ \E S \in SUBSET Slots : ReleaseSlots(S)
    <3>1. m_slots'[s] = EmptySlot \/ m_slots'[s] = m_slots[s]
      BY <2>3 DEF ReleaseAll, ReleaseSlots
    <3> QED BY <3>1 DEF EmptySlot
  <2>4. CASE \E t \in Slots, sid \in SteamIds : m_slots' = [m_slots EXCEPT ![t].steamId = sid]
    <3>1. PICK t \in Slots, sid \in SteamIds : m_slots' = [m_slots EXCEPT ![t].steamId = sid]
      BY <2>4
    <3>2. m_slots[s] \in Snapshot /\ m_slots[t] \in Snapshot
      BY DEF TypeOK
    <3>3. m_slots'[s] = IF s = t THEN [m_slots[s] EXCEPT !.steamId = sid] ELSE m_slots[s]
      BY <3>1 DEF TypeOK
    <3> QED BY <3>2, <3>3 DEF Snapshot
  <2> QED BY <2>1, <2>2, <2>3, <2>4 DEF RegistryStep
<1> QED BY <1>1, AlwaysIndInv, PTL DEF Spec, FreshIncarnations

-------------------------------------------------------------------------------
\* What a step can do to the SteamIDs of the clients: no client gets one that it
\* did not have (and no managed client enters the server), one client gets an ID
\* that no other has, or a player connects.
NoNewSid ==
  \A t \in Slots : client'[t] # NoClient =>
    /\ client'[t].sid # NoSid => Present(t) /\ client[t].sid = client'[t].sid
    /\ Present(t) /\ client[t].phase = "connected" /\ client'[t].phase = "active"
         => ~m_slots'[t].managed

OthersStay(s) == \A t \in Slots \ {s} : client'[t] = client[t]

NewSid(s) ==
  /\ client'[s] # NoClient /\ client'[s].sid \notin ClientSteamIds(s)
  /\ OthersStay(s)

NewHuman(s) ==
  /\ ~Present(s) /\ client'[s].kind = "human"
  /\ OthersStay(s)

SidStep ==
  NoNewSid \/ \E s \in Slots : NewSid(s) \/ NewHuman(s)

LEMMA AdoptClientIsSidStep ==
  ASSUME TypeOK, NEW s \in Slots, NEW c \in Client, NEW name,
         c = client[s] \/ (~Present(s) /\ c.sid = NoSid),
         AdoptClient(s, c, name)
  PROVE  SidStep
<1>1. CASE client' = [client EXCEPT ![s] = c]
  <2>1. client'[s] = c /\ OthersStay(s)
    BY <1>1 DEF TypeOK, OthersStay
  <2>2. \A t \in Slots : t # s => client'[t] = client[t]
    BY <2>1 DEF OthersStay
  <2>3. NoNewSid
    BY <2>1, <2>2, NoClientAssumption DEF NoNewSid, Present
  <2> QED BY <2>3 DEF SidStep
<1>2. ASSUME NEW e \in Candidates(name, CollectOccupiedSteamIds(s)),
             client' = [client EXCEPT ![s] = [c EXCEPT !.sid = SidOf[e]]]
      PROVE  SidStep
  <2>1. e \in Entries /\ SidOf[e] \notin ClientSteamIds(s)
    BY PickIsFree DEF CollectOccupiedSteamIds
  <2>2. [c EXCEPT !.sid = SidOf[e]] \in Client /\ [c EXCEPT !.sid = SidOf[e]].sid = SidOf[e]
    BY <2>1, PoolAssumption DEF Client
  <2>3. client'[s] = [c EXCEPT !.sid = SidOf[e]] /\ OthersStay(s)
    BY <1>2 DEF TypeOK, OthersStay
  <2>4. NewSid(s)
    BY <2>1, <2>2, <2>3, NoClientAssumption DEF NewSid
  <2> QED BY <2>4 DEF SidStep
<1> QED BY <1>1, <1>2 DEF AdoptClient

\* A step that writes SteamID 0 to some clients or none, and lets no client enter.
LEMMA ZeroIsSidStep ==
  ASSUME \A t \in Slots :
           \/ client'[t] = client[t]
           \/ client'[t] = NoClient
           \/ client'[t].sid = NoSid /\ client'[t].phase # "active"
           \/ client'[t].sid = NoSid /\ client'[t].phase = client[t].phase
           \/ client'[t].sid = NoSid /\ ~m_slots'[t].managed
           \/ /\ Present(t) /\ client'[t].sid = client[t].sid
              /\ client'[t].phase \in {"leaving", client[t].phase}
           \/ Present(t) /\ client'[t].sid = client[t].sid /\ ~m_slots'[t].managed
  PROVE  SidStep
BY DEF SidStep, NoNewSid, Present

LEMMA SlotStepIsSidStep ==
  ASSUME IndInv, NEW s \in Slots, SlotStep(s)
  PROVE  SidStep
<1> USE DEF IndInv
<1>0. client[s] \in Client \cup {NoClient}
  BY DEF TypeOK
<1>1. ASSUME NEW kind \in {"bot", "tv"}, NEW name \in Names, NEW nameHltv \in BOOLEAN,
             NEW flagged \in BOOLEAN, OnClientConnected(s, kind, name, nameHltv, flagged)
      PROVE  SidStep
  <2> DEFINE c == FakeClient(kind, "connected", flagged)
  <2>1. c \in Client /\ c.sid = NoSid /\ c.phase # "active"
    BY DEF FakeClient, Client, Kinds, Phases
  <2>2. ~Present(s) /\ (client' = [client EXCEPT ![s] = c] \/ AdoptClient(s, c, name))
    BY <1>1 DEF OnClientConnected
  <2> HIDE DEF c
  <2>3. CASE client' = [client EXCEPT ![s] = c]
    <3>1. \A t \in Slots : client'[t] = client[t] \/ client'[t] = c
      BY <2>3 DEF TypeOK
    <3> QED BY <2>1, <3>1, ZeroIsSidStep
  <2> QED BY <2>1, <2>2, <2>3, AdoptClientIsSidStep
<1>2. ASSUME NEW sid \in SteamIds, HumanConnected(s, sid)
      PROVE  SidStep
  <2>1. ~Present(s) /\ client'[s].kind = "human" /\ OthersStay(s)
    BY <1>2 DEF HumanConnected, HumanClient, TypeOK, OthersStay
  <2> QED BY <2>1 DEF SidStep, NewHuman
<1>3. CASE SetHltv(s)
  <2> DEFINE c == [client[s] EXCEPT !.hltv = TRUE]
  <2>1. client[s] \in Client /\ Present(s)
    BY <1>0, <1>3 DEF SetHltv, Present
  <2>2. c.phase = client[s].phase /\ c.sid = client[s].sid
    BY <2>1 DEF Client
  <2>3. client' = [client EXCEPT ![s] = c]
    BY <1>3 DEF SetHltv
  <2> HIDE DEF c
  <2>4. \A t \in Slots : client'[t] = client[t] \/ (t = s /\ client'[t] = c)
    BY <2>3 DEF TypeOK
  <2> QED BY <2>1, <2>2, <2>4, ZeroIsSidStep
<1>4. CASE ClientPutInServer(s)
  <2> DEFINE put == [client[s] EXCEPT !.phase = "active"]
             sid == m_slots[s].steamId
  <2>1. client[s] \in Client /\ Present(s)
    BY <1>0, <1>4 DEF ClientPutInServer, Present
  <2>2. put \in Client /\ put.sid = client[s].sid
    BY <2>1 DEF Client, Phases
  <2>3. CASE ~IsManaged(s) /\ client' = [client EXCEPT ![s] = put] /\ UNCHANGED poolVars
    <3>1. ~m_slots'[s].managed
      BY <2>3 DEF IsManaged, poolVars
    <3> HIDE DEF put
    <3>2. \A t \in Slots : client'[t] = client[t] \/ (t = s /\ client'[t] = put)
      BY <2>3 DEF TypeOK
    <3> QED BY <2>1, <2>2, <3>1, <3>2, ZeroIsSidStep
  <2>4. CASE /\ IsManaged(s) /\ client' = [client EXCEPT ![s] = [put EXCEPT !.sid = NoSid]]
             /\ ReleaseSlots({s})
    <3>1. ~m_slots'[s].managed
      BY <2>4 DEF ReleaseSlots, EmptySlot
    <3>2. [put EXCEPT !.sid = NoSid].sid = NoSid
      BY <2>2 DEF Client
    <3> HIDE DEF put
    <3>3. \A t \in Slots : client'[t] = client[t]
                            \/ (t = s /\ client'[t] = [put EXCEPT !.sid = NoSid])
      BY <2>4 DEF TypeOK
    <3> QED BY <3>1, <3>2, <3>3, ZeroIsSidStep
  <2>5. CASE Available(s, sid) /\ client' = [client EXCEPT ![s] = [put EXCEPT !.sid = sid]]
    <3> DEFINE c == [put EXCEPT !.sid = sid]
    <3>1. sid \in SteamIds \cup {NoSid} /\ sid \notin ClientSteamIds(s)
      BY <2>5 DEF TypeOK, Snapshot, Available, CollectOccupiedSteamIds
    <3>2. c \in Client /\ c.sid = sid
      BY <2>2, <3>1 DEF Client
    <3>3. client'[s] = c /\ OthersStay(s)
      BY <2>5 DEF TypeOK, OthersStay
    <3> HIDE DEF c
    <3> QED BY <3>1, <3>2, <3>3, NoClientAssumption DEF SidStep, NewSid
  <2> QED BY <1>4, <2>3, <2>4, <2>5 DEF ClientPutInServer
<1>5. ASSUME NEW sid \in SteamIds, ApplySteamIdCommand(s, sid)
      PROVE  SidStep
  <2> DEFINE c == [client[s] EXCEPT !.sid = sid]
  <2>1. client[s] \in Client /\ sid \notin ClientSteamIds(s)
    BY <1>0, <1>5 DEF ApplySteamIdCommand, Available, CollectOccupiedSteamIds, Present
  <2>2. c \in Client /\ c.sid = sid
    BY <2>1 DEF Client
  <2>3. client'[s] = c /\ OthersStay(s)
    BY <1>5 DEF ApplySteamIdCommand, SteamIdWritten, OthersStay
  <2> HIDE DEF c
  <2> QED BY <2>1, <2>2, <2>3, NoClientAssumption DEF SidStep, NewSid
<1>6. CASE ClientDisconnect(s)
  <2> DEFINE left == [client[s] EXCEPT !.phase = "leaving"]
             gone == [left EXCEPT !.sid = NoSid]
  <2>1. client[s] \in Client /\ Present(s)
    BY <1>0, <1>6 DEF ClientDisconnect, Present
  <2>2. left.phase = "leaving" /\ left.sid = client[s].sid
        /\ gone.phase = "leaving" /\ gone.sid = NoSid
    BY <2>1 DEF Client
  <2>3. client' = [client EXCEPT ![s] = left] \/ client' = [client EXCEPT ![s] = gone]
    BY <1>6 DEF ClientDisconnect
  <2> HIDE DEF left, gone
  <2>4. \A t \in Slots : client'[t] = client[t] \/ (t = s /\ client'[t] \in {left, gone})
    BY <2>3 DEF TypeOK
  <2> QED BY <2>1, <2>2, <2>4, ZeroIsSidStep
<1>7. CASE FreeClient(s)
  <2>1. \A t \in Slots : client'[t] = client[t] \/ client'[t] = NoClient
    BY <1>7 DEF FreeClient, TypeOK
  <2> QED BY <2>1, ZeroIsSidStep
<1> QED BY <1>1, <1>2, <1>3, <1>4, <1>5, <1>6, <1>7 DEF SlotStep

LEMMA NextIsSidStep ==
  ASSUME IndInv, [Next]_vars
  PROVE  SidStep
<1> USE DEF IndInv
<1>1. ASSUME client' = client PROVE SidStep
  BY <1>1, ZeroIsSidStep
<1>2. ASSUME NEW name \in Names, NEW nameHltv \in BOOLEAN, AdoptExistingBots(name, nameHltv)
      PROVE  SidStep
  <2>1. lateSlot \in Slots
    BY <1>2, PoolAssumption DEF AdoptExistingBots, TypeOK
  <2>2. CASE client' = client
    BY <2>2, <1>1
  <2>3. CASE Present(lateSlot) /\ AdoptClient(lateSlot, client[lateSlot], name)
    <3>1. client[lateSlot] \in Client
      BY <2>1, <2>3 DEF TypeOK, Present
    <3> QED BY <2>1, <2>3, <3>1, AdoptClientIsSidStep
  <2> QED BY <1>2, <2>2, <2>3 DEF AdoptExistingBots
<1>3. ASSUME NEW S \in SUBSET Slots, client' = SteamIdWritten(S, NoSid),
             \A s \in S : Present(s)
      PROVE  SidStep
  <2>1. \A t \in Slots : \/ client'[t] = client[t]
                         \/ client'[t].sid = NoSid /\ client'[t].phase = client[t].phase
    <3> SUFFICES ASSUME NEW t \in S
                 PROVE  client'[t].sid = NoSid /\ client'[t].phase = client[t].phase
      BY <1>3 DEF SteamIdWritten
    <3>1. client[t] \in Client
      BY <1>3 DEF TypeOK, Present
    <3> QED BY <1>3, <3>1 DEF SteamIdWritten, Client
  <2> QED BY <2>1, ZeroIsSidStep
<1>4. CASE GameFrame
  <2>1. {s \in Slots : IsManaged(s) /\ IsHltv(s)} \in SUBSET Slots
    OBVIOUS
  <2> QED BY <1>3, <1>4, <2>1 DEF GameFrame, IsHltv
<1>5. CASE StartChangeLevel
  <2>1. {s \in Slots : IsManaged(s) /\ Present(s)} \in SUBSET Slots
    OBVIOUS
  <2> QED BY <1>3, <1>5, <2>1 DEF StartChangeLevel
<1>6. CASE OnLevelShutdown \/ OnLevelInit \/ UNCHANGED vars
  BY <1>1, <1>6 DEF OnLevelShutdown, OnLevelInit, vars
<1> QED BY <1>2, <1>4, <1>5, <1>6, SlotStepIsSidStep DEF Next

\* The plugin never makes two clients clash: only a player who connects can, and
\* a bot that enters the server and stays managed clashes with nobody.
THEOREM ClashesAlwaysByHuman == Spec => ClashOnlyByHuman
<1>1. IndInv /\ [Next]_vars =>
        [/\ \A s, t \in Slots : s # t /\ Clash(client', s, t) /\ ~Clash(client, s, t)
              => \E u \in {s, t} : client[u] = NoClient /\ client'[u].kind = "human"
         /\ \A s \in Slots :
              /\ Present(s) /\ client[s].phase = "connected" /\ client'[s] # NoClient
              /\ client'[s].phase = "active" /\ m_slots'[s].managed
              => \A t \in Slots \ {s} : ~Clash(client', s, t)]_vars
  <2> SUFFICES ASSUME SidStep
               PROVE  /\ \A s, t \in Slots : s # t /\ Clash(client', s, t) /\ ~Clash(client, s, t)
                           => \E u \in {s, t} : client[u] = NoClient /\ client'[u].kind = "human"
                      /\ \A s \in Slots :
                           /\ Present(s) /\ client[s].phase = "connected" /\ client'[s] # NoClient
                           /\ client'[s].phase = "active" /\ m_slots'[s].managed
                           => \A t \in Slots \ {s} : ~Clash(client', s, t)
    BY NextIsSidStep
  <2>1. CASE NoNewSid
    BY <2>1 DEF NoNewSid, Clash, Present
  <2>2. ASSUME NEW u \in Slots, NewSid(u)
        PROVE  \A t \in Slots \ {u} : ~Clash(client', u, t) /\ ~Clash(client', t, u)
    BY <2>2 DEF NewSid, OthersStay, ClientSteamIds, Clash, Present
  <2>3. ASSUME NEW u \in Slots, OthersStay(u), NEW s \in Slots \ {u}, NEW t \in Slots \ {u}
        PROVE  /\ Clash(client', s, t) => Clash(client, s, t)
               /\ client'[s] = client[s]
    BY <2>3 DEF OthersStay, Clash
  <2>4. ASSUME NEW u \in Slots, NewSid(u) \/ NewHuman(u)
        PROVE  /\ \A s, t \in Slots : s # t /\ Clash(client', s, t) /\ ~Clash(client, s, t)
                    => client[u] = NoClient /\ client'[u].kind = "human" /\ u \in {s, t}
               /\ \A s \in Slots :
                    /\ Present(s) /\ client[s].phase = "connected" /\ client'[s] # NoClient
                    /\ client'[s].phase = "active" /\ m_slots'[s].managed
                    => \A t \in Slots \ {s} : ~Clash(client', s, t)
    <3>1. OthersStay(u)
      BY <2>4 DEF NewSid, NewHuman
    <3>2. CASE NewSid(u)
      BY <2>2, <2>3, <3>1, <3>2
    <3>3. CASE NewHuman(u)
      BY <2>3, <3>1, <3>3 DEF NewHuman, Present
    <3> QED BY <2>4, <3>2, <3>3
  <2> QED BY <2>1, <2>4 DEF SidStep
<1> QED BY <1>1, AlwaysIndInv, PTL DEF Spec, ClashOnlyByHuman
-------------------------------------------------------------------------------
(***************************************************************************)
(* PingDisplay: the sum that is kept is the sum of the window.             *)
(***************************************************************************)
\* Induction, stated for a set of numbers.
LEMMA NumbersByInduction ==
  ASSUME NEW S, 0 \in S, \A n \in Nat : n \in S => n + 1 \in S
  PROVE  \A n \in Nat : n \in S
<1> SUFFICES ASSUME Nat \ S # {} PROVE FALSE
  OBVIOUS
<1>1. PICK least \in Nat \ S : \A n \in Nat \ S : ~(<< n, least >> \in OpToRel(<, Nat))
  <2>1. Nat \ S \subseteq Nat
    OBVIOUS
  <2> QED
    BY <2>1, NatLessThanWellFounded, WFMin
<1>2. least # 0 /\ least - 1 \in Nat /\ least - 1 < least /\ least - 1 + 1 = least
  OBVIOUS
<1>3. << least - 1, least >> \in OpToRel(<, Nat)
  BY <1>2, Zenon DEF OpToRel
<1>4. least - 1 \in S
  BY <1>1, <1>2, <1>3
<1> QED
  BY <1>2, <1>4

\* A function that sums up the first m numbers of s.
SumsUp(f, s, m) ==
  /\ f \in [0 .. m -> Int] /\ f[0] = 0
  /\ \A n \in 1 .. m : f[n] = f[n - 1] + s[n]

\* The recursion of PrefixSums has a solution.
LEMMA PrefixSumsDefined ==
  ASSUME NEW s \in Seq(Int)
  PROVE  SumsUp(PrefixSums(s), s, Len(s))
<1> DEFINE S == {m \in Nat : m <= Len(s) => \E f : SumsUp(f, s, m)}
           Body(f) == [n \in 0 .. Len(s) |-> IF n = 0 THEN 0 ELSE f[n - 1] + s[n]]
<1>1. Len(s) \in Nat /\ \A n \in 1 .. Len(s) : s[n] \in Int
  BY LenProperties, ElementOfSeq
<1>2. 0 \in S
  <2>1. SumsUp([n \in 0 .. 0 |-> 0], s, 0)
    BY DEF SumsUp
  <2> QED
    BY <2>1
<1>3. ASSUME NEW m \in Nat, m \in S PROVE m + 1 \in S
  <2> SUFFICES ASSUME m + 1 <= Len(s) PROVE \E f : SumsUp(f, s, m + 1)
    OBVIOUS
  <2>1. PICK f : SumsUp(f, s, m)
    BY <1>1, <1>3
  <2> DEFINE g == [n \in 0 .. m + 1 |-> IF n = m + 1 THEN f[m] + s[m + 1] ELSE f[n]]
  <2>2. s[m + 1] \in Int /\ f[m] \in Int
    BY <1>1, <2>1 DEF SumsUp
  <2>3. g \in [0 .. m + 1 -> Int] /\ g[0] = 0
    BY <2>1, <2>2 DEF SumsUp
  <2>4. ASSUME NEW n \in 1 .. m + 1 PROVE g[n] = g[n - 1] + s[n]
    <3>1. CASE n = m + 1
      BY <3>1
    <3>2. CASE n # m + 1
      <4>1. n \in 1 .. m /\ n - 1 \in 0 .. m + 1 /\ n - 1 # m + 1
        BY <3>2
      <4> QED
        BY <2>1, <3>2, <4>1 DEF SumsUp
    <3> QED
      BY <3>1, <3>2
  <2>5. SumsUp(g, s, m + 1)
    BY <2>3, <2>4 DEF SumsUp
  <2> QED
    BY <2>5
<1>4. PICK f : SumsUp(f, s, Len(s))
  <2>1. \A m \in Nat : m \in S
    <3> HIDE DEF S
    <3> QED
      BY <1>2, <1>3, NumbersByInduction
  <2> QED
    BY <1>1, <2>1
<1>5. f = Body(f)
  BY <1>1, <1>4 DEF SumsUp
<1>6. PrefixSums(s) = Body(PrefixSums(s))
  <2>1. PrefixSums(s) = CHOOSE g : g = Body(g)
    BY DEF PrefixSums
  <2> HIDE DEF Body
  <2> QED
    BY <1>5, <2>1
<1> DEFINE p == PrefixSums(s)
           Agree == {m \in Nat : m <= Len(s) => p[m] = f[m]}
<1>7. p = [n \in 0 .. Len(s) |-> IF n = 0 THEN 0 ELSE p[n - 1] + s[n]]
  BY <1>6
<1> HIDE DEF p
<1>8. 0 \in Agree
  BY <1>1, <1>4, <1>7 DEF SumsUp
<1>9. ASSUME NEW m \in Nat, m \in Agree PROVE m + 1 \in Agree
  <2> SUFFICES ASSUME m + 1 <= Len(s) PROVE p[m + 1] = f[m + 1]
    OBVIOUS
  <2>1. m + 1 \in 1 .. Len(s) /\ m + 1 \in 0 .. Len(s) /\ m + 1 # 0 /\ (m + 1) - 1 = m
    BY <1>1
  <2>2. p[m] = f[m]
    BY <1>1, <1>9
  <2>3. p[m + 1] = p[m] + s[m + 1]
    BY <1>7, <2>1
  <2>4. f[m + 1] = f[m] + s[m + 1]
    BY <1>4, <2>1 DEF SumsUp
  <2> QED
    BY <2>2, <2>3, <2>4
<1>10. \A m \in Nat : m \in Agree
  <2> HIDE DEF Agree
  <2> QED
    BY <1>8, <1>9, NumbersByInduction
<1>11. p = f
  <2>1. \A n \in 0 .. Len(s) : p[n] = f[n]
    BY <1>1, <1>10
  <2>2. p = [n \in 0 .. Len(s) |-> p[n]]
    <3>1. \A n \in 0 .. Len(s) : p[n] = IF n = 0 THEN 0 ELSE p[n - 1] + s[n]
      BY <1>7
    <3> QED
      BY <1>7, <3>1
  <2>3. f = [n \in 0 .. Len(s) |-> f[n]]
    BY <1>4 DEF SumsUp
  <2> QED
    BY <2>1, <2>2, <2>3
<1> QED
  BY <1>4, <1>11 DEF p

\* Two sums over the same numbers, one of them k numbers further on, grow alike.
LEMMA SumsGrowAlike ==
  ASSUME NEW s \in Seq(Int), NEW t \in Seq(Int), NEW k \in Nat, NEW m \in Nat,
         m <= Len(s), m + k <= Len(t), \A n \in 1 .. m : s[n] = t[n + k]
  PROVE  PrefixSums(t)[m + k] - PrefixSums(t)[k] = PrefixSums(s)[m]
<1> DEFINE f == PrefixSums(s)
           g == PrefixSums(t)
           S == {n \in Nat : n <= m => g[n + k] - g[k] = f[n]}
<1>1. SumsUp(f, s, Len(s)) /\ SumsUp(g, t, Len(t)) /\ Len(s) \in Nat /\ Len(t) \in Nat
  BY PrefixSumsDefined, LenProperties
<1> HIDE DEF f, g
<1>2. ASSUME NEW n \in 0 .. m PROVE f[n] \in Int /\ g[n + k] \in Int
  <2>1. n \in 0 .. Len(s) /\ n + k \in 0 .. Len(t)
    BY <1>1
  <2> QED
    BY <1>1, <2>1 DEF SumsUp
<1>3. 0 \in S
  <2>1. f[0] = 0 /\ g[0 + k] = g[k] /\ g[0 + k] \in Int
    BY <1>1, <1>2 DEF SumsUp
  <2> QED
    BY <2>1
<1>4. ASSUME NEW n \in Nat, n \in S PROVE n + 1 \in S
  <2> SUFFICES ASSUME n + 1 <= m PROVE g[n + 1 + k] - g[k] = f[n + 1]
    OBVIOUS
  <2>1. /\ n + 1 \in 1 .. Len(s) /\ n + 1 + k \in 1 .. Len(t)
        /\ (n + 1) - 1 = n /\ (n + 1 + k) - 1 = n + k
    BY <1>1
  <2>2. f[n + 1] = f[n] + s[n + 1] /\ g[n + 1 + k] = g[n + k] + t[n + 1 + k]
    BY <1>1, <2>1 DEF SumsUp
  <2>3. s[n + 1] = t[n + 1 + k] /\ g[n + k] - g[k] = f[n]
    <3>1. n + 1 \in 1 .. m /\ n <= m /\ (n + 1) + k = n + 1 + k
      OBVIOUS
    <3>2. s[n + 1] = t[(n + 1) + k]
      BY <3>1
    <3> QED
      BY <1>4, <3>1, <3>2
  <2>4. f[n] \in Int /\ g[n + k] \in Int /\ g[k] \in Int /\ s[n + 1] \in Int
    <3>1. 0 \in 0 .. m /\ n \in 0 .. m /\ 0 + k = k
      OBVIOUS
    <3> QED
      BY <1>2, <2>1, <3>1, ElementOfSeq
  <2> DEFINE a == f[n]
             b == g[n + k]
             c == g[k]
             d == s[n + 1]
  <2>5. b - c = a /\ f[n + 1] = a + d /\ g[n + 1 + k] = b + d
    BY <2>2, <2>3
  <2>6. a \in Int /\ b \in Int /\ c \in Int /\ d \in Int
    BY <2>4
  <2> HIDE DEF a, b, c, d
  <2>7. (b + d) - c = a + d
    BY <2>5, <2>6
  <2> QED
    BY <2>5, <2>7 DEF c
<1>5. \A n \in Nat : n \in S
  <2> HIDE DEF S
  <2> QED
    BY <1>3, <1>4, NumbersByInduction
<1> QED
  BY <1>5 DEF f, g

\* What the window adds and what it drops.
LEMMA TotalOfEmpty == Total(<< >>) = 0
BY PrefixSumsDefined, EmptySeq DEF SumsUp, Total

LEMMA TotalIsNumber == ASSUME NEW s \in Seq(Int) PROVE Total(s) \in Int
BY PrefixSumsDefined, LenProperties DEF SumsUp, Total

LEMMA TotalOfAppend ==
  ASSUME NEW s \in Seq(Int), NEW v \in Int
  PROVE  Total(Append(s, v)) = Total(s) + v
<1> DEFINE t == Append(s, v)
           n == Len(s)
<1>1. /\ t \in Seq(Int) /\ Len(t) = n + 1 /\ t[n + 1] = v /\ n \in Nat
      /\ \A i \in 1 .. n : s[i] = t[i + 0]
  BY AppendProperties, LenProperties
<1> HIDE DEF t, n
<1>2. PrefixSums(t)[n + 0] - PrefixSums(t)[0] = PrefixSums(s)[n]
  <2>1. n <= Len(s) /\ n + 0 <= Len(t) /\ 0 \in Nat
    BY <1>1 DEF n
  <2> QED
    BY <1>1, <2>1, SumsGrowAlike
<1>3. /\ PrefixSums(t)[0] = 0 /\ PrefixSums(t)[n] \in Int
      /\ PrefixSums(t)[n + 1] = PrefixSums(t)[n] + v
  <2>1. SumsUp(PrefixSums(t), t, n + 1)
    BY <1>1, PrefixSumsDefined
  <2>2. n + 1 \in 1 .. n + 1 /\ n \in 0 .. n + 1 /\ (n + 1) - 1 = n
    BY <1>1
  <2> QED
    BY <1>1, <2>1, <2>2 DEF SumsUp
<1>4. Total(s) = PrefixSums(s)[n] /\ Total(t) = PrefixSums(t)[n + 1] /\ n + 0 = n
  BY <1>1 DEF Total, n
<1>5. Total(t) = Total(s) + v
  BY <1>2, <1>3, <1>4
<1> QED
  BY <1>5 DEF t

LEMMA TotalOfTail ==
  ASSUME NEW s \in Seq(Int), s # << >>
  PROVE  Total(Tail(s)) = Total(s) - Head(s)
<1> DEFINE t == Tail(s)
           n == Len(t)
<1>1. /\ t \in Seq(Int) /\ Len(s) = n + 1 /\ Head(s) = s[1] /\ n \in Nat
      /\ \A i \in 1 .. n : t[i] = s[i + 1]
  BY HeadTailProperties, LenProperties
<1> HIDE DEF t, n
<1>2. PrefixSums(s)[n + 1] - PrefixSums(s)[1] = PrefixSums(t)[n]
  <2>1. n <= Len(t) /\ n + 1 <= Len(s) /\ 1 \in Nat
    BY <1>1 DEF n
  <2> QED
    BY <1>1, <2>1, SumsGrowAlike
<1>3. PrefixSums(s)[1] = s[1] /\ PrefixSums(s)[n + 1] \in Int /\ s[1] \in Int
  <2>1. SumsUp(PrefixSums(s), s, n + 1)
    BY <1>1, PrefixSumsDefined
  <2>2. 1 \in 1 .. n + 1 /\ n + 1 \in 0 .. n + 1 /\ 1 - 1 = 0
    BY <1>1
  <2>3. s[1] \in Int
    BY <1>1, <2>2, ElementOfSeq
  <2>4. PrefixSums(s)[1] = PrefixSums(s)[1 - 1] + s[1]
    BY <2>1, <2>2 DEF SumsUp
  <2> QED
    BY <2>1, <2>2, <2>3, <2>4 DEF SumsUp
<1>4. Total(s) = PrefixSums(s)[n + 1] /\ Total(t) = PrefixSums(t)[n]
  BY <1>1 DEF Total, n
<1>5. Total(t) = Total(s) - Head(s)
  BY <1>1, <1>2, <1>3, <1>4
<1> QED
  BY <1>5 DEF t

\* An average lies between the bounds of what is averaged.
LEMMA TotalBounded ==
  ASSUME NEW s \in Seq(Int), NEW lo \in Int, NEW hi \in Int,
         \A n \in 1 .. Len(s) : lo <= s[n] /\ s[n] <= hi
  PROVE  Len(s) * lo <= Total(s) /\ Total(s) <= Len(s) * hi
<1> DEFINE f == PrefixSums(s)
           S == {n \in Nat : n <= Len(s) => n * lo <= f[n] /\ f[n] <= n * hi}
<1>1. SumsUp(f, s, Len(s)) /\ Len(s) \in Nat
  BY PrefixSumsDefined, LenProperties
<1> HIDE DEF f
<1>2. 0 \in S
  BY <1>1 DEF SumsUp
<1>3. ASSUME NEW n \in Nat, n \in S PROVE n + 1 \in S
  <2> SUFFICES ASSUME n + 1 <= Len(s) PROVE (n + 1) * lo <= f[n + 1] /\ f[n + 1] <= (n + 1) * hi
    OBVIOUS
  <2>1. n + 1 \in 1 .. Len(s) /\ (n + 1) - 1 = n /\ n \in 0 .. Len(s)
    BY <1>1
  <2>2. f[n + 1] = f[n] + s[n + 1] /\ f[n] \in Int
    BY <1>1, <2>1 DEF SumsUp
  <2>3. lo <= s[n + 1] /\ s[n + 1] <= hi /\ s[n + 1] \in Int
    BY <2>1, ElementOfSeq
  <2>4. n * lo <= f[n] /\ f[n] <= n * hi
    BY <1>1, <1>3, <2>1
  <2>5. (n + 1) * lo = n * lo + lo /\ (n + 1) * hi = n * hi + hi /\ n * lo \in Int /\ n * hi \in Int
    OBVIOUS
  <2> DEFINE a == n * lo
             b == n * hi
             x == f[n]
             y == s[n + 1]
  <2>6. a \in Int /\ b \in Int /\ x \in Int /\ y \in Int /\ a <= x /\ x <= b /\ lo <= y /\ y <= hi
    BY <2>2, <2>3, <2>4, <2>5
  <2>7. f[n + 1] = x + y /\ (n + 1) * lo = a + lo /\ (n + 1) * hi = b + hi
    BY <2>2, <2>5
  <2> HIDE DEF a, b, x, y
  <2>8. a + lo <= x + y /\ x + y <= b + hi
    BY <2>6
  <2> QED
    BY <2>7, <2>8
<1>4. Len(s) \in S
  <2>1. \A n \in Nat : n \in S
    <3> HIDE DEF S
    <3> QED
      BY <1>2, <1>3, NumbersByInduction
  <2> QED
    BY <1>1, <2>1
<1> QED
  BY <1>4 DEF f, Total

LEMMA AverageBounded ==
  ASSUME NEW n \in Nat \ {0}, NEW total \in Int, NEW lo \in Int, NEW hi \in Int,
         n * lo <= total, total <= n * hi
  PROVE  total \div n \in lo .. hi
<1> DEFINE q == total \div n
<1>1. q \in Int /\ n * q <= total /\ total < n * q + n
  OBVIOUS
<1> HIDE DEF q
<1>2. q >= lo
  <2> SUFFICES ASSUME q + 1 <= lo PROVE FALSE
    BY <1>1
  <2>1. n * (q + 1) <= n * lo
    BY <1>1
  <2>2. n * (q + 1) = n * q + n
    BY <1>1
  <2> QED
    BY <1>1, <2>1, <2>2
<1>3. q <= hi
  <2> SUFFICES ASSUME hi + 1 <= q PROVE FALSE
    BY <1>1
  <2>1. n * (hi + 1) <= n * q
    BY <1>1
  <2>2. n * (hi + 1) = n * hi + n
    OBVIOUS
  <2> QED
    BY <1>1, <2>1, <2>2
<1> QED
  BY <1>1, <1>2, <1>3 DEF q
-------------------------------------------------------------------------------
\* The ring holds the window, its oldest sample at idx once it is full.
Place(j) == IF idx + j - 1 < kWindowTicks THEN idx + j - 1 ELSE idx + j - 1 - kWindowTicks
Ring ==
  /\ filled < kWindowTicks =>
       /\ idx = filled
       /\ \A j \in 1 .. filled : samples[j - 1] = recent[j]
       /\ \A i \in filled .. kWindowTicks - 1 : samples[i] = 0
  /\ filled = kWindowTicks => \A j \in 1 .. kWindowTicks : samples[Place(j)] = recent[j]

\* The range is valid, and what was drawn from it lies in it; a slot without a
\* managed bot has no samples.
RangeKept ==
  /\ 1 <= fakePing.min /\ fakePing.min <= fakePing.max /\ fakePing.max <= Highest
  /\ \A j \in 1 .. filled : recent[j] \in fakePing.min .. fakePing.max
  /\ filled # 0 => managed /\ fakePing.enabled
  /\ managed => /\ baseline \in fakePing.min .. fakePing.max
                /\ IF fakePing.enabled THEN ping \in fakePing.min .. fakePing.max ELSE ping = 0

\* What was written is what is shown.
WrittenShown ==
  /\ lastWritten # 0 => ping = lastWritten
  /\ filled # 0 /\ ticksSinceWrite = 0 => lastWritten = sum \div filled

\* The inductive invariant.
PingIndInv ==
  /\ PingTypeOK
  /\ Ring
  /\ sum = Total(recent)
  /\ RangeKept
  /\ WrittenShown

LEMMA LoadIsValid ==
  ASSUME NEW enabled \in BOOLEAN, NEW min \in Entry, NEW max \in Entry
  PROVE  LET range == Load(enabled, min, max)
         IN  /\ range \in [enabled : BOOLEAN, min : Nat, max : Nat]
             /\ 1 <= range.min /\ range.min <= range.max /\ range.max <= Highest
<1>1. /\ DefaultMin \in Nat /\ DefaultMax \in Nat /\ 1 <= DefaultMin
      /\ DefaultMin <= DefaultMax /\ DefaultMax <= Highest
  BY PingAssumption
<1> DEFINE low == IF min = Absent THEN DefaultMin ELSE min
           high == IF max = Absent THEN DefaultMax ELSE max
<1>2. CASE Readable(min) /\ Readable(max) /\ low <= high
  <2>1. low \in Nat /\ 1 <= low
    <3>1. min # Absent => min \in Int /\ 1 <= min
      BY <1>2, PingAssumption DEF Readable
    <3> QED
      BY <1>1, <3>1
  <2>2. high \in Int /\ high <= Highest
    <3>1. max # Absent => max \in Int /\ max <= Highest
      BY <1>2, PingAssumption DEF Readable
    <3> QED
      BY <1>1, <3>1
  <2>3. Load(enabled, min, max) = [enabled |-> enabled, min |-> low, max |-> high]
    BY <1>2 DEF Load
  <2> HIDE DEF low, high
  <2> QED
    BY <1>2, <2>1, <2>2, <2>3
<1>3. CASE ~(Readable(min) /\ Readable(max) /\ low <= high)
  <2>1. Load(enabled, min, max) = [enabled |-> enabled, min |-> DefaultMin, max |-> DefaultMax]
    BY <1>3 DEF Load
  <2> QED
    BY <1>1, <2>1
<1> QED
  BY <1>2, <1>3

\* An empty window keeps every part but the range.
LEMMA ResetIsEmpty ==
  ASSUME Reset, recent' = << >>
  PROVE  /\ samples' \in [Window -> Nat] /\ idx' \in Window /\ sum' \in Nat /\ idx' = 0
         /\ filled' = 0 /\ filled' \in 0 .. kWindowTicks
         /\ ticksSinceWrite' \in 0 .. kWriteEveryTicks - 1
         /\ lastWritten' = 0 /\ recent' \in Seq(Nat) /\ Len(recent') = filled'
         /\ Ring' /\ sum' = Total(recent')
<1>1. kWindowTicks \in Nat \ {0} /\ kWriteEveryTicks \in Nat \ {0}
  BY PingAssumption
<1>2. << >> \in Seq(Nat) /\ Len(<< >>) = 0
  BY EmptySeq
<1>3. samples' = [i \in Window |-> 0] /\ idx' = 0 /\ filled' = 0
  BY DEF Reset
<1>4. Ring'
  BY <1>1, <1>3 DEF Ring, Window
<1>5. sum' = Total(recent')
  BY TotalOfEmpty DEF Reset
<1> QED
  BY <1>1, <1>2, <1>3, <1>4, <1>5 DEF Reset, Window

LEMMA InitPingInv == PingInit => PingIndInv
<1> SUFFICES ASSUME PingInit PROVE PingIndInv
  OBVIOUS
<1>1. /\ kWindowTicks \in Nat \ {0} /\ kWriteEveryTicks \in Nat \ {0}
      /\ << >> \in Seq(Nat) /\ Len(<< >>) = 0
  BY PingAssumption, EmptySeq
<1>2. /\ fakePing \in [enabled : BOOLEAN, min : Nat, max : Nat]
      /\ 1 <= fakePing.min /\ fakePing.min <= fakePing.max /\ fakePing.max <= Highest
  BY LoadIsValid DEF PingInit
<1>3. PingTypeOK
  <2>1. /\ 0 \in Window /\ 0 \in 0 .. kWindowTicks /\ 0 \in 0 .. kWriteEveryTicks - 1
        /\ [i \in Window |-> 0] \in [Window -> Nat]
    BY <1>1 DEF Window
  <2>2. /\ managed = FALSE /\ baseline = 0 /\ ping = 0 /\ samples = [i \in Window |-> 0]
        /\ idx = 0 /\ sum = 0 /\ filled = 0 /\ ticksSinceWrite = 0 /\ lastWritten = 0
        /\ recent = << >>
    BY DEF PingInit
  <2> QED
    BY <1>1, <1>2, <2>1, <2>2 DEF PingTypeOK
<1>4. Ring
  BY <1>1 DEF PingInit, Ring, Window
<1>5. sum = Total(recent)
  BY TotalOfEmpty DEF PingInit
<1>6. RangeKept /\ WrittenShown
  BY <1>2 DEF PingInit, RangeKept, WrittenShown
<1> QED
  BY <1>3, <1>4, <1>5, <1>6 DEF PingIndInv

\* A slot is adopted for another bot, or released.
LEMMA AdoptionKeepsInv ==
  ASSUME PingIndInv,
         \/ \E b \in fakePing.min .. fakePing.max : AdoptSlot(b)
         \/ ReleaseSlot
  PROVE  PingIndInv'
<1>1. /\ fakePing \in [enabled : BOOLEAN, min : Nat, max : Nat]
      /\ fakePing' = fakePing /\ baseline \in Nat /\ Reset /\ recent' = << >>
  BY DEF AdoptSlot, ReleaseSlot, PingIndInv, PingTypeOK
<1>2. /\ managed' \in BOOLEAN /\ baseline' \in Nat /\ ping' \in Nat
      /\ managed' => /\ baseline' \in fakePing.min .. fakePing.max
                     /\ IF fakePing.enabled THEN ping' \in fakePing.min .. fakePing.max
                                            ELSE ping' = 0
  <2>1. \/ \E b \in fakePing.min .. fakePing.max :
             /\ managed' = TRUE /\ baseline' = b
             /\ ping' = IF fakePing.enabled THEN b ELSE 0
        \/ managed' = FALSE /\ baseline' = baseline /\ ping' = 0
    BY DEF AdoptSlot, ReleaseSlot
  <2>2. CASE managed' = FALSE /\ baseline' = baseline /\ ping' = 0
    BY <1>1, <2>2
  <2>3. ASSUME NEW b \in fakePing.min .. fakePing.max,
               managed' = TRUE, baseline' = b, ping' = IF fakePing.enabled THEN b ELSE 0
        PROVE  /\ managed' \in BOOLEAN /\ baseline' \in Nat /\ ping' \in Nat
               /\ baseline' \in fakePing.min .. fakePing.max
               /\ IF fakePing.enabled THEN ping' \in fakePing.min .. fakePing.max
                                      ELSE ping' = 0
    <3>1. b \in Nat
      BY <1>1
    <3> QED
      BY <2>3, <3>1
  <2> QED
    BY <2>1, <2>2, <2>3
<1>3. PingTypeOK'
  BY <1>1, <1>2, ResetIsEmpty DEF PingTypeOK, Window
<1>4. RangeKept'
  BY <1>1, <1>2, ResetIsEmpty DEF PingIndInv, RangeKept
<1>5. WrittenShown'
  BY <1>1, ResetIsEmpty DEF WrittenShown
<1> QED
  BY <1>1, <1>3, <1>4, <1>5, ResetIsEmpty DEF PingIndInv

\* The jitter stays in the range.
LEMMA SampleInRange ==
  ASSUME PingTypeOK, RangeKept, NEW v \in NextSamples
  PROVE  v \in Nat /\ v \in fakePing.min .. fakePing.max
<1> DEFINE span == (baseline + 9) \div 10
<1>1. span \in Int /\ -span \in Int
  BY DEF PingTypeOK
<1> HIDE DEF span
<1>2. PICK delta \in -span .. span : v = Clamped(baseline + delta)
  BY DEF NextSamples, span
<1>3. baseline + delta \in Int /\ fakePing.min \in Nat /\ fakePing.max \in Nat
  BY <1>1 DEF PingTypeOK
<1> QED
  BY <1>2, <1>3 DEF Clamped, RangeKept

LEMMA NextIndex ==
  ASSUME NEW k \in Nat \ {0}, NEW i \in 0 .. k - 1
  PROVE  (i + 1) % k = IF i + 1 = k THEN 0 ELSE i + 1
<1>1. CASE i + 1 = k
  BY <1>1
<1>2. CASE i + 1 # k
  BY <1>2
<1> QED
  BY <1>1, <1>2

\* The window after a tick, and its sum.
Dropped == IF Len(recent) = kWindowTicks THEN Tail(recent) ELSE recent

LEMMA TickMovesWindow ==
  ASSUME PingIndInv, NEW v \in NextSamples, OnTick(v)
  PROVE  /\ recent' \in Seq(Nat) /\ Len(recent') = filled' /\ filled' \in 1 .. kWindowTicks
         /\ samples' \in [Window -> Nat] /\ idx' \in Window
         /\ \A j \in 1 .. filled' : recent'[j] \in fakePing.min .. fakePing.max
         /\ Ring' /\ sum' = Total(recent')
<1>1. /\ kWindowTicks \in Nat \ {0} /\ idx \in 0 .. kWindowTicks - 1
      /\ filled \in 0 .. kWindowTicks /\ samples \in [0 .. kWindowTicks - 1 -> Nat]
      /\ recent \in Seq(Nat) /\ Len(recent) = filled
      /\ v \in Nat /\ v \in fakePing.min .. fakePing.max
  BY PingAssumption, SampleInRange DEF PingIndInv, PingTypeOK, Window
<1>2. /\ samples' = [samples EXCEPT ![idx] = v]
      /\ sum' = sum + v - samples[idx]
      /\ idx' = (idx + 1) % kWindowTicks
      /\ filled' = IF filled < kWindowTicks THEN filled + 1 ELSE filled
      /\ recent' = Append(Dropped, v)
  BY DEF OnTick, RecordSample, Dropped
<1>3. idx' = IF idx + 1 = kWindowTicks THEN 0 ELSE idx + 1
  BY <1>1, <1>2, NextIndex
<1>4. samples' \in [Window -> Nat] /\ idx' \in Window /\ filled' \in 1 .. kWindowTicks
  <2>1. samples' \in [Window -> Nat]
    BY <1>1, <1>2 DEF Window
  <2>2. idx' \in Window
    BY <1>1, <1>3 DEF Window
  <2> QED
    BY <1>1, <1>2, <2>1, <2>2
<1>5. sum \in Int /\ sum = Total(recent) /\ recent \in Seq(Int) /\ v \in Int
  <2>1. Seq(Nat) \subseteq Seq(Int)
    BY SeqDef
  <2> QED
    BY <1>1, <2>1, TotalIsNumber DEF PingIndInv
<1>6. CASE filled < kWindowTicks
  <2>1. /\ recent' = Append(recent, v) /\ filled' = filled + 1
        /\ idx = filled /\ samples[idx] = 0
        /\ \A j \in 1 .. filled : samples[j - 1] = recent[j]
        /\ \A i \in filled .. kWindowTicks - 1 : samples[i] = 0
    BY <1>1, <1>2, <1>6 DEF Dropped, PingIndInv, Ring
  <2>2. /\ recent' \in Seq(Nat) /\ Len(recent') = filled' /\ recent'[filled + 1] = v
        /\ \A j \in 1 .. filled : recent'[j] = recent[j]
    <3> DEFINE r == Append(recent, v)
    <3>1. /\ r \in Seq(Nat) /\ Len(r) = filled + 1 /\ r[filled + 1] = v
          /\ \A j \in 1 .. filled : r[j] = recent[j]
      BY <1>1, AppendProperties
    <3> QED
      BY <2>1, <3>1
  <2>3. sum' = Total(recent')
    BY <1>2, <1>5, <2>1, TotalOfAppend
  <2>4. \A j \in 1 .. filled' : recent'[j] \in fakePing.min .. fakePing.max
    <3>1. \A j \in 1 .. filled : recent[j] \in fakePing.min .. fakePing.max
      BY DEF PingIndInv, RangeKept
    <3>2. \A j \in 1 .. filled' : j \in 1 .. filled \/ j = filled + 1
      BY <1>1, <2>1
    <3> QED
      BY <1>1, <2>2, <3>1, <3>2
  <2>5. ASSUME NEW j \in 1 .. filled + 1 PROVE samples'[j - 1] = recent'[j]
    <3>1. CASE j = filled + 1
      <4>1. j - 1 = idx
        BY <1>1, <2>1, <3>1
      <4> QED
        BY <1>1, <1>2, <2>2, <3>1, <4>1
    <3>2. CASE j # filled + 1
      <4>1. j \in 1 .. filled /\ j - 1 \in 0 .. kWindowTicks - 1 /\ j - 1 # idx
        BY <1>1, <2>1, <3>2
      <4> QED
        BY <1>1, <1>2, <2>1, <2>2, <4>1
    <3> QED
      BY <3>1, <3>2
  <2>6. \A i \in filled + 1 .. kWindowTicks - 1 : samples'[i] = 0
    BY <1>1, <1>2, <2>1
  <2>7. Ring'
    <3>1. CASE filled + 1 < kWindowTicks
      BY <1>1, <1>3, <2>1, <2>5, <2>6, <3>1 DEF Ring
    <3>2. CASE filled + 1 = kWindowTicks
      <4>1. idx' = 0 /\ filled' = kWindowTicks
        BY <1>1, <1>3, <2>1, <3>2
      <4>2. \A j \in 1 .. kWindowTicks : Place(j)' = j - 1
        BY <1>1, <4>1 DEF Place
      <4>3. \A j \in 1 .. kWindowTicks : samples'[Place(j)'] = recent'[j]
        BY <2>5, <3>2, <4>2
      <4> QED
        BY <1>1, <4>1, <4>3 DEF Ring
    <3> QED
      BY <1>1, <1>6, <3>1, <3>2
  <2> QED
    BY <1>4, <2>2, <2>3, <2>4, <2>7
<1>7. CASE filled = kWindowTicks
  <2>1. /\ recent' = Append(Tail(recent), v) /\ filled' = filled /\ recent # << >>
        /\ \A j \in 1 .. kWindowTicks : samples[Place(j)] = recent[j]
    <3>1. Len(<< >>) = 0
      BY EmptySeq
    <3> QED
      BY <1>1, <1>2, <1>7, <3>1 DEF Dropped, PingIndInv, Ring
  <2>2. /\ Tail(recent) \in Seq(Nat) /\ Tail(recent) \in Seq(Int)
        /\ Len(Tail(recent)) = kWindowTicks - 1 /\ Head(recent) = recent[1]
        /\ \A j \in 1 .. kWindowTicks - 1 : Tail(recent)[j] = recent[j + 1]
    BY <1>1, <1>5, <1>7, <2>1, HeadTailProperties
  <2>3. /\ recent' \in Seq(Nat) /\ Len(recent') = filled' /\ recent'[kWindowTicks] = v
        /\ \A j \in 1 .. kWindowTicks - 1 : recent'[j] = recent[j + 1]
    <3>1. /\ recent' \in Seq(Nat) /\ Len(recent') = (kWindowTicks - 1) + 1
          /\ recent'[(kWindowTicks - 1) + 1] = v
          /\ \A j \in 1 .. kWindowTicks - 1 : recent'[j] = Tail(recent)[j]
      BY <1>1, <2>1, <2>2, AppendProperties
    <3>2. (kWindowTicks - 1) + 1 = kWindowTicks
      BY <1>1
    <3> QED
      BY <1>7, <2>1, <2>2, <3>1, <3>2
  <2>4. samples[idx] = Head(recent)
    <3>1. Place(1) = idx /\ 1 \in 1 .. kWindowTicks
      BY <1>1 DEF Place
    <3> QED
      BY <2>1, <2>2, <3>1
  <2>5. sum' = Total(recent')
    <3>1. Total(Tail(recent)) = Total(recent) - Head(recent)
      BY <1>5, <2>1, TotalOfTail
    <3>2. Total(recent') = Total(Tail(recent)) + v
      BY <1>5, <2>1, <2>2, TotalOfAppend
    <3>3. Total(recent) \in Int /\ Head(recent) \in Int /\ samples[idx] \in Nat
      BY <1>1, <1>5, <2>4
    <3> QED
      BY <1>2, <1>5, <2>4, <3>1, <3>2, <3>3
  <2>6. \A j \in 1 .. filled' : recent'[j] \in fakePing.min .. fakePing.max
    <3> SUFFICES ASSUME NEW j \in 1 .. kWindowTicks
                 PROVE  recent'[j] \in fakePing.min .. fakePing.max
      BY <1>7, <2>1
    <3>1. CASE j = kWindowTicks
      BY <1>1, <2>3, <3>1
    <3>2. CASE j # kWindowTicks
      <4>1. j \in 1 .. kWindowTicks - 1 /\ j + 1 \in 1 .. filled
        BY <1>1, <1>7, <3>2
      <4> QED
        BY <2>3, <4>1 DEF PingIndInv, RangeKept
    <3> QED
      BY <3>1, <3>2
  <2>7. ASSUME NEW j \in 1 .. kWindowTicks PROVE samples'[Place(j)'] = recent'[j]
    <3>1. CASE j = kWindowTicks
      <4>1. Place(j)' = idx
        BY <1>1, <1>3, <3>1 DEF Place
      <4> QED
        BY <1>1, <1>2, <2>3, <3>1, <4>1
    <3>2. CASE j # kWindowTicks
      <4>1. j \in 1 .. kWindowTicks - 1 /\ j + 1 \in 1 .. kWindowTicks
        BY <1>1, <3>2
      <4>2. /\ Place(j)' = Place(j + 1) /\ Place(j + 1) # idx
            /\ Place(j + 1) \in 0 .. kWindowTicks - 1
        BY <1>1, <1>3, <4>1 DEF Place
      <4>3. samples'[Place(j)'] = samples[Place(j + 1)]
        BY <1>1, <1>2, <4>2
      <4> QED
        BY <2>1, <2>3, <4>1, <4>3
    <3> QED
      BY <3>1, <3>2
  <2>8. Ring'
    <3>1. filled' = kWindowTicks /\ kWindowTicks \in Nat
      BY <1>1, <1>7, <2>1
    <3> QED
      BY <2>7, <3>1 DEF Ring
  <2> QED
    BY <1>4, <2>3, <2>5, <2>6, <2>8
<1> QED
  BY <1>1, <1>6, <1>7

\* A tick shows the average when it is due, within the range.
LEMMA TickKeepsInv ==
  ASSUME PingIndInv, NEW v \in NextSamples, OnTick(v)
  PROVE  PingIndInv'
<1> DEFINE average == sum' \div filled'
           lo == fakePing.min
           hi == fakePing.max
<1>1. /\ UNCHANGED << fakePing, managed, baseline >> /\ managed /\ fakePing.enabled
      /\ lo \in Nat /\ hi \in Nat /\ 1 <= lo
  BY DEF OnTick, PingIndInv, PingTypeOK, RangeKept
<1>2. average \in lo .. hi /\ sum' \in Nat
  <2>1. /\ recent' \in Seq(Int) /\ Len(recent') = filled' /\ filled' \in Nat \ {0}
        /\ \A n \in 1 .. Len(recent') : lo <= recent'[n] /\ recent'[n] <= hi
    <3>1. Seq(Nat) \subseteq Seq(Int)
      BY SeqDef
    <3>2. kWindowTicks \in Nat
      BY PingAssumption
    <3> QED
      BY <1>1, <3>1, <3>2, TickMovesWindow
  <2>2. Len(recent') * lo <= Total(recent') /\ Total(recent') <= Len(recent') * hi
    <3> DEFINE s == recent'
    <3>1. lo \in Int /\ hi \in Int /\ s \in Seq(Int)
          /\ \A n \in 1 .. Len(s) : lo <= s[n] /\ s[n] <= hi
      BY <1>1, <2>1
    <3> HIDE DEF s, lo, hi
    <3>2. Len(s) * lo <= Total(s) /\ Total(s) <= Len(s) * hi
      BY <3>1, TotalBounded
    <3> QED
      BY <3>2 DEF s
  <2>3. sum' = Total(recent') /\ sum' \in Int
    BY <2>1, TickMovesWindow, TotalIsNumber
  <2>4. filled' * lo <= sum' /\ sum' <= filled' * hi
    BY <2>1, <2>2, <2>3
  <2>5. filled' * lo \in Nat
    BY <1>1, <2>1
  <2>6. average \in lo .. hi
    <3>1. lo \in Int /\ hi \in Int
      BY <1>1
    <3> HIDE DEF lo, hi
    <3> QED
      BY <2>1, <2>3, <2>4, <3>1, AverageBounded
  <2> QED
    BY <2>3, <2>4, <2>5, <2>6
<1> HIDE DEF average
<1>3. /\ kWriteEveryTicks \in Nat \ {0} /\ kWindowTicks \in Nat
      /\ ticksSinceWrite \in 0 .. kWriteEveryTicks - 1 /\ lastWritten \in Nat /\ ping \in lo .. hi
      /\ lastWritten # 0 => ping = lastWritten
  BY <1>1, PingAssumption DEF PingIndInv, PingTypeOK, RangeKept, WrittenShown
<1>4. /\ ticksSinceWrite' = IF ticksSinceWrite + 1 >= kWriteEveryTicks
                            THEN 0 ELSE ticksSinceWrite + 1
      /\ \/ lastWritten' = average /\ ping' = average
         \/ /\ lastWritten' = lastWritten /\ ping' = ping
            /\ ticksSinceWrite' = 0 => lastWritten = average
  BY <1>3 DEF OnTick, MaybeProduce, average
<1>5. ticksSinceWrite' \in 0 .. kWriteEveryTicks - 1 /\ lastWritten' \in Nat /\ ping' \in lo .. hi
  BY <1>1, <1>2, <1>3, <1>4
<1>6. PingTypeOK'
  <2>1. fakePing \in [enabled : BOOLEAN, min : Nat, max : Nat] /\ managed \in BOOLEAN /\ baseline \in Nat
    BY DEF PingIndInv, PingTypeOK
  <2>2. filled' \in 0 .. kWindowTicks /\ ping' \in Nat
    BY <1>1, <1>3, <1>5, TickMovesWindow
  <2> QED
    BY <1>1, <1>2, <1>5, <2>1, <2>2, TickMovesWindow DEF PingTypeOK, Window
<1>7. RangeKept'
  <2>1. /\ 1 <= fakePing.min /\ fakePing.min <= fakePing.max /\ fakePing.max <= Highest
        /\ baseline \in fakePing.min .. fakePing.max
    BY <1>1 DEF PingIndInv, RangeKept
  <2> QED
    BY <1>1, <1>5, <2>1, TickMovesWindow DEF RangeKept
<1>8. WrittenShown'
  BY <1>3, <1>4 DEF WrittenShown, average
<1> QED
  BY <1>6, <1>7, <1>8, TickMovesWindow DEF PingIndInv

LEMMA NextKeepsPingInv == PingIndInv /\ [PingNext]_pingVars => PingIndInv'
<1>1. ASSUME PingIndInv, UNCHANGED pingVars PROVE PingIndInv'
  BY <1>1 DEF PingIndInv, PingTypeOK, Ring, Place, RangeKept, WrittenShown, pingVars, display
<1> QED
  BY <1>1, AdoptionKeepsInv, TickKeepsInv DEF PingNext

THEOREM AlwaysPingInv == PingSpec => []PingIndInv
BY InitPingInv, NextKeepsPingInv, PTL DEF PingSpec

\* Whatever the file holds, the ping shown lies in a valid range of its own.
THEOREM PingAlwaysInRange == PingSpec => []PingInRange
<1>1. PingIndInv => PingInRange
  BY DEF PingIndInv, RangeKept, PingInRange
<1> QED
  BY <1>1, AlwaysPingInv, PTL

\* The ping shown is the average of the latest samples of this bot alone, for any
\* length of the window and of the write interval.
THEOREM PingAlwaysAverage == PingSpec => []PingIsAverage
<1>1. PingIndInv => PingIsAverage
  <2> SUFFICES ASSUME PingIndInv, managed, fakePing.enabled, recent # << >>, ticksSinceWrite = 0
               PROVE  ping = Total(recent) \div Len(recent)
    BY DEF PingIsAverage
  <2>1. recent \in Seq(Nat) /\ Len(recent) = filled /\ filled # 0
    BY EmptySeq DEF PingIndInv, PingTypeOK
  <2>2. lastWritten = Total(recent) \div Len(recent)
    BY <2>1 DEF PingIndInv, WrittenShown
  <2>3. lastWritten # 0
    <3> DEFINE lo == fakePing.min
               hi == fakePing.max
    <3>1. lo \in Nat /\ hi \in Nat /\ 1 <= lo
      BY DEF PingIndInv, PingTypeOK, RangeKept
    <3>2. /\ recent \in Seq(Int) /\ Len(recent) \in Nat \ {0}
          /\ \A n \in 1 .. Len(recent) : lo <= recent[n] /\ recent[n] <= hi
      <4>1. Seq(Nat) \subseteq Seq(Int)
        BY SeqDef
      <4>2. \A n \in 1 .. Len(recent) : recent[n] \in lo .. hi
        BY <2>1 DEF PingIndInv, RangeKept
      <4> QED
        BY <2>1, <3>1, <4>1, <4>2, LenProperties
    <3> HIDE DEF lo, hi
    <3>3. Len(recent) * lo <= Total(recent) /\ Total(recent) <= Len(recent) * hi
      <4>1. lo \in Int /\ hi \in Int
        BY <3>1
      <4> QED
        BY <3>2, <4>1, TotalBounded
    <3>4. Total(recent) \div Len(recent) \in lo .. hi
      BY <3>1, <3>2, <3>3, TotalIsNumber, AverageBounded
    <3> QED
      BY <2>2, <3>1, <3>4
  <2> QED
    BY <2>2, <2>3 DEF PingIndInv, WrittenShown
<1> QED
  BY <1>1, AlwaysPingInv, PTL
===============================================================================
