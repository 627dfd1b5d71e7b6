----------------------------- MODULE AvatarOverride -----------------------------
(***************************************************************************)
(* Avatars of managed bots, from the file read of the C# bridge client to  *)
(* the ServerAvatarOverrides string table.                                 *)
(*                                                                         *)
(* TrySetBotAvatar starts a read on a worker task; a later tick hands its  *)
(* bytes to the native side, if the slot still has the bot they were meant *)
(* for.  There ProcessOverrides compares, once per frame, what each slot   *)
(* asks for with what it has done, and writes the table.  The table is     *)
(* keyed by SteamID, so bots that exchange SteamIDs exchange rows; each    *)
(* row has one slot that must clear it; every write may fail and is tried  *)
(* again after a second; a new level brings a new table.                   *)
(***************************************************************************)
EXTENDS Integers, Sequences

CONSTANTS kMaxSlots,
          Sids, NoSid,   \* SteamID64s of bots; 0
          Sentinel,      \* the key __bothider_no_avatar__
          FreshTables,   \* contents a level's table may start with
          MaxAdoptions,  \* bound: adoptions in one behaviour
          MaxAsks,       \* bound: avatar files asked for in one behaviour
          MaxMoves       \* bound: SteamID changes in one behaviour

Slots == 0 .. kMaxSlots - 1

ASSUME AvatarAssumption ==
  /\ kMaxSlots \in Nat \ {0}
  /\ NoSid \notin Sids /\ Sentinel \notin Sids \cup {NoSid}
  /\ MaxAdoptions \in Nat /\ MaxAsks \in Nat /\ MaxMoves \in Nat

\* A file's bytes are named by the call that asked for them; 0 is no bytes.
Data == 0 .. MaxAsks
Incarnations == 0 .. MaxAdoptions

Request == [data : Data, incarnation : Incarnations]
NoRequest == [data |-> 0, incarnation |-> 0]

\* seen: state.sequence = request.sequence; waiting: now < state.retryAt.
RuntimeState ==
  [seen : BOOLEAN, steamId : Sids \cup {NoSid}, appliedSteamId : Sids \cup {NoSid},
   processed : BOOLEAN, waiting : BOOLEAN]
FreshState ==
  [seen |-> FALSE, steamId |-> NoSid, appliedSteamId |-> NoSid,
   processed |-> FALSE, waiting |-> FALSE]

Read == [incarnation : Incarnations, ask : 0 .. MaxAsks,
         status : {"none", "running", "read", "failed"}]
NoRead == [incarnation |-> 0, ask |-> 0, status |-> "none"]

VARIABLES incarnation, steamId,   \* manager: snapshot of a slot
          request,                \* manager: avatar of a slot
          avatarSteamId,          \* manager: published SteamID, 0 if not applied
          g_avatarStates,
          tableSeen,              \* table = g_lastAvatarTable
          table,                  \* engine: rows of ServerAvatarOverrides
          caller, turn,           \* game thread: who runs the loop over the slots, where
          level,                  \* engine: "up" or "down"
          m_avatarReads,          \* BridgeClient._avatarReads
          adoptions, asks, moves, \* bounded counters
          validFrom               \* history: first ask a slot may still show

managerVars == << incarnation, steamId, request, adoptions, moves >>
nativeVars == << g_avatarStates, avatarSteamId, tableSeen, table, caller, turn >>
bridgeVars == << m_avatarReads, asks >>
vars == << managerVars, nativeVars, bridgeVars, level, validFrom >>

TypeOK ==
  /\ incarnation \in [Slots -> Incarnations]
  /\ steamId \in [Slots -> Sids \cup {NoSid}]
  /\ request \in [Slots -> Request]
  /\ avatarSteamId \in [Slots -> Sids \cup {NoSid}]
  /\ g_avatarStates \in [Slots -> RuntimeState]
  /\ tableSeen \in BOOLEAN
  /\ \A i \in 1 .. Len(table) : table[i].data \in Data /\ table[i].key # NoSid
  /\ caller \in {"none", "frame", "changelevel", "shutdown"}
  /\ turn \in 0 .. kMaxSlots
  /\ level \in {"up", "down"}
  /\ m_avatarReads \in [Slots -> Read]
  /\ adoptions \in Incarnations /\ asks \in Data /\ moves \in 0 .. MaxMoves
  /\ validFrom \in [Slots -> 1 .. MaxAsks + 1]

Managed(s) == incarnation[s] # 0

(***************************************************************************)
(* The string table.  Row 1 is index 0 of the engine.                      *)
(***************************************************************************)
Row(key, data) == [key |-> key, data |-> data]
Keys(rows) == {rows[i].key : i \in 1 .. Len(rows)}
FindStringIndex(rows, key) == CHOOSE i \in 1 .. Len(rows) : rows[i].key = key

\* The engine finds a row by its key, and no one else serves the SteamIDs that
\* the plugin makes up.
ASSUME TableAssumption ==
  \A rows \in FreshTables :
    /\ rows \in Seq([key : Keys(rows), data : Data])
    /\ NoSid \notin Keys(rows)
    /\ \A i, j \in 1 .. Len(rows) : rows[i].key = rows[j].key => i = j
    /\ \A i \in 1 .. Len(rows) : rows[i].key \in Sids => rows[i].data = 0

\* The bytes clients are given for a SteamID; 0 if there are none.
OverrideOf(sid) ==
  IF sid \in Keys(table) THEN table[FindStringIndex(table, sid)].data ELSE 0

\* The outcome of a write, if the engine lets it through.
Failed == [ok |-> FALSE]
Written(rows) == [ok |-> TRUE, rows |-> rows]

ClearAvatarOverride(rows, sid) ==
  LET i == FindStringIndex(rows, sid)
  IN  IF sid \notin Keys(rows) THEN Written(rows)
      ELSE IF i = 1 THEN Failed
      ELSE Written([rows EXCEPT ![i].data = 0])

\* Reserve index 0 before the first row, and never use it for bytes.
SetAvatarOverride(rows, sid, data) ==
  LET reserved == IF rows = << >> THEN << Row(Sentinel, 0) >> ELSE rows
      i == FindStringIndex(reserved, sid)
  IN  IF reserved[1].data # 0 THEN Failed
      ELSE IF sid \notin Keys(reserved) THEN Written(Append(reserved, Row(sid, data)))
      ELSE IF i = 1 THEN Failed
      ELSE Written([reserved EXCEPT ![i].data = data])

(***************************************************************************)
(* ProcessOverrides.                                                       *)
(***************************************************************************)
Idle == caller = "none"

ResetRuntime ==
  /\ g_avatarStates' = [s \in Slots |-> FreshState]
  /\ avatarSteamId' = [s \in Slots |-> NoSid]
  /\ tableSeen' = FALSE

\* One turn of the loop over the slots, as functions of p: the runtime states,
\* the published SteamIDs and the table.  fault says which call the engine
\* fails: "clear", "set" (or the convar before it), or "none".
Retry(p, s) == [p EXCEPT !.states[s].waiting = TRUE]

\* The other slots no longer have to clear the SteamID that s has taken over.
TransferOwnership_None(states, s, sid) == [states EXCEPT ![s].appliedSteamId = sid]
TransferOwnership(states, s, sid) ==
  [t \in Slots |->
     [states[t] EXCEPT !.appliedSteamId =
        IF t = s THEN sid ELSE IF @ = sid THEN NoSid ELSE @]]

WriteOverride(p, s, sid, data, fault) ==
  LET set == SetAvatarOverride(p.rows, sid, data)
  IN  IF fault = "set" \/ ~set.ok THEN Retry(p, s)
      ELSE [states |-> [TransferOwnership(p.states, s, sid) EXCEPT ![s].processed = TRUE],
            published |-> [p.published EXCEPT ![s] = sid],
            rows |-> set.rows]

ProcessRequest(p, s, sid, data, fault) ==
  LET owned == p.states[s].appliedSteamId
      stale == owned # NoSid /\ owned # sid
      cleared == ClearAvatarOverride(p.rows, owned)
      q == IF stale THEN [p EXCEPT !.states[s].appliedSteamId = NoSid, !.rows = cleared.rows]
                    ELSE p
  IN  IF stale /\ (fault = "clear" \/ ~cleared.ok) THEN Retry(p, s)
      ELSE IF sid = NoSid THEN [q EXCEPT !.states[s].processed = TRUE]
      ELSE WriteOverride(q, s, sid, data, fault)

\* The SteamID a slot wants its avatar under, if its request is current.
WantedSid(s) ==
  LET r == request[s]
  IN  IF r.data # 0 /\ r.incarnation # 0 /\ r.incarnation = incarnation[s]
        THEN steamId[s] ELSE NoSid

\* A change of SteamID needs processing as a new request does.
Changed_RequestOnly(s) == ~g_avatarStates[s].seen
Changed(s) == ~g_avatarStates[s].seen \/ g_avatarStates[s].steamId # WantedSid(s)

Pending(s) ==
  Changed(s) \/ (~g_avatarStates[s].processed /\ ~g_avatarStates[s].waiting)

ProcessSlot(s, fault) ==
  LET sid == WantedSid(s)
      state == IF Changed(s)
                 THEN [g_avatarStates[s] EXCEPT !.seen = TRUE, !.steamId = sid,
                                                !.processed = FALSE, !.waiting = FALSE]
                 ELSE g_avatarStates[s]
  IN  ProcessRequest([states |-> [g_avatarStates EXCEPT ![s] = state],
                      published |-> [avatarSteamId EXCEPT ![s] = NoSid],
                      rows |-> table],
                     s, sid, request[s].data, fault)

\* A call that is not made cannot fail.
MayFail(s, fault) ==
  /\ fault = "clear" => g_avatarStates[s].appliedSteamId \notin {NoSid, WantedSid(s)}
  /\ fault = "set" => WantedSid(s) # NoSid

\* The turn of slot s; the game thread does nothing else until the loop ends.
ProcessTurn(s, fault) ==
  LET p == ProcessSlot(s, fault)
  IN  /\ caller # "none" /\ turn = s
      /\ turn' = s + 1
      /\ \/ /\ Pending(s) /\ MayFail(s, fault)
            /\ g_avatarStates' = p.states
            /\ avatarSteamId' = p.published
            /\ table' = p.rows
         \/ /\ ~Pending(s) /\ fault = "none"
            /\ UNCHANGED << g_avatarStates, avatarSteamId, table >>
      /\ UNCHANGED << caller, managerVars, bridgeVars, tableSeen, level, validFrom >>

\* The head of ProcessOverrides, called by caller when states are the slots'
\* states and published their SteamIDs: a table not seen before voids what was
\* done in the last one.
ProcessOverrides(name, states, published) ==
  /\ caller' = name /\ turn' = 0
  /\ tableSeen' = TRUE
  /\ g_avatarStates' = IF tableSeen THEN states ELSE [s \in Slots |-> FreshState]
  /\ avatarSteamId' = IF tableSeen THEN published ELSE [s \in Slots |-> NoSid]

\* The end of ProcessOverrides; OnLevelShutdown goes on with ResetRuntime.
LoopEnds ==
  /\ caller # "none" /\ turn = kMaxSlots
  /\ caller' = "none"
  /\ IF caller = "shutdown"
       THEN /\ level' = "down"
            /\ ResetRuntime
       ELSE UNCHANGED << level, g_avatarStates, avatarSteamId, tableSeen >>
  /\ UNCHANGED << turn, table, managerVars, bridgeVars, validFrom >>

\* HookGameFramePost; in a frame without anything to do nothing changes.
GameFrame ==
  /\ Idle /\ level = "up"
  /\ ~tableSeen \/ \E s \in Slots : Pending(s)
  /\ ProcessOverrides("frame", g_avatarStates, avatarSteamId)
  /\ UNCHANGED << table, managerVars, bridgeVars, level, validFrom >>

RetryDue(s) ==
  /\ Idle /\ g_avatarStates[s].waiting
  /\ g_avatarStates' = [g_avatarStates EXCEPT ![s].waiting = FALSE]
  /\ UNCHANGED << avatarSteamId, tableSeen, table, caller, turn, managerVars, bridgeVars, level, validFrom >>

(***************************************************************************)
(* Identities: what the other components do to a slot.                     *)
(***************************************************************************)
SidsInUse == {steamId[s] : s \in {t \in Slots : Managed(t)}}
Unseen(slots) ==
  [s \in Slots |-> IF s \in slots THEN [g_avatarStates[s] EXCEPT !.seen = FALSE]
                                  ELSE g_avatarStates[s]]

AdoptSlot(s, sid) ==
  /\ Idle /\ level = "up" /\ ~Managed(s) /\ sid \notin SidsInUse
  /\ adoptions < MaxAdoptions
  /\ adoptions' = adoptions + 1
  /\ incarnation' = [incarnation EXCEPT ![s] = adoptions + 1]
  /\ steamId' = [steamId EXCEPT ![s] = sid]
  /\ request' = [request EXCEPT ![s] = NoRequest]
  /\ avatarSteamId' = [avatarSteamId EXCEPT ![s] = NoSid]
  /\ g_avatarStates' = Unseen({s})
  /\ validFrom' = [validFrom EXCEPT ![s] = asks + 1]
  /\ UNCHANGED << tableSeen, table, caller, turn, level, bridgeVars, moves >>

ReleaseSlot(s) ==
  /\ Idle /\ Managed(s)
  /\ incarnation' = [incarnation EXCEPT ![s] = 0]
  /\ steamId' = [steamId EXCEPT ![s] = NoSid]
  /\ request' = [request EXCEPT ![s] = NoRequest]
  /\ avatarSteamId' = [avatarSteamId EXCEPT ![s] = NoSid]
  /\ g_avatarStates' = Unseen({s})
  /\ validFrom' = [validFrom EXCEPT ![s] = asks + 1]
  /\ UNCHANGED << tableSeen, table, caller, turn, level, bridgeVars, adoptions, moves >>

SetSyntheticSid(s, sid) ==
  /\ Idle /\ Managed(s) /\ sid \notin SidsInUse
  /\ moves < MaxMoves
  /\ moves' = moves + 1
  /\ steamId' = [steamId EXCEPT ![s] = sid]
  /\ UNCHANGED << incarnation, request, adoptions, nativeVars, bridgeVars, level, validFrom >>

\* HookStartChangeLevelPre and OnLevelShutdown: all slots are released and what
\* can be cleared is cleared; OnLevelShutdown then forgets the rest.
ReleaseAll(name) ==
  /\ Idle /\ level = "up" /\ adoptions > 0
  /\ incarnation' = [s \in Slots |-> 0]
  /\ steamId' = [s \in Slots |-> NoSid]
  /\ request' = [s \in Slots |-> NoRequest]
  /\ validFrom' = [s \in Slots |-> asks + 1]
  /\ ProcessOverrides(name, Unseen(Slots), [s \in Slots |-> NoSid])
  /\ UNCHANGED << adoptions, moves, table, bridgeVars, level >>

StartChangeLevel == ReleaseAll("changelevel")
OnLevelShutdown == ReleaseAll("shutdown")

\* The engine's new table, and ResetRuntime.
OnLevelInit(rows) ==
  /\ Idle /\ level = "down"
  /\ level' = "up"
  /\ table' = rows
  /\ ResetRuntime
  /\ UNCHANGED << caller, turn, managerVars, bridgeVars, validFrom >>

(***************************************************************************)
(* The bridge.                                                             *)
(***************************************************************************)
\* BH_SetAvatar for the slots given: requests of stale incarnations fail.
SetAvatarRequest(slots, data) ==
  /\ request' = [s \in Slots |->
       IF s \in slots THEN [data |-> data[s], incarnation |-> incarnation[s]] ELSE request[s]]
  /\ avatarSteamId' = [s \in Slots |-> IF s \in slots THEN NoSid ELSE avatarSteamId[s]]
  /\ g_avatarStates' = Unseen(slots)

\* TrySetBotAvatar with a file: one read per slot at a time.
TrySetBotAvatar(s) ==
  /\ Idle /\ Managed(s) /\ m_avatarReads[s].status = "none"
  /\ asks < MaxAsks
  /\ asks' = asks + 1
  /\ m_avatarReads' = [m_avatarReads EXCEPT ![s] =
       [incarnation |-> incarnation[s], ask |-> asks + 1, status |-> "running"]]
  /\ UNCHANGED << managerVars, nativeVars, level, validFrom >>

\* TrySetBotAvatar with "0".
ClearBotAvatar(s) ==
  /\ Idle /\ Managed(s)
  /\ m_avatarReads' = [m_avatarReads EXCEPT ![s].incarnation = 0]
  /\ SetAvatarRequest({s}, [t \in Slots |-> 0])
  /\ validFrom' = [validFrom EXCEPT ![s] = asks + 1]
  /\ UNCHANGED << incarnation, steamId, adoptions, moves, tableSeen, table, caller, turn, asks, level >>

\* The worker task; "failed" stands for a bad file and for bytes that
\* HasPngStructure will reject.
ReadAvatar(s, status) ==
  /\ m_avatarReads[s].status = "running"
  /\ m_avatarReads' = [m_avatarReads EXCEPT ![s].status = status]
  /\ UNCHANGED << managerVars, nativeVars, asks, level, validFrom >>

\* FinishAvatarReads on a tick: every read that has ended is taken out.
ForThisBot_AnyBot(s) == Managed(s)
ForThisBot(s) ==
  m_avatarReads[s].incarnation # 0 /\ m_avatarReads[s].incarnation = incarnation[s]

FinishAvatarReads ==
  LET ended == {s \in Slots : m_avatarReads[s].status \in {"read", "failed"}}
      applied == {s \in ended : m_avatarReads[s].status = "read" /\ ForThisBot(s)}
  IN  /\ Idle /\ ended # {}
      /\ m_avatarReads' = [s \in Slots |-> IF s \in ended THEN NoRead ELSE m_avatarReads[s]]
      /\ SetAvatarRequest(applied, [s \in Slots |-> m_avatarReads[s].ask])
      /\ UNCHANGED << incarnation, steamId, adoptions, moves, tableSeen, table, caller, turn, asks, level, validFrom >>

\* The provider is unloaded and loaded again: a new BridgeClient.
ReloadBridge ==
  /\ Idle /\ \E s \in Slots : m_avatarReads[s] # NoRead
  /\ m_avatarReads' = [s \in Slots |-> NoRead]
  /\ UNCHANGED << managerVars, nativeVars, asks, level, validFrom >>

Init ==
  /\ incarnation = [s \in Slots |-> 0]
  /\ steamId = [s \in Slots |-> NoSid]
  /\ request = [s \in Slots |-> NoRequest]
  /\ caller = "none" /\ turn = kMaxSlots
  /\ avatarSteamId = [s \in Slots |-> NoSid]
  /\ g_avatarStates = [s \in Slots |-> FreshState]
  /\ tableSeen = FALSE /\ table \in FreshTables /\ level = "up"
  /\ m_avatarReads = [s \in Slots |-> NoRead]
  /\ adoptions = 0 /\ asks = 0 /\ moves = 0
  /\ validFrom = [s \in Slots |-> 1]

Next ==
  \/ GameFrame
  \/ \E s \in Slots, fault \in {"none", "clear", "set"} : ProcessTurn(s, fault)
  \/ LoopEnds
  \/ \E s \in Slots : RetryDue(s)
  \/ \E s \in Slots, sid \in Sids : AdoptSlot(s, sid)
  \/ \E s \in Slots : ReleaseSlot(s)
  \/ \E s \in Slots, sid \in Sids : SetSyntheticSid(s, sid)
  \/ StartChangeLevel
  \/ OnLevelShutdown
  \/ \E rows \in FreshTables : OnLevelInit(rows)
  \/ \E s \in Slots : TrySetBotAvatar(s)
  \/ \E s \in Slots : ClearBotAvatar(s)
  \/ \E s \in Slots, status \in {"read", "failed"} : ReadAvatar(s, status)
  \/ FinishAvatarReads
  \/ ReloadBridge

Spec == Init /\ [][Next]_vars

\* Frames go on, a second passes, ticks run; the engine does not fail the same
\* write for ever.
Fairness ==
  /\ WF_vars(GameFrame)
  /\ WF_vars(\E s \in Slots, fault \in {"none", "clear", "set"} : ProcessTurn(s, fault))
  /\ \A s \in Slots : SF_vars(Pending(s) /\ ProcessTurn(s, "none"))
  /\ WF_vars(LoopEnds)
  /\ \A s \in Slots : SF_vars(RetryDue(s))
  /\ WF_vars(FinishAvatarReads)

FairSpec == Spec /\ Fairness

-------------------------------------------------------------------------------
\* BridgeClient.HasBotAvatar.
HasBotAvatar(s) == Managed(s) /\ avatarSteamId[s] # NoSid /\ avatarSteamId[s] = steamId[s]

\* HasBotAvatar tells the truth (TECH.md: an override is applied to the bot's
\* current SteamID64), and the override is the file last given to this bot.
AvatarIsApplied ==
  \A s \in Slots : HasBotAvatar(s) =>
    /\ OverrideOf(steamId[s]) # 0
    /\ OverrideOf(steamId[s]) = request[s].data

\* No override is forgotten: while a level runs, each SteamID that has bytes in
\* the table has exactly one slot that will clear or replace them.
OverridesOwned ==
  level = "up" => \A sid \in Sids :
    LET owners == {s \in Slots : g_avatarStates[s].appliedSteamId = sid}
    IN  /\ OverrideOf(sid) # 0 => owners # {}
        /\ \A s, t \in owners : s = t

\* A read that ends late never gives its bytes to the next bot of the slot, nor
\* to a bot whose avatar was cleared after the read began.
ReadsReachTheirBot ==
  \A s \in Slots : request[s].data # 0 =>
    Managed(s) /\ request[s].incarnation = incarnation[s] /\ request[s].data >= validFrom[s]

\* SetAvatarOverride keeps bytes out of index 0, which the engine takes for
\* players that have no row of their own; other code may have taken it.
IndexZeroTaken(sid) == table # << >> /\ (table[1].data # 0 \/ table[1].key = sid)

\* A request that stays is applied in the end, however often the table refused,
\* unless the table can never take it.
RequestsApplied ==
  \A s \in Slots, i \in 1 .. MaxAdoptions, d \in 1 .. MaxAsks :
    (incarnation[s] = i /\ request[s].data = d)
      ~> \/ HasBotAvatar(s) \/ IndexZeroTaken(steamId[s])
         \/ ~(incarnation[s] = i /\ request[s].data = d)

\* Bytes under a SteamID that no bot wants any more are cleared in the end.  This
\* rests on SetAvatarOverride never using index 0, which no call can clear.
UnwantedCleared ==
  \A sid \in Sids :
    LET wanted == \E s \in Slots : WantedSid(s) = sid
    IN  OverrideOf(sid) # 0 /\ ~wanted ~> OverrideOf(sid) = 0 \/ wanted \/ level = "down"
===============================================================================
