------------------------- MODULE AvatarOverrideProofs -------------------------
(***************************************************************************)
(* Proofs about AvatarOverride: a reported avatar is in the table, each    *)
(* row that has bytes has one slot that will clear it, and a late read     *)
(* reaches the bot it was made for, whatever the engine refuses and        *)
(* however bots exchange SteamIDs.                                         *)
(***************************************************************************)
EXTENDS AvatarOverride, TLAPS

-------------------------------------------------------------------------------
\* Rows under distinct keys.
RowKey == Sids \cup {Sentinel} \cup UNION {Keys(rows) : rows \in FreshTables}
TableRow == [key : RowKey, data : Data]
IsTable(rows) ==
  /\ rows \in Seq(TableRow)
  /\ \A i, j \in 1 .. Len(rows) : rows[i].key = rows[j].key => i = j

\* The bytes that rows hold for a SteamID.
BytesIn(rows, sid) ==
  IF sid \in Keys(rows) THEN rows[FindStringIndex(rows, sid)].data ELSE 0

\* Managed bots have SteamIDs, no two of them the same.
SidsApart ==
  \A s \in Slots : Managed(s) =>
    /\ steamId[s] \in Sids
    /\ \A t \in Slots : Managed(t) /\ steamId[t] = steamId[s] => t = s

\* A read that is still meant for the bot in its slot began after the bot came
\* and after its avatar was last cleared.
ReadsInTime ==
  \A s \in Slots :
    /\ validFrom[s] <= asks + 1
    /\ incarnation[s] <= adoptions /\ m_avatarReads[s].incarnation <= adoptions
    /\ ForThisBot(s) => m_avatarReads[s].ask >= validFrom[s]

\* No two slots clear the same row.
OneOwner(states) ==
  \A s, t \in Slots :
    states[s].appliedSteamId # NoSid /\ states[s].appliedSteamId = states[t].appliedSteamId
      => s = t

\* Every row with bytes has an owner.
BytesOwned(states, rows) ==
  \A sid \in Sids : BytesIn(rows, sid) # 0 =>
    \E s \in Slots : states[s].appliedSteamId = sid

\* A table not seen yet is as the engine made it, and is seen before the loop.
UnseenTableIsClean ==
  /\ caller # "none" => tableSeen
  /\ level = "up" /\ ~tableSeen => \A sid \in Sids : BytesIn(table, sid) = 0

\* What the manager reports for a slot: the SteamID it was last processed for,
\* and the bytes of its request; but during the loop, a bot that comes later may
\* have lost the row of its former SteamID to one that came before.
IsApplied(s) ==
  \/ /\ g_avatarStates[s].appliedSteamId = avatarSteamId[s]
     /\ BytesIn(table, avatarSteamId[s]) = request[s].data
  \/ caller # "none" /\ turn <= s /\ steamId[s] # avatarSteamId[s]

Published ==
  \A s \in Slots : avatarSteamId[s] # NoSid =>
    /\ g_avatarStates[s].steamId = avatarSteamId[s]
    /\ Managed(s) /\ request[s].data # 0 /\ request[s].incarnation = incarnation[s]
    /\ IsApplied(s)
    /\ caller # "none" /\ s < turn => steamId[s] = avatarSteamId[s]

IndInv ==
  /\ TypeOK
  /\ IsTable(table)
  /\ SidsApart
  /\ ReadsInTime
  /\ ReadsReachTheirBot
  /\ OneOwner(g_avatarStates)
  /\ level = "up" => BytesOwned(g_avatarStates, table)
  /\ UnseenTableIsClean
  /\ Published
-------------------------------------------------------------------------------
\* A key of a table has one row, and FindStringIndex finds it.
LEMMA FindsTheRow ==
  ASSUME NEW rows, IsTable(rows), NEW i \in 1 .. Len(rows)
  PROVE  /\ rows[i].key \in Keys(rows)
         /\ FindStringIndex(rows, rows[i].key) = i
         /\ BytesIn(rows, rows[i].key) = rows[i].data
<1>1. rows[i].key \in Keys(rows)
  BY DEF Keys
<1>2. FindStringIndex(rows, rows[i].key) = i
  BY DEF FindStringIndex, IsTable
<1> QED
  BY <1>1, <1>2 DEF BytesIn

LEMMA FoundRow ==
  ASSUME NEW rows, IsTable(rows), NEW sid \in Keys(rows)
  PROVE  /\ FindStringIndex(rows, sid) \in 1 .. Len(rows)
         /\ rows[FindStringIndex(rows, sid)].key = sid
         /\ BytesIn(rows, sid) = rows[FindStringIndex(rows, sid)].data
<1>1. PICK i \in 1 .. Len(rows) : rows[i].key = sid
  BY DEF Keys
<1> QED
  BY <1>1, FindsTheRow

\* The rows of a table have keys and bytes.
LEMMA TableKeys ==
  ASSUME NEW rows, IsTable(rows)
  PROVE  \A i \in 1 .. Len(rows) : rows[i].data \in Data /\ rows[i].key # NoSid
<1>1. NoSid \notin RowKey
  BY AvatarAssumption, TableAssumption DEF RowKey
<1>2. \A i \in 1 .. Len(rows) : rows[i] \in TableRow
  BY DEF IsTable
<1> QED
  BY <1>1, <1>2 DEF TableRow

\* A table as the engine makes it has no bytes under a bot's SteamID.
LEMMA FreshTableIsClean ==
  ASSUME NEW rows \in FreshTables
  PROVE  IsTable(rows) /\ \A sid \in Sids : BytesIn(rows, sid) = 0
<1>1. IsTable(rows)
  <2>1. \A i \in 1 .. Len(rows) : rows[i] \in TableRow
    <3>1. rows \in Seq([key : Keys(rows), data : Data]) /\ Keys(rows) \subseteq RowKey
      BY TableAssumption DEF RowKey
    <3> DEFINE Found == [key : Keys(rows), data : Data]
    <3>2. Found \subseteq TableRow
      BY <3>1 DEF TableRow
    <3>3. rows \in Seq(Found)
      BY <3>1
    <3> HIDE DEF Found
    <3> QED
      BY <3>2, <3>3
  <2>2. rows \in Seq(TableRow)
    <3>1. rows \in Seq([key : Keys(rows), data : Data])
      BY TableAssumption
    <3> QED
      BY <2>1, <3>1
  <2> QED
    BY <2>2, TableAssumption DEF IsTable
<1>2. \A sid \in Sids : BytesIn(rows, sid) = 0
  <2>1. ASSUME NEW sid \in Sids, sid \in Keys(rows)
        PROVE  BytesIn(rows, sid) = 0
    <3> DEFINE i == FindStringIndex(rows, sid)
    <3>1. /\ i \in 1 .. Len(rows) /\ rows[i].key = sid
          /\ BytesIn(rows, sid) = rows[i].data
      BY <1>1, <2>1, FoundRow
    <3> HIDE DEF i
    <3> QED
      BY <3>1, TableAssumption
  <2> QED
    BY <2>1 DEF BytesIn
<1> QED
  BY <1>1, <1>2

\* Replacing the bytes of a row touches no other.
LEMMA UpdateRow ==
  ASSUME NEW rows, IsTable(rows), NEW i \in 1 .. Len(rows), NEW d \in Data
  PROVE  LET new == [rows EXCEPT ![i].data = d]
         IN  /\ IsTable(new)
             /\ BytesIn(new, rows[i].key) = d
             /\ \A k : k # rows[i].key => BytesIn(new, k) = BytesIn(rows, k)
<1> DEFINE new == [rows EXCEPT ![i].data = d]
<1>1. /\ rows \in Seq(TableRow) /\ Len(rows) \in Nat
      /\ rows \in [1 .. Len(rows) -> TableRow]
  BY DEF IsTable
<1>2. rows[i] \in TableRow /\ [rows[i] EXCEPT !.data = d] \in TableRow
  BY <1>1 DEF TableRow
<1>3. /\ new \in [1 .. Len(rows) -> TableRow]
      /\ new[i].key = rows[i].key /\ new[i].data = d
      /\ \A j \in 1 .. Len(rows) : j # i => new[j] = rows[j]
  BY <1>1, <1>2 DEF TableRow
<1>4. new \in Seq(TableRow) /\ Len(new) = Len(rows)
  BY <1>1, <1>3
<1> HIDE DEF new
<1>5. \A j \in 1 .. Len(rows) : new[j].key = rows[j].key
  BY <1>3
<1>6. IsTable(new)
  BY <1>4, <1>5 DEF IsTable
<1>7. Keys(new) = Keys(rows)
  BY <1>4, <1>5 DEF Keys
<1>8. BytesIn(new, rows[i].key) = d
  BY <1>3, <1>4, <1>6, FindsTheRow
<1>9. ASSUME NEW k, k # rows[i].key
      PROVE  BytesIn(new, k) = BytesIn(rows, k)
  <2>1. CASE k \in Keys(rows)
    <3>1. PICK j \in 1 .. Len(rows) : rows[j].key = k
      BY <2>1 DEF Keys
    <3>2. j # i /\ new[j] = rows[j] /\ new[j].key = k
      BY <1>3, <1>9, <3>1
    <3> QED
      BY <1>4, <1>6, <3>1, <3>2, FindsTheRow
  <2>2. CASE k \notin Keys(rows)
    BY <1>7, <2>2 DEF BytesIn
  <2> QED
    BY <2>1, <2>2
<1> QED
  BY <1>6, <1>8, <1>9 DEF new

\* So does adding one.
LEMMA AddRow ==
  ASSUME NEW rows, IsTable(rows), NEW key \in RowKey, key \notin Keys(rows), NEW d \in Data
  PROVE  LET new == Append(rows, Row(key, d))
         IN  /\ IsTable(new)
             /\ BytesIn(new, key) = d
             /\ \A k : k # key => BytesIn(new, k) = BytesIn(rows, k)
<1> DEFINE new == Append(rows, Row(key, d))
           n == Len(rows)
<1>1. rows \in Seq(TableRow) /\ n \in Nat
  BY DEF IsTable
<1>2. Row(key, d) \in TableRow /\ Row(key, d).key = key /\ Row(key, d).data = d
  BY DEF Row, TableRow
<1>3. /\ new \in Seq(TableRow) /\ Len(new) = n + 1 /\ new[n + 1] = Row(key, d)
      /\ \A j \in 1 .. n : new[j] = rows[j]
  BY <1>1, <1>2
<1> HIDE DEF new
<1>4. \A j \in 1 .. n : rows[j].key # key
  BY DEF Keys
<1>5. IsTable(new)
  <2>1. ASSUME NEW i \in 1 .. Len(new), NEW j \in 1 .. Len(new), new[i].key = new[j].key
        PROVE  i = j
    <3>1. CASE i \in 1 .. n /\ j \in 1 .. n
      BY <1>3, <2>1, <3>1 DEF IsTable
    <3>2. CASE i = n + 1 \/ j = n + 1
      <4>1. i = n + 1 \/ i \in 1 .. n
        BY <1>1, <1>3
      <4>2. j = n + 1 \/ j \in 1 .. n
        BY <1>1, <1>3
      <4> QED
        BY <1>2, <1>3, <1>4, <2>1, <3>2, <4>1, <4>2
    <3> QED
      BY <1>1, <1>3, <3>1, <3>2
  <2> QED
    BY <1>3, <2>1 DEF IsTable
<1>6. n + 1 \in 1 .. Len(new) /\ \A j \in 1 .. n : j \in 1 .. Len(new)
  BY <1>1, <1>3
<1>7. BytesIn(new, key) = d
  BY <1>2, <1>3, <1>5, <1>6, FindsTheRow
<1>8. ASSUME NEW k, k # key
      PROVE  BytesIn(new, k) = BytesIn(rows, k)
  <2>1. CASE k \in Keys(rows)
    <3>1. PICK j \in 1 .. n : rows[j].key = k
      BY <2>1 DEF Keys
    <3>2. new[j] = rows[j] /\ j \in 1 .. Len(new)
      BY <1>3, <1>6, <3>1
    <3> QED
      BY <1>5, <3>1, <3>2, FindsTheRow
  <2>2. CASE k \notin Keys(rows)
    <3>1. \A j \in 1 .. Len(new) : new[j].key # k
      <4>1. ASSUME NEW j \in 1 .. Len(new) PROVE j = n + 1 \/ j \in 1 .. n
        BY <1>1, <1>3
      <4> QED
        BY <1>2, <1>3, <1>8, <2>2, <4>1 DEF Keys
    <3> QED
      BY <2>2, <3>1 DEF BytesIn, Keys
  <2> QED
    BY <2>1, <2>2
<1> QED
  BY <1>5, <1>7, <1>8 DEF new

\* ClearAvatarOverride takes the bytes of one SteamID away, or does nothing.
LEMMA ClearsOneSid ==
  ASSUME NEW rows, IsTable(rows), NEW sid, ClearAvatarOverride(rows, sid).ok
  PROVE  LET new == ClearAvatarOverride(rows, sid).rows
         IN  /\ IsTable(new)
             /\ BytesIn(new, sid) = 0
             /\ \A k : k # sid => BytesIn(new, k) = BytesIn(rows, k)
<1>1. 0 \in Data
  BY AvatarAssumption DEF Data
<1>2. CASE sid \notin Keys(rows)
  BY <1>2 DEF ClearAvatarOverride, Written, BytesIn
<1>3. CASE sid \in Keys(rows)
  <2> DEFINE i == FindStringIndex(rows, sid)
  <2>1. i \in 1 .. Len(rows) /\ rows[i].key = sid
    BY <1>3, FoundRow
  <2>2. ClearAvatarOverride(rows, sid).rows = [rows EXCEPT ![i].data = 0]
    BY <1>3 DEF ClearAvatarOverride, Written, Failed
  <2> HIDE DEF i
  <2> DEFINE new == [rows EXCEPT ![i].data = 0]
  <2>3. /\ IsTable(new) /\ BytesIn(new, rows[i].key) = 0
        /\ \A k : k # rows[i].key => BytesIn(new, k) = BytesIn(rows, k)
    BY <1>1, <2>1, UpdateRow, ZenonT(60)
  <2> HIDE DEF new
  <2>4. /\ IsTable(new) /\ BytesIn(new, sid) = 0
        /\ \A k : k # sid => BytesIn(new, k) = BytesIn(rows, k)
    BY <2>1, <2>3
  <2> QED
    BY <2>2, <2>4 DEF new
<1> QED
  BY <1>2, <1>3

\* SetAvatarOverride gives one SteamID its bytes, or does nothing.
LEMMA SetsOneSid ==
  ASSUME NEW rows, IsTable(rows), NEW sid \in Sids, NEW data \in Data,
         SetAvatarOverride(rows, sid, data).ok
  PROVE  LET new == SetAvatarOverride(rows, sid, data).rows
         IN  /\ IsTable(new)
             /\ BytesIn(new, sid) = data
             /\ \A k \in Sids : k # sid => BytesIn(new, k) = BytesIn(rows, k)
<1> DEFINE reserved == IF rows = << >> THEN << Row(Sentinel, 0) >> ELSE rows
           i == FindStringIndex(reserved, sid)
<1>1. 0 \in Data /\ Sentinel \in RowKey /\ sid \in RowKey
  BY AvatarAssumption DEF Data, RowKey
<1>2. IsTable(reserved) /\ \A k \in Sids : BytesIn(reserved, k) = BytesIn(rows, k)
  <2>1. CASE rows = << >>
    <3>1. reserved = Append(rows, Row(Sentinel, 0))
      BY <2>1
    <3>2. Sentinel \notin Keys(rows)
      BY <2>1 DEF Keys
    <3>3. \A k \in Sids : k # Sentinel
      BY AvatarAssumption
    <3> HIDE DEF reserved
    <3> QED
      BY <1>1, <3>1, <3>2, <3>3, AddRow
  <2>2. CASE rows # << >>
    BY <2>2
  <2> QED
    BY <2>1, <2>2
<1>3. SetAvatarOverride(rows, sid, data).rows =
        IF sid \notin Keys(reserved) THEN Append(reserved, Row(sid, data))
        ELSE [reserved EXCEPT ![i].data = data]
  BY DEF SetAvatarOverride, Written, Failed
<1> HIDE DEF reserved
<1>4. CASE sid \notin Keys(reserved)
  BY <1>1, <1>2, <1>3, <1>4, AddRow
<1>5. CASE sid \in Keys(reserved)
  <2>1. i \in 1 .. Len(reserved) /\ reserved[i].key = sid
    BY <1>2, <1>5, FoundRow
  <2>2. SetAvatarOverride(rows, sid, data).rows = [reserved EXCEPT ![i].data = data]
    BY <1>3, <1>5
  <2> HIDE DEF i
  <2> DEFINE new == [reserved EXCEPT ![i].data = data]
  <2>3. /\ IsTable(new) /\ BytesIn(new, reserved[i].key) = data
        /\ \A k : k # reserved[i].key => BytesIn(new, k) = BytesIn(reserved, k)
    BY <1>2, <2>1, UpdateRow
  <2> HIDE DEF new
  <2>4. /\ IsTable(new) /\ BytesIn(new, sid) = data
        /\ \A k \in Sids : k # sid => BytesIn(new, k) = BytesIn(rows, k)
    BY <1>2, <2>1, <2>3
  <2> QED
    BY <2>2, <2>4 DEF new
<1> QED
  BY <1>4, <1>5
-------------------------------------------------------------------------------
\* What a slot gives up when it is processed without a new row: nothing, or the
\* row it owned.
GivesUp(s, states, rows, newStates, newRows) ==
  LET own == states[s].appliedSteamId
  IN  \/ /\ newStates[s].appliedSteamId = own
         /\ \A k \in Sids : BytesIn(newRows, k) = BytesIn(rows, k)
      \/ /\ own # NoSid /\ newStates[s].appliedSteamId = NoSid
         /\ BytesIn(newRows, own) = 0
         /\ \A k \in Sids : k # own => BytesIn(newRows, k) = BytesIn(rows, k)

\* What it takes over when it is given a row.
TakesOver(s, sid, data, states, rows, newStates, newRows) ==
  LET own == states[s].appliedSteamId
  IN  /\ newStates[s].appliedSteamId = sid
      /\ \A t \in Slots \ {s} :
           newStates[t].appliedSteamId =
             IF states[t].appliedSteamId = sid THEN NoSid ELSE states[t].appliedSteamId
      /\ BytesIn(newRows, sid) = data
      /\ \A k \in Sids \ {sid} :
           BytesIn(newRows, k) = IF k = own THEN 0 ELSE BytesIn(rows, k)

\* The two ways a slot's turn may end.
Outcome(s, sid, data, states, rows, r) ==
  \/ /\ r.published[s] = NoSid
     /\ \A t \in Slots \ {s} : r.states[t].appliedSteamId = states[t].appliedSteamId
     /\ GivesUp(s, states, rows, r.states, r.rows)
  \/ /\ sid \in Sids /\ r.published[s] = sid
     /\ TakesOver(s, sid, data, states, rows, r.states, r.rows)

Progress == [states : [Slots -> RuntimeState], published : [Slots -> Sids \cup {NoSid}],
             rows : {rows \in Seq(TableRow) : IsTable(rows)}]

\* A turn leaves the other slots what they publish, and all slots the SteamID
\* they were processed for.
Local(s, p, r) ==
  /\ r \in Progress
  /\ \A t \in Slots \ {s} : r.published[t] = p.published[t]
  /\ \A t \in Slots : r.states[t].steamId = p.states[t].steamId

\* A refused write changes nothing but the time of the next attempt.
LEMMA RetryEffect ==
  ASSUME NEW p \in Progress, NEW s \in Slots
  PROVE  LET r == Retry(p, s)
         IN  /\ Local(s, p, r) /\ r.rows = p.rows /\ r.published = p.published
             /\ \A t \in Slots : r.states[t].appliedSteamId = p.states[t].appliedSteamId
<1> DEFINE r == Retry(p, s)
<1>1. /\ p.states[s] \in RuntimeState /\ p.states \in [Slots -> RuntimeState]
      /\ p.published \in [Slots -> Sids \cup {NoSid}]
      /\ p.rows \in {rows \in Seq(TableRow) : IsTable(rows)}
  BY DEF Progress
<1> DEFINE n == [p.states[s] EXCEPT !.waiting = TRUE]
<1>2. /\ n \in RuntimeState /\ n.steamId = p.states[s].steamId
      /\ n.appliedSteamId = p.states[s].appliedSteamId
  BY <1>1 DEF RuntimeState
<1> DEFINE f == [p.states EXCEPT ![s] = n]
<1>3. r = [p EXCEPT !.states = f]
  BY DEF Retry
<1> HIDE DEF r, n
<1>4. f \in [Slots -> RuntimeState]
  BY <1>1, <1>2
<1>5. r \in Progress /\ r.states = f /\ r.published = p.published /\ r.rows = p.rows
  <2> HIDE DEF f
  <2> QED
    BY <1>3, <1>4 DEF Progress
<1>6. \A t \in Slots : /\ r.states[t].steamId = p.states[t].steamId
                      /\ r.states[t].appliedSteamId = p.states[t].appliedSteamId
  BY <1>1, <1>2, <1>5
<1> QED
  BY <1>5, <1>6 DEF Local, r

\* What marking a slot processed, or taking its row away, changes in its state.
LEMMA ProcessedEffect ==
  ASSUME NEW f \in [Slots -> RuntimeState], NEW s \in Slots
  PROVE  LET g == [f EXCEPT ![s].processed = TRUE]
         IN  /\ g \in [Slots -> RuntimeState]
             /\ \A t \in Slots : /\ g[t].steamId = f[t].steamId
                                 /\ g[t].appliedSteamId = f[t].appliedSteamId
BY DEF RuntimeState

LEMMA DisownedEffect ==
  ASSUME NEW f \in [Slots -> RuntimeState], NEW s \in Slots
  PROVE  LET g == [f EXCEPT ![s].appliedSteamId = NoSid]
         IN  /\ g \in [Slots -> RuntimeState]
             /\ g[s].appliedSteamId = NoSid
             /\ \A t \in Slots : g[t].steamId = f[t].steamId
             /\ \A t \in Slots \ {s} : g[t].appliedSteamId = f[t].appliedSteamId
BY DEF RuntimeState

\* A write that the engine lets through moves the row's ownership to s.
LEMMA WriteEffect ==
  ASSUME NEW p \in Progress, NEW s \in Slots, NEW sid \in Sids, NEW data \in Data, NEW fault,
         p.published[s] = NoSid
  PROVE  LET r == WriteOverride(p, s, sid, data, fault)
         IN  /\ Local(s, p, r)
             /\ \/ /\ r.published[s] = NoSid /\ r.rows = p.rows
                   /\ \A t \in Slots : r.states[t].appliedSteamId = p.states[t].appliedSteamId
                \/ /\ r.published[s] = sid
                   /\ r.states[s].appliedSteamId = sid
                   /\ \A t \in Slots \ {s} :
                        r.states[t].appliedSteamId =
                          IF p.states[t].appliedSteamId = sid THEN NoSid
                          ELSE p.states[t].appliedSteamId
                   /\ BytesIn(r.rows, sid) = data
                   /\ \A k \in Sids : k # sid => BytesIn(r.rows, k) = BytesIn(p.rows, k)
<1> DEFINE set == SetAvatarOverride(p.rows, sid, data)
           r == WriteOverride(p, s, sid, data, fault)
<1>1. CASE fault = "set" \/ ~set.ok
  <2>1. r = Retry(p, s)
    BY <1>1 DEF WriteOverride
  <2> HIDE DEF r
  <2> QED
    BY <2>1, RetryEffect DEF r
<1>2. CASE ~(fault = "set" \/ ~set.ok)
  <2>1. /\ IsTable(set.rows) /\ BytesIn(set.rows, sid) = data
        /\ \A k \in Sids : k # sid => BytesIn(set.rows, k) = BytesIn(p.rows, k)
    BY <1>2, SetsOneSid DEF Progress
  <2> HIDE DEF set
  <2> DEFINE moved == TransferOwnership(p.states, s, sid)
  <2>2. /\ moved \in [Slots -> RuntimeState] /\ moved[s].appliedSteamId = sid
        /\ \A t \in Slots : moved[t].steamId = p.states[t].steamId
        /\ \A t \in Slots \ {s} :
             moved[t].appliedSteamId = IF p.states[t].appliedSteamId = sid THEN NoSid
                                       ELSE p.states[t].appliedSteamId
    BY DEF TransferOwnership, Progress, RuntimeState
  <2>3. r = [states |-> [moved EXCEPT ![s].processed = TRUE],
             published |-> [p.published EXCEPT ![s] = sid],
             rows |-> set.rows]
    BY <1>2 DEF WriteOverride, set
  <2> HIDE DEF moved, r
  <2>4. /\ r.states \in [Slots -> RuntimeState]
        /\ \A t \in Slots : /\ r.states[t].steamId = moved[t].steamId
                            /\ r.states[t].appliedSteamId = moved[t].appliedSteamId
    <3>1. r.states = [moved EXCEPT ![s].processed = TRUE]
      BY <2>3
    <3> QED
      BY <2>2, <3>1, ProcessedEffect
  <2>5. /\ r.published \in [Slots -> Sids \cup {NoSid}] /\ r.published[s] = sid
        /\ \A t \in Slots \ {s} : r.published[t] = p.published[t]
    BY <2>3 DEF Progress
  <2>6. r \in Progress
    BY <2>1, <2>3, <2>4, <2>5 DEF Progress, IsTable
  <2>7. r.rows = set.rows
    BY <2>3
  <2> QED
    BY <2>1, <2>2, <2>4, <2>5, <2>6, <2>7 DEF Local, r
<1> QED
  BY <1>1, <1>2

\* A slot first gives up the row it owns under another SteamID.
LEMMA RequestEffect ==
  ASSUME NEW p \in Progress, NEW s \in Slots, NEW sid \in Sids \cup {NoSid}, NEW data \in Data,
         NEW fault, p.published[s] = NoSid
  PROVE  LET r == ProcessRequest(p, s, sid, data, fault)
         IN  Local(s, p, r) /\ Outcome(s, sid, data, p.states, p.rows, r)
<1> DEFINE owned == p.states[s].appliedSteamId
           stale == owned # NoSid /\ owned # sid
           cleared == ClearAvatarOverride(p.rows, owned)
           q == IF stale THEN [p EXCEPT !.states[s].appliedSteamId = NoSid, !.rows = cleared.rows]
                ELSE p
           r == ProcessRequest(p, s, sid, data, fault)
<1>1. CASE stale /\ (fault = "clear" \/ ~cleared.ok)
  <2>1. r = Retry(p, s)
    BY <1>1 DEF ProcessRequest
  <2> HIDE DEF r
  <2> QED
    BY <2>1, RetryEffect DEF Outcome, GivesUp, r
<1>2. CASE ~(stale /\ (fault = "clear" \/ ~cleared.ok))
  <2>1. r = IF sid = NoSid THEN [q EXCEPT !.states[s].processed = TRUE]
            ELSE WriteOverride(q, s, sid, data, fault)
    BY <1>2 DEF ProcessRequest
  <2>2. /\ Local(s, p, q) /\ q.published[s] = NoSid
        /\ q.states[s].appliedSteamId \in {NoSid, sid}
        /\ \A t \in Slots \ {s} : q.states[t].appliedSteamId = p.states[t].appliedSteamId
        /\ GivesUp(s, p.states, p.rows, q.states, q.rows)
    <3>1. CASE ~stale
      <4>1. q = p
        BY <3>1
      <4> HIDE DEF q
      <4> QED
        BY <3>1, <4>1 DEF Local, GivesUp
    <3>2. CASE stale
      <4>1. /\ IsTable(cleared.rows) /\ BytesIn(cleared.rows, owned) = 0
            /\ \A k : k # owned => BytesIn(cleared.rows, k) = BytesIn(p.rows, k)
        BY <1>2, <3>2, ClearsOneSid DEF Progress
      <4>2. q = [p EXCEPT !.states[s].appliedSteamId = NoSid, !.rows = cleared.rows]
        BY <3>2
      <4> HIDE DEF q, cleared
      <4>3. /\ q \in Progress /\ q.rows = cleared.rows /\ q.published = p.published
            /\ q.states[s].appliedSteamId = NoSid
            /\ \A t \in Slots : q.states[t].steamId = p.states[t].steamId
            /\ \A t \in Slots \ {s} : q.states[t].appliedSteamId = p.states[t].appliedSteamId
        <5>1. /\ q = [states |-> [p.states EXCEPT ![s].appliedSteamId = NoSid],
                      published |-> p.published, rows |-> cleared.rows]
              /\ p.states \in [Slots -> RuntimeState]
          BY <4>2 DEF Progress
        <5>2. q.states = [p.states EXCEPT ![s].appliedSteamId = NoSid]
          BY <5>1
        <5>3. /\ q.states \in [Slots -> RuntimeState]
              /\ q.states[s].appliedSteamId = NoSid
              /\ \A t \in Slots : q.states[t].steamId = p.states[t].steamId
              /\ \A t \in Slots \ {s} : q.states[t].appliedSteamId = p.states[t].appliedSteamId
          BY <5>1, <5>2, DisownedEffect
        <5> QED
          BY <4>1, <5>1, <5>3 DEF Progress, IsTable
      <4> QED
        BY <3>2, <4>1, <4>3 DEF Local, GivesUp
    <3> QED
      BY <3>1, <3>2
  <2> HIDE DEF q, r
  <2>3. CASE sid = NoSid
    <3>1. r = [q EXCEPT !.states[s].processed = TRUE]
      BY <2>1, <2>3
    <3>2. /\ r \in Progress /\ r.rows = q.rows /\ r.published = q.published
          /\ \A t \in Slots : /\ r.states[t].steamId = q.states[t].steamId
                              /\ r.states[t].appliedSteamId = q.states[t].appliedSteamId
      <4>1. /\ r = [states |-> [q.states EXCEPT ![s].processed = TRUE],
                    published |-> q.published, rows |-> q.rows]
            /\ q \in Progress /\ q.states \in [Slots -> RuntimeState]
        BY <2>2, <3>1 DEF Local, Progress
      <4>2. r.states = [q.states EXCEPT ![s].processed = TRUE]
        BY <4>1
      <4>3. /\ r.states \in [Slots -> RuntimeState]
            /\ \A t \in Slots : /\ r.states[t].steamId = q.states[t].steamId
                                /\ r.states[t].appliedSteamId = q.states[t].appliedSteamId
        BY <4>1, <4>2, ProcessedEffect
      <4> QED
        BY <4>1, <4>3 DEF Progress
    <3> QED
      BY <2>2, <3>2 DEF Local, Outcome, GivesUp, r
  <2>4. CASE sid # NoSid
    <3>1. r = WriteOverride(q, s, sid, data, fault) /\ sid \in Sids /\ q \in Progress
      BY <2>1, <2>2, <2>4 DEF Local
    <3>2. /\ Local(s, q, r)
          /\ \/ /\ r.published[s] = NoSid /\ r.rows = q.rows
                /\ \A t \in Slots : r.states[t].appliedSteamId = q.states[t].appliedSteamId
             \/ /\ r.published[s] = sid
                /\ r.states[s].appliedSteamId = sid
                /\ \A t \in Slots \ {s} :
                     r.states[t].appliedSteamId =
                       IF q.states[t].appliedSteamId = sid THEN NoSid
                       ELSE q.states[t].appliedSteamId
                /\ BytesIn(r.rows, sid) = data
                /\ \A k \in Sids : k # sid => BytesIn(r.rows, k) = BytesIn(q.rows, k)
      BY <2>2, <3>1, WriteEffect
    <3>3. Local(s, p, r)
      BY <2>2, <3>2 DEF Local
    <3>4. CASE /\ r.published[s] = NoSid /\ r.rows = q.rows
               /\ \A t \in Slots : r.states[t].appliedSteamId = q.states[t].appliedSteamId
      BY <2>2, <3>3, <3>4 DEF Outcome, GivesUp, r
    <3>5. CASE /\ r.published[s] = sid
               /\ r.states[s].appliedSteamId = sid
               /\ \A t \in Slots \ {s} :
                    r.states[t].appliedSteamId =
                      IF q.states[t].appliedSteamId = sid THEN NoSid
                      ELSE q.states[t].appliedSteamId
               /\ BytesIn(r.rows, sid) = data
               /\ \A k \in Sids : k # sid => BytesIn(r.rows, k) = BytesIn(q.rows, k)
      <4>1. \A k \in Sids \ {sid} :
              BytesIn(r.rows, k) = IF k = owned THEN 0 ELSE BytesIn(p.rows, k)
        BY <2>2, <3>5, AvatarAssumption DEF GivesUp
      <4>2. TakesOver(s, sid, data, p.states, p.rows, r.states, r.rows)
        BY <2>2, <3>5, <4>1 DEF TakesOver
      <4> QED
        BY <3>1, <3>3, <3>5, <4>2 DEF Outcome, r
    <3> QED
      BY <3>2, <3>4, <3>5
  <2> QED
    BY <2>3, <2>4
<1> QED
  BY <1>1, <1>2
\* Either way a row with bytes has one owner.
LEMMA OutcomeKeepsOwners ==
  ASSUME NEW states, NEW rows, NEW s \in Slots, NEW sid, NEW data, NEW r,
         OneOwner(states), Outcome(s, sid, data, states, rows, r)
  PROVE  OneOwner(r.states) /\ (BytesOwned(states, rows) => BytesOwned(r.states, r.rows))
<1> DEFINE own == states[s].appliedSteamId
<1>1. NoSid \notin Sids
  BY AvatarAssumption
<1>2. CASE /\ \A t \in Slots \ {s} : r.states[t].appliedSteamId = states[t].appliedSteamId
           /\ GivesUp(s, states, rows, r.states, r.rows)
  <2>1. OneOwner(r.states)
    BY <1>2 DEF OneOwner, GivesUp
  <2>2. ASSUME BytesOwned(states, rows), NEW k \in Sids, BytesIn(r.rows, k) # 0
        PROVE  \E t \in Slots : r.states[t].appliedSteamId = k
    <3>1. BytesIn(r.rows, k) = BytesIn(rows, k)
      BY <1>2, <2>2 DEF GivesUp
    <3>2. PICK t \in Slots : states[t].appliedSteamId = k
      BY <2>2, <3>1 DEF BytesOwned
    <3> QED
      BY <1>2, <2>2, <3>2 DEF GivesUp
  <2> QED
    BY <2>1, <2>2 DEF BytesOwned
<1>3. CASE sid \in Sids /\ TakesOver(s, sid, data, states, rows, r.states, r.rows)
  <2>1. OneOwner(r.states)
    BY <1>1, <1>3 DEF OneOwner, TakesOver
  <2>2. ASSUME BytesOwned(states, rows), NEW k \in Sids, BytesIn(r.rows, k) # 0
        PROVE  \E t \in Slots : r.states[t].appliedSteamId = k
    <3>1. CASE k = sid
      BY <1>3, <3>1 DEF TakesOver
    <3>2. CASE k # sid
      <4>1. k # own /\ BytesIn(r.rows, k) = BytesIn(rows, k)
        BY <1>3, <2>2, <3>2 DEF TakesOver
      <4>2. PICK t \in Slots : states[t].appliedSteamId = k
        BY <2>2, <4>1 DEF BytesOwned
      <4> QED
        BY <1>3, <3>2, <4>1, <4>2 DEF TakesOver
    <3> QED
      BY <3>1, <3>2
  <2> QED
    BY <2>1, <2>2 DEF BytesOwned
<1> QED
  BY <1>2, <1>3 DEF Outcome

\* What the manager wants for a slot is nothing or the SteamID of its bot.
LEMMA WantedSidType ==
  ASSUME IndInv, NEW s \in Slots
  PROVE  /\ WantedSid(s) \in Sids \cup {NoSid}
         /\ WantedSid(s) # NoSid =>
              /\ Managed(s) /\ WantedSid(s) = steamId[s]
              /\ request[s].data # 0 /\ request[s].incarnation = incarnation[s]
BY DEF WantedSid, IndInv, SidsApart, Managed

\* One turn of the loop, seen from the state before it.
LEMMA TurnEffect ==
  ASSUME IndInv, NEW s \in Slots, NEW fault
  PROVE  LET p == ProcessSlot(s, fault)
         IN  /\ p \in Progress
             /\ \A t \in Slots \ {s} : /\ p.published[t] = avatarSteamId[t]
                                       /\ p.states[t].steamId = g_avatarStates[t].steamId
             /\ p.states[s].steamId = WantedSid(s)
             /\ Outcome(s, WantedSid(s), request[s].data, g_avatarStates, table, p)
<1> DEFINE sid == WantedSid(s)
           state == IF Changed(s)
                      THEN [g_avatarStates[s] EXCEPT !.seen = TRUE, !.steamId = sid,
                                                     !.processed = FALSE, !.waiting = FALSE]
                      ELSE g_avatarStates[s]
           base == [states |-> [g_avatarStates EXCEPT ![s] = state],
                    published |-> [avatarSteamId EXCEPT ![s] = NoSid],
                    rows |-> table]
           p == ProcessSlot(s, fault)
<1>1. sid \in Sids \cup {NoSid}
  BY WantedSidType
<1>2. /\ g_avatarStates \in [Slots -> RuntimeState] /\ g_avatarStates[s] \in RuntimeState
      /\ avatarSteamId \in [Slots -> Sids \cup {NoSid}] /\ IsTable(table)
      /\ request[s].data \in Data
  BY DEF IndInv, TypeOK, Request
<1>3. /\ state \in RuntimeState /\ state.steamId = sid
      /\ state.appliedSteamId = g_avatarStates[s].appliedSteamId
  <2>1. CASE Changed(s)
    BY <1>1, <1>2, <2>1 DEF RuntimeState
  <2>2. CASE ~Changed(s)
    BY <1>2, <2>2 DEF Changed
  <2> QED
    BY <2>1, <2>2
<1>4. p = ProcessRequest(base, s, sid, request[s].data, fault)
  BY DEF ProcessSlot
<1> HIDE DEF state
<1>5. /\ base \in Progress /\ base.published[s] = NoSid /\ base.rows = table
      /\ base.states[s] = state
      /\ \A t \in Slots \ {s} : /\ base.states[t] = g_avatarStates[t]
                                /\ base.published[t] = avatarSteamId[t]
  BY <1>2, <1>3 DEF Progress, IsTable
<1> HIDE DEF base, p, sid
<1>6. Local(s, base, p) /\ Outcome(s, sid, request[s].data, base.states, base.rows, p)
  BY <1>1, <1>2, <1>4, <1>5, RequestEffect
<1>7. /\ p \in Progress
      /\ \A t \in Slots \ {s} : /\ p.published[t] = avatarSteamId[t]
                                /\ p.states[t].steamId = g_avatarStates[t].steamId
      /\ p.states[s].steamId = sid
  BY <1>3, <1>5, <1>6 DEF Local
<1>8. \A t \in Slots : base.states[t].appliedSteamId = g_avatarStates[t].appliedSteamId
  BY <1>3, <1>5
<1>9. Outcome(s, sid, request[s].data, g_avatarStates, table, p)
  BY <1>5, <1>6, <1>8 DEF Outcome, GivesUp, TakesOver
<1> QED
  BY <1>7, <1>9 DEF p, sid
-------------------------------------------------------------------------------
\* An avatar is handed over to the slots of a round of the loop one by one; those
\* that still wait for their turn keep what they publish until then.
LEMMA TurnKeepsPublished ==
  ASSUME IndInv, NEW s \in Slots, NEW fault, caller # "none", turn = s,
         Pending(s), turn' = s + 1,
         g_avatarStates' = ProcessSlot(s, fault).states,
         avatarSteamId' = ProcessSlot(s, fault).published,
         table' = ProcessSlot(s, fault).rows,
         UNCHANGED << caller, managerVars >>
  PROVE  Published'
<1> DEFINE p == ProcessSlot(s, fault)
           sid == WantedSid(s)
           own == g_avatarStates[s].appliedSteamId
<1>1. /\ p \in Progress
      /\ \A t \in Slots \ {s} : /\ p.published[t] = avatarSteamId[t]
                                /\ p.states[t].steamId = g_avatarStates[t].steamId
      /\ p.states[s].steamId = sid
      /\ Outcome(s, sid, request[s].data, g_avatarStates, table, p)
  BY TurnEffect
<1>2. g_avatarStates' = p.states /\ avatarSteamId' = p.published /\ table' = p.rows
  OBVIOUS
<1>3. NoSid \notin Sids /\ s \in Nat /\ Slots \subseteq Nat
  BY AvatarAssumption DEF Slots
<1>4. \A t \in Slots : Managed(t)' <=> Managed(t)
  BY DEF Managed, managerVars
<1> HIDE DEF p, sid
<1>5. ASSUME NEW t \in Slots, t # s, avatarSteamId'[t] # NoSid
      PROVE  /\ g_avatarStates'[t].steamId = avatarSteamId'[t]
             /\ Managed(t)' /\ request'[t].data # 0 /\ request'[t].incarnation = incarnation'[t]
             /\ IsApplied(t)'
             /\ caller' # "none" /\ t < turn' => steamId'[t] = avatarSteamId'[t]
  <2> DEFINE x == avatarSteamId[t]
  <2>1. /\ avatarSteamId'[t] = x /\ x # NoSid /\ x \in Sids
        /\ g_avatarStates'[t].steamId = g_avatarStates[t].steamId
    BY <1>1, <1>2, <1>5 DEF IndInv, TypeOK
  <2>2. /\ g_avatarStates[t].steamId = x
        /\ Managed(t) /\ request[t].data # 0 /\ request[t].incarnation = incarnation[t]
        /\ IsApplied(t)
        /\ t < turn => steamId[t] = x
    BY <2>1 DEF IndInv, Published
  <2>3. t < turn' <=> t < turn
    BY <1>3, <1>5
  <2>4. turn <= t <=> turn' <= t
    BY <1>3, <1>5
  <2>5. IsApplied(t)'
    <3>1. CASE turn <= t /\ steamId[t] # x
      BY <2>1, <2>4, <3>1 DEF IsApplied, managerVars
    <3>2. CASE /\ steamId[t] = x
               /\ g_avatarStates[t].appliedSteamId = x
               /\ BytesIn(table, x) = request[t].data
      <4>1. own # x
        BY <1>5, <2>1, <3>2 DEF IndInv, OneOwner
      <4>2. sid # x
        BY <1>5, <2>1, <2>2, <3>2, WantedSidType DEF IndInv, SidsApart, sid
      <4>3. /\ p.states[t].appliedSteamId = x
            /\ BytesIn(p.rows, x) = BytesIn(table, x)
        <5>1. CASE GivesUp(s, g_avatarStates, table, p.states, p.rows) /\
                   \A u \in Slots \ {s} :
                     p.states[u].appliedSteamId = g_avatarStates[u].appliedSteamId
          BY <1>5, <2>1, <3>2, <4>1, <5>1 DEF GivesUp
        <5>2. CASE TakesOver(s, sid, request[s].data, g_avatarStates, table, p.states, p.rows)
          BY <1>5, <2>1, <3>2, <4>1, <4>2, <5>2 DEF TakesOver
        <5> QED
          BY <1>1, <5>1, <5>2 DEF Outcome
      <4> QED
        BY <1>2, <2>1, <3>2, <4>3 DEF IsApplied, managerVars
    <3>3. CASE /\ steamId[t] # x /\ t < turn
      BY <2>2, <3>3
    <3>4. turn <= t \/ t < turn
      BY <1>3
    <3>5. CASE /\ turn <= t
               /\ g_avatarStates[t].appliedSteamId = x
               /\ BytesIn(table, x) = request[t].data
      BY <3>1, <3>2, <3>5
    <3> QED
      BY <2>2, <3>1, <3>2, <3>3, <3>4 DEF IsApplied
  <2> QED
    BY <1>4, <2>1, <2>2, <2>3, <2>5 DEF managerVars
<1>6. ASSUME avatarSteamId'[s] # NoSid
      PROVE  /\ g_avatarStates'[s].steamId = avatarSteamId'[s]
             /\ Managed(s)' /\ request'[s].data # 0 /\ request'[s].incarnation = incarnation'[s]
             /\ IsApplied(s)'
             /\ caller' # "none" /\ s < turn' => steamId'[s] = avatarSteamId'[s]
  <2>1. /\ sid \in Sids /\ avatarSteamId'[s] = sid
        /\ p.states[s].appliedSteamId = sid /\ BytesIn(p.rows, sid) = request[s].data
    BY <1>1, <1>2, <1>6 DEF Outcome, TakesOver
  <2>2. Managed(s) /\ sid = steamId[s] /\ request[s].data # 0 /\ request[s].incarnation = incarnation[s]
    BY <1>3, <2>1, WantedSidType DEF sid
  <2>3. IsApplied(s)'
    BY <1>2, <2>1 DEF IsApplied, managerVars
  <2> QED
    BY <1>1, <1>2, <1>4, <2>1, <2>2, <2>3 DEF managerVars
<1> QED
  BY <1>5, <1>6 DEF Published

\* The turn of one slot.
LEMMA TurnKeepsInv ==
  ASSUME IndInv, NEW s \in Slots, NEW fault \in {"none", "clear", "set"}, ProcessTurn(s, fault)
  PROVE  IndInv'
<1> DEFINE p == ProcessSlot(s, fault)
<1>1. /\ caller # "none" /\ turn = s /\ turn' = s + 1
      /\ UNCHANGED << caller, managerVars, bridgeVars, tableSeen, level, validFrom >>
  BY DEF ProcessTurn
<1>2. s \in Nat /\ s + 1 \in 0 .. kMaxSlots /\ Slots \subseteq Nat
  BY AvatarAssumption DEF Slots
<1>3. SidsApart' /\ ReadsInTime' /\ ReadsReachTheirBot'
  BY <1>1 DEF IndInv, SidsApart, ReadsInTime, ReadsReachTheirBot, Managed, ForThisBot,
              managerVars, bridgeVars
<1>4. tableSeen
  BY <1>1 DEF IndInv, UnseenTableIsClean
<1>5. UnseenTableIsClean'
  BY <1>1, <1>4 DEF UnseenTableIsClean
<1>6. CASE Pending(s) /\ g_avatarStates' = p.states /\ avatarSteamId' = p.published
           /\ table' = p.rows
  <2>1. Published'
    BY <1>1, <1>6, TurnKeepsPublished
  <2>2. p \in Progress /\ Outcome(s, WantedSid(s), request[s].data, g_avatarStates, table, p)
    BY TurnEffect
  <2> HIDE DEF p
  <2>3. /\ g_avatarStates' \in [Slots -> RuntimeState]
        /\ avatarSteamId' \in [Slots -> Sids \cup {NoSid}] /\ IsTable(table')
    BY <1>6, <2>2 DEF Progress
  <2>4. \A i \in 1 .. Len(table') : table'[i].data \in Data /\ table'[i].key # NoSid
    BY <2>3, TableKeys
  <2>5. TypeOK'
    BY <1>1, <1>2, <2>3, <2>4 DEF IndInv, TypeOK, managerVars, bridgeVars
  <2>6. /\ OneOwner(p.states)
        /\ BytesOwned(g_avatarStates, table) => BytesOwned(p.states, p.rows)
    BY <2>2, OutcomeKeepsOwners DEF IndInv
  <2>7. OneOwner(g_avatarStates)'
    BY <1>6, <2>6 DEF OneOwner
  <2>8. level' = "up" => BytesOwned(g_avatarStates, table)'
    BY <1>1, <1>6, <2>6 DEF IndInv, BytesOwned
  <2> QED
    BY <1>3, <1>5, <2>1, <2>3, <2>5, <2>7, <2>8 DEF IndInv
<1>7. CASE ~Pending(s) /\ UNCHANGED << g_avatarStates, avatarSteamId, table >>
  <2>1. TypeOK'
    BY <1>1, <1>2, <1>7 DEF IndInv, TypeOK, managerVars, bridgeVars
  <2>2. OneOwner(g_avatarStates)' /\ IsTable(table)'
    BY <1>7 DEF IndInv, OneOwner, IsTable
  <2>3. level' = "up" => BytesOwned(g_avatarStates, table)'
    BY <1>1, <1>7 DEF IndInv, BytesOwned, BytesIn, Keys, FindStringIndex
  <2>4. avatarSteamId[s] # NoSid => steamId[s] = avatarSteamId[s]
    BY <1>7, WantedSidType DEF Pending, Changed, IndInv, Published
  <2>5. ASSUME NEW t \in Slots, avatarSteamId[t] # NoSid
        PROVE  /\ IsApplied(t)'
               /\ t < turn' => steamId[t] = avatarSteamId[t]
    <3>1. IsApplied(t) /\ (t < turn => steamId[t] = avatarSteamId[t])
      BY <1>1, <2>5 DEF IndInv, Published
    <3>2. t < turn' => t = s \/ t < turn
      BY <1>1, <1>2
    <3>3. turn <= t => t = s \/ turn' <= t
      BY <1>1, <1>2
    <3>4. IsApplied(t)'
      <4> DEFINE x == avatarSteamId[t]
      <4>1. avatarSteamId' = avatarSteamId /\ table' = table /\ g_avatarStates' = g_avatarStates
            /\ request' = request /\ steamId' = steamId /\ caller' = caller /\ caller # "none"
        BY <1>1, <1>7 DEF managerVars
      <4>2. CASE turn <= t /\ steamId[t] # x
        <5>1. turn' <= t
          BY <2>4, <2>5, <3>3, <4>2
        <5> QED
          BY <4>1, <4>2, <5>1 DEF IsApplied
      <4>3. CASE g_avatarStates[t].appliedSteamId = x /\ BytesIn(table, x) = request[t].data
        BY <4>1, <4>3 DEF IsApplied
      <4> QED
        BY <3>1, <4>2, <4>3 DEF IsApplied
    <3> QED
      BY <2>4, <2>5, <3>1, <3>2, <3>4
  <2>6. Published'
    BY <1>1, <1>7, <2>5 DEF IndInv, Published, Managed, managerVars
  <2> QED
    BY <1>3, <1>5, <2>1, <2>2, <2>3, <2>6 DEF IndInv
<1> QED
  BY <1>6, <1>7 DEF ProcessTurn
-------------------------------------------------------------------------------
\* Between the rounds of the loop, what a slot publishes is in the table.
LEMMA PublishedKept ==
  ASSUME IndInv, Idle \/ turn = kMaxSlots,
         caller' # "none" => turn' = 0,
         \A t \in Slots : avatarSteamId'[t] # NoSid =>
           /\ avatarSteamId'[t] = avatarSteamId[t]
           /\ g_avatarStates'[t].steamId = g_avatarStates[t].steamId
           /\ g_avatarStates'[t].appliedSteamId = g_avatarStates[t].appliedSteamId
           /\ request'[t] = request[t] /\ incarnation'[t] = incarnation[t]
           /\ table' = table
  PROVE  Published'
<1> SUFFICES ASSUME NEW t \in Slots, avatarSteamId'[t] # NoSid
             PROVE  /\ g_avatarStates'[t].steamId = avatarSteamId'[t]
                    /\ incarnation'[t] # 0 /\ request'[t].data # 0
                    /\ request'[t].incarnation = incarnation'[t]
                    /\ g_avatarStates'[t].appliedSteamId = avatarSteamId'[t]
                    /\ BytesIn(table', avatarSteamId'[t]) = request'[t].data
                    /\ caller' # "none" => ~(t < turn')
  BY DEF Published, Managed, IsApplied, BytesIn, Keys, FindStringIndex
<1> DEFINE x == avatarSteamId[t]
<1>1. /\ avatarSteamId'[t] = x /\ x # NoSid
      /\ g_avatarStates'[t].steamId = g_avatarStates[t].steamId
      /\ g_avatarStates'[t].appliedSteamId = g_avatarStates[t].appliedSteamId
      /\ request'[t] = request[t] /\ incarnation'[t] = incarnation[t] /\ table' = table
  OBVIOUS
<1>2. t \in Nat /\ t < kMaxSlots
  BY AvatarAssumption DEF Slots
<1>3. /\ g_avatarStates[t].steamId = x /\ incarnation[t] # 0
      /\ request[t].data # 0 /\ request[t].incarnation = incarnation[t]
      /\ IsApplied(t)
  BY <1>1 DEF IndInv, Published, Managed
<1>4. ~(caller # "none" /\ turn <= t)
  BY <1>2, AvatarAssumption DEF Idle
<1>5. g_avatarStates[t].appliedSteamId = x /\ BytesIn(table, x) = request[t].data
  BY <1>3, <1>4 DEF IsApplied
<1> QED
  BY <1>1, <1>2, <1>3, <1>5

\* The rows depend only on what slots own.
LEMMA SameOwners ==
  ASSUME NEW f, NEW g, \A s \in Slots : g[s].appliedSteamId = f[s].appliedSteamId
  PROVE  /\ OneOwner(f) => OneOwner(g)
         /\ \A rows : BytesOwned(f, rows) => BytesOwned(g, rows)
BY DEF OneOwner, BytesOwned

LEMMA NoOwners ==
  LET fresh == [s \in Slots |-> FreshState]
  IN  /\ fresh \in [Slots -> RuntimeState] /\ OneOwner(fresh)
      /\ [s \in Slots |-> NoSid] \in [Slots -> Sids \cup {NoSid}]
BY DEF FreshState, RuntimeState, OneOwner

\* A new request of a slot changes nothing of what it owns.
LEMMA UnseenEffect ==
  ASSUME IndInv, NEW slots
  PROVE  /\ Unseen(slots) \in [Slots -> RuntimeState]
         /\ \A s \in Slots :
              /\ Unseen(slots)[s].appliedSteamId = g_avatarStates[s].appliedSteamId
              /\ Unseen(slots)[s].steamId = g_avatarStates[s].steamId
         /\ OneOwner(Unseen(slots))
         /\ BytesOwned(g_avatarStates, table) => BytesOwned(Unseen(slots), table)
<1>1. g_avatarStates \in [Slots -> RuntimeState]
  BY DEF IndInv, TypeOK
<1>2. /\ Unseen(slots) \in [Slots -> RuntimeState]
      /\ \A s \in Slots :
           /\ Unseen(slots)[s].appliedSteamId = g_avatarStates[s].appliedSteamId
           /\ Unseen(slots)[s].steamId = g_avatarStates[s].steamId
  BY <1>1 DEF Unseen, RuntimeState
<1> QED
  BY <1>2, SameOwners DEF IndInv

\* The invariant speaks of the table's bytes and owners in these terms.
TableInv ==
  /\ IsTable(table)
  /\ OneOwner(g_avatarStates)
  /\ level = "up" => BytesOwned(g_avatarStates, table)
  /\ UnseenTableIsClean

\* Steps that leave the table and what slots own alone.
LEMMA TableInvKept ==
  ASSUME IndInv, UNCHANGED << tableSeen, table, level >>,
         caller' # "none" => tableSeen,
         \A s \in Slots : g_avatarStates'[s].appliedSteamId = g_avatarStates[s].appliedSteamId
  PROVE  TableInv'
<1>1. OneOwner(g_avatarStates') /\ \A rows : BytesOwned(g_avatarStates, rows) => BytesOwned(g_avatarStates', rows)
  BY SameOwners DEF IndInv
<1>2. IsTable(table') /\ OneOwner(g_avatarStates')
  BY <1>1 DEF IndInv
<1>3. level' = "up" => BytesOwned(g_avatarStates', table')
  BY <1>1 DEF IndInv
<1>4. UnseenTableIsClean'
  BY DEF IndInv, UnseenTableIsClean, BytesIn, Keys, FindStringIndex
<1> QED
  BY <1>2, <1>3, <1>4 DEF TableInv, IsTable, OneOwner, BytesOwned, BytesIn, Keys, FindStringIndex

\* The head of ProcessOverrides.
LEMMA RoundBegins ==
  ASSUME IndInv, NEW name \in {"frame", "changelevel", "shutdown"},
         NEW states \in [Slots -> RuntimeState], NEW published \in [Slots -> Sids \cup {NoSid}],
         \A s \in Slots : states[s].appliedSteamId = g_avatarStates[s].appliedSteamId,
         ProcessOverrides(name, states, published), UNCHANGED << table, level >>
  PROVE  /\ TableInv'
         /\ g_avatarStates' \in [Slots -> RuntimeState]
         /\ avatarSteamId' \in [Slots -> Sids \cup {NoSid}]
         /\ caller' \in {"none", "frame", "changelevel", "shutdown"}
         /\ turn' = 0 /\ turn' \in 0 .. kMaxSlots /\ tableSeen'
<1>1. /\ caller' = name /\ turn' = 0 /\ tableSeen'
      /\ g_avatarStates' = IF tableSeen THEN states ELSE [s \in Slots |-> FreshState]
      /\ avatarSteamId' = IF tableSeen THEN published ELSE [s \in Slots |-> NoSid]
  BY DEF ProcessOverrides
<1>2. /\ g_avatarStates' \in [Slots -> RuntimeState]
      /\ avatarSteamId' \in [Slots -> Sids \cup {NoSid}]
  BY <1>1, NoOwners
<1>3. OneOwner(g_avatarStates') /\ (level = "up" => BytesOwned(g_avatarStates', table))
  <2>1. CASE tableSeen
    BY <1>1, <2>1, SameOwners DEF IndInv
  <2>2. CASE ~tableSeen
    <3>1. g_avatarStates' = [s \in Slots |-> FreshState]
      BY <1>1, <2>2
    <3>2. level = "up" => \A sid \in Sids : BytesIn(table, sid) = 0
      BY <2>2 DEF IndInv, UnseenTableIsClean
    <3> QED
      BY <3>1, <3>2, NoOwners DEF BytesOwned
  <2> QED
    BY <2>1, <2>2
<1>4. UnseenTableIsClean'
  BY <1>1 DEF UnseenTableIsClean
<1>5. IsTable(table')
  BY DEF IndInv
<1>6. TableInv'
  BY <1>3, <1>4, <1>5
  DEF TableInv, IsTable, OneOwner, BytesOwned, BytesIn, Keys, FindStringIndex
<1> QED
  BY <1>1, <1>2, <1>6, AvatarAssumption
\* What the invariant says of bots and their reads.
BotsInv == SidsApart /\ ReadsInTime /\ ReadsReachTheirBot

LEMMA InvSplits ==
  TypeOK /\ TableInv /\ BotsInv /\ Published => IndInv
BY DEF IndInv, TableInv, BotsInv

LEMMA NextInvSplits ==
  TypeOK' /\ TableInv' /\ BotsInv' /\ Published' => IndInv'
BY DEF IndInv, TableInv, BotsInv

\* A step that touches neither the bots nor their reads.
LEMMA BotsInvKept ==
  ASSUME IndInv, UNCHANGED << managerVars, bridgeVars, validFrom >>
  PROVE  BotsInv'
BY DEF IndInv, BotsInv, SidsApart, ReadsInTime, ReadsReachTheirBot, Managed, ForThisBot,
       managerVars, bridgeVars

-------------------------------------------------------------------------------
\* No bot, no read, and a table as the engine made it.
LEMMA InitEstablishesInv ==
  Init => IndInv
<1> SUFFICES ASSUME Init PROVE IndInv
  OBVIOUS
<1>1. 0 \in Data /\ 0 \in Incarnations /\ kMaxSlots \in 0 .. kMaxSlots /\ 0 \in 0 .. MaxMoves
      /\ 1 \in 1 .. MaxAsks + 1 /\ 0 \in 0 .. MaxAsks
  BY AvatarAssumption DEF Data, Incarnations
<1>2. IsTable(table) /\ \A sid \in Sids : BytesIn(table, sid) = 0
  BY FreshTableIsClean DEF Init
<1>4. TypeOK
  <2>1. g_avatarStates \in [Slots -> RuntimeState] /\ avatarSteamId \in [Slots -> Sids \cup {NoSid}]
    BY NoOwners DEF Init
  <2>2. request \in [Slots -> Request] /\ m_avatarReads \in [Slots -> Read]
    BY <1>1 DEF Init, NoRequest, Request, NoRead, Read
  <2> QED
    BY <1>1, <1>2, <2>1, <2>2, TableKeys DEF Init, TypeOK
<1>5. TableInv
  BY <1>2, NoOwners DEF Init, TableInv, BytesOwned, UnseenTableIsClean
<1>6. BotsInv
  BY <1>1, AvatarAssumption
  DEF Init, BotsInv, SidsApart, ReadsInTime, ReadsReachTheirBot, Managed, ForThisBot,
      NoRead, NoRequest
<1>7. Published
  BY DEF Init, Published
<1> QED
  BY <1>4, <1>5, <1>6, <1>7, InvSplits

\* A frame starts a round over the slots.
LEMMA GameFrameKeepsInv ==
  ASSUME IndInv, GameFrame
  PROVE  IndInv'
<1>1. /\ Idle /\ ProcessOverrides("frame", g_avatarStates, avatarSteamId)
      /\ UNCHANGED << table, managerVars, bridgeVars, level, validFrom >>
  BY DEF GameFrame
<1>2. g_avatarStates \in [Slots -> RuntimeState] /\ avatarSteamId \in [Slots -> Sids \cup {NoSid}]
  BY DEF IndInv, TypeOK
<1>3. /\ TableInv'
      /\ g_avatarStates' \in [Slots -> RuntimeState]
      /\ avatarSteamId' \in [Slots -> Sids \cup {NoSid}]
      /\ caller' \in {"none", "frame", "changelevel", "shutdown"}
      /\ turn' = 0 /\ turn' \in 0 .. kMaxSlots /\ tableSeen'
  BY <1>1, <1>2, RoundBegins
<1>4. TypeOK'
  <2>1. tableSeen' \in BOOLEAN
    BY <1>1 DEF ProcessOverrides
  <2> QED
    BY <1>1, <1>3, <2>1 DEF IndInv, TypeOK, managerVars, bridgeVars
<1>5. Published'
  <2>1. \A t \in Slots : avatarSteamId'[t] # NoSid =>
          avatarSteamId'[t] = avatarSteamId[t] /\ g_avatarStates'[t] = g_avatarStates[t]
    BY <1>1 DEF ProcessOverrides
  <2> QED
    BY <1>1, <1>3, <2>1, PublishedKept DEF managerVars
<1>6. BotsInv'
  BY <1>1, BotsInvKept
<1> QED
  BY <1>3, <1>4, <1>5, <1>6, NextInvSplits

\* The round ends; on a level shutdown everything is forgotten, and the level
\* with its table ends.
LEMMA LoopEndsKeepsInv ==
  ASSUME IndInv, LoopEnds
  PROVE  IndInv'
<1>1. /\ turn = kMaxSlots /\ caller' = "none"
      /\ UNCHANGED << turn, table, managerVars, bridgeVars, validFrom >>
  BY DEF LoopEnds
<1>2. BotsInv'
  BY <1>1, BotsInvKept
<1>3. CASE level' = "down" /\ ResetRuntime
  <2>1. /\ g_avatarStates' \in [Slots -> RuntimeState] /\ OneOwner(g_avatarStates')
        /\ avatarSteamId' \in [Slots -> Sids \cup {NoSid}] /\ tableSeen' \in BOOLEAN
        /\ \A t \in Slots : avatarSteamId'[t] = NoSid
    BY <1>3, NoOwners DEF ResetRuntime
  <2>2. TypeOK'
    BY <1>1, <1>3, <2>1 DEF IndInv, TypeOK, managerVars, bridgeVars
  <2>3. TableInv'
    BY <1>1, <1>3, <2>1 DEF IndInv, TableInv, IsTable, OneOwner, UnseenTableIsClean
  <2>4. Published'
    BY <2>1 DEF Published
  <2> QED
    BY <1>2, <2>2, <2>3, <2>4, NextInvSplits
<1>4. CASE UNCHANGED << level, g_avatarStates, avatarSteamId, tableSeen >>
  <2>1. TypeOK'
    BY <1>1, <1>4 DEF IndInv, TypeOK, managerVars, bridgeVars
  <2>2. TableInv'
    BY <1>1, <1>4, TableInvKept
  <2>3. Published'
    BY <1>1, <1>4, PublishedKept DEF managerVars
  <2> QED
    BY <1>2, <2>1, <2>2, <2>3, NextInvSplits
<1> QED
  BY <1>3, <1>4 DEF LoopEnds

\* A new level has a table of its own.
LEMMA OnLevelInitKeepsInv ==
  ASSUME IndInv, NEW rows \in FreshTables, OnLevelInit(rows)
  PROVE  IndInv'
<1>1. /\ Idle /\ level' = "up" /\ table' = rows /\ ResetRuntime
      /\ UNCHANGED << caller, turn, managerVars, bridgeVars, validFrom >>
  BY DEF OnLevelInit
<1>2. /\ g_avatarStates' \in [Slots -> RuntimeState] /\ OneOwner(g_avatarStates')
      /\ avatarSteamId' \in [Slots -> Sids \cup {NoSid}] /\ tableSeen' \in BOOLEAN
      /\ \A t \in Slots : avatarSteamId'[t] = NoSid
  BY <1>1, NoOwners DEF ResetRuntime
<1>3. IsTable(rows) /\ \A sid \in Sids : BytesIn(rows, sid) = 0
  BY FreshTableIsClean
<1>4. TypeOK'
  <2>1. \A i \in 1 .. Len(rows) : rows[i].data \in Data /\ rows[i].key # NoSid
    BY <1>3, TableKeys
  <2> QED
    BY <1>1, <1>2, <2>1 DEF IndInv, TypeOK, managerVars, bridgeVars
<1>5. TableInv'
  <2>1. BytesOwned(g_avatarStates', table')
    BY <1>1, <1>3 DEF BytesOwned
  <2>2. UnseenTableIsClean'
    BY <1>1, <1>3 DEF UnseenTableIsClean, Idle, BytesIn, Keys, FindStringIndex
  <2> QED
    BY <1>1, <1>2, <1>3, <2>1, <2>2
    DEF TableInv, IsTable, OneOwner, BytesOwned, BytesIn, Keys, FindStringIndex
<1>6. Published'
  BY <1>2 DEF Published
<1>7. BotsInv'
  BY <1>1, BotsInvKept
<1> QED
  BY <1>4, <1>5, <1>6, <1>7, NextInvSplits
-------------------------------------------------------------------------------
\* A second has passed since the last attempt.
LEMMA RetryDueKeepsInv ==
  ASSUME IndInv, NEW s \in Slots, RetryDue(s)
  PROVE  IndInv'
<1>1. /\ Idle /\ g_avatarStates' = [g_avatarStates EXCEPT ![s].waiting = FALSE]
      /\ UNCHANGED << avatarSteamId, tableSeen, table, caller, turn, managerVars, bridgeVars,
                      level, validFrom >>
  BY DEF RetryDue
<1>2. /\ g_avatarStates' \in [Slots -> RuntimeState]
      /\ \A t \in Slots :
           /\ g_avatarStates'[t].appliedSteamId = g_avatarStates[t].appliedSteamId
           /\ g_avatarStates'[t].steamId = g_avatarStates[t].steamId
  <2> DEFINE n == [g_avatarStates[s] EXCEPT !.waiting = FALSE]
  <2>1. g_avatarStates \in [Slots -> RuntimeState]
    BY DEF IndInv, TypeOK
  <2>2. /\ n \in RuntimeState /\ n.steamId = g_avatarStates[s].steamId
        /\ n.appliedSteamId = g_avatarStates[s].appliedSteamId
    BY <2>1 DEF RuntimeState
  <2>3. g_avatarStates' = [g_avatarStates EXCEPT ![s] = n]
    BY <1>1
  <2> HIDE DEF n
  <2> QED
    BY <2>1, <2>2, <2>3
<1>3. TypeOK'
  BY <1>1, <1>2 DEF IndInv, TypeOK, managerVars, bridgeVars
<1>4. TableInv'
  BY <1>1, <1>2, TableInvKept DEF Idle
<1>5. Published'
  BY <1>1, <1>2, PublishedKept DEF Idle, managerVars
<1>6. BotsInv'
  BY <1>1, BotsInvKept
<1> QED
  BY <1>3, <1>4, <1>5, <1>6, NextInvSplits

\* Whatever void the requests of some slots: what these publish is withdrawn,
\* and the table is left as it is.
LEMMA RequestsChange ==
  ASSUME IndInv, NEW slots, Idle, UNCHANGED << tableSeen, table, caller, turn, level >>,
         g_avatarStates' = Unseen(slots),
         \A t \in Slots : t \in slots => avatarSteamId'[t] = NoSid,
         \A t \in Slots : t \notin slots =>
           /\ avatarSteamId'[t] = avatarSteamId[t]
           /\ request'[t] = request[t] /\ incarnation'[t] = incarnation[t]
  PROVE  TableInv' /\ Published' /\ g_avatarStates' \in [Slots -> RuntimeState]
<1>1. /\ Unseen(slots) \in [Slots -> RuntimeState]
      /\ \A s \in Slots :
           /\ Unseen(slots)[s].appliedSteamId = g_avatarStates[s].appliedSteamId
           /\ Unseen(slots)[s].steamId = g_avatarStates[s].steamId
  BY UnseenEffect
<1>2. TableInv'
  BY <1>1, TableInvKept DEF Idle
<1>3. Published'
  BY <1>1, PublishedKept DEF Idle
<1> QED
  BY <1>1, <1>2, <1>3

\* A bot comes; a read left over from an earlier bot of the slot is not for it.
LEMMA AdoptKeepsInv ==
  ASSUME IndInv, NEW s \in Slots, NEW sid \in Sids, AdoptSlot(s, sid)
  PROVE  IndInv'
<1>1. /\ Idle /\ ~Managed(s) /\ sid \notin SidsInUse
      /\ adoptions < MaxAdoptions /\ adoptions' = adoptions + 1
      /\ incarnation' = [incarnation EXCEPT ![s] = adoptions + 1]
      /\ steamId' = [steamId EXCEPT ![s] = sid]
      /\ request' = [request EXCEPT ![s] = NoRequest]
      /\ avatarSteamId' = [avatarSteamId EXCEPT ![s] = NoSid]
      /\ g_avatarStates' = Unseen({s})
      /\ validFrom' = [validFrom EXCEPT ![s] = asks + 1]
      /\ UNCHANGED << tableSeen, table, caller, turn, level, bridgeVars, moves >>
  BY DEF AdoptSlot
<1>2. /\ adoptions \in Nat /\ adoptions + 1 \in Incarnations /\ asks \in Nat
      /\ asks + 1 \in 1 .. MaxAsks + 1 /\ NoRequest \in Request
  BY <1>1, AvatarAssumption DEF IndInv, TypeOK, Incarnations, Data, NoRequest, Request
<1>3. TableInv' /\ Published' /\ g_avatarStates' \in [Slots -> RuntimeState]
  <2>1. /\ avatarSteamId'[s] = NoSid
        /\ \A t \in Slots : t # s =>
             /\ avatarSteamId'[t] = avatarSteamId[t]
             /\ request'[t] = request[t] /\ incarnation'[t] = incarnation[t]
    BY <1>1 DEF IndInv, TypeOK
  <2>2. /\ \A t \in Slots : t \in {s} => avatarSteamId'[t] = NoSid
        /\ \A t \in Slots : t \notin {s} =>
             /\ avatarSteamId'[t] = avatarSteamId[t]
             /\ request'[t] = request[t] /\ incarnation'[t] = incarnation[t]
    BY <2>1
  <2> QED
    BY <1>1, <2>2, RequestsChange
<1>4. TypeOK'
  BY <1>1, <1>2, <1>3 DEF IndInv, TypeOK, bridgeVars
<1>5. SidsApart'
  <2>1. \A t \in Slots : t # s => (Managed(t)' <=> Managed(t)) /\ steamId'[t] = steamId[t]
    BY <1>1 DEF IndInv, TypeOK, Managed
  <2>2. steamId'[s] = sid /\ \A t \in Slots : Managed(t) => steamId[t] # sid
    BY <1>1 DEF IndInv, TypeOK, SidsInUse
  <2> QED
    BY <2>1, <2>2 DEF IndInv, SidsApart
<1>6. ReadsInTime'
  <2>1. ASSUME NEW t \in Slots
        PROVE  /\ incarnation[t] \in Nat /\ m_avatarReads[t].incarnation \in Nat
               /\ m_avatarReads' = m_avatarReads /\ asks' = asks
    BY <1>1 DEF IndInv, TypeOK, Incarnations, Read, bridgeVars
  <2>2. ASSUME NEW t \in Slots, t # s
        PROVE  /\ incarnation'[t] = incarnation[t] /\ validFrom'[t] = validFrom[t]
               /\ ForThisBot(t)' <=> ForThisBot(t)
    BY <1>1, <2>1, <2>2 DEF ForThisBot
  <2>3. /\ incarnation'[s] = adoptions + 1 /\ validFrom'[s] = asks + 1 /\ ~ForThisBot(s)'
    BY <1>1, <1>2, <2>1 DEF IndInv, TypeOK, ReadsInTime, ForThisBot
  <2> QED
    BY <1>1, <1>2, <2>1, <2>2, <2>3 DEF IndInv, ReadsInTime
<1>7. ReadsReachTheirBot'
  <2>1. ASSUME NEW t \in Slots, t # s
        PROVE  /\ request'[t] = request[t] /\ incarnation'[t] = incarnation[t]
               /\ validFrom'[t] = validFrom[t]
    BY <1>1, <2>1
  <2>2. request'[s].data = 0
    BY <1>1 DEF IndInv, TypeOK, NoRequest
  <2> QED
    BY <2>1, <2>2 DEF IndInv, ReadsReachTheirBot, Managed
<1> QED
  BY <1>3, <1>4, <1>5, <1>6, <1>7, NextInvSplits DEF BotsInv

\* A bot goes, and its request with it.
LEMMA ReleaseKeepsInv ==
  ASSUME IndInv, NEW s \in Slots, ReleaseSlot(s)
  PROVE  IndInv'
<1>1. /\ Idle
      /\ incarnation' = [incarnation EXCEPT ![s] = 0]
      /\ steamId' = [steamId EXCEPT ![s] = NoSid]
      /\ request' = [request EXCEPT ![s] = NoRequest]
      /\ avatarSteamId' = [avatarSteamId EXCEPT ![s] = NoSid]
      /\ g_avatarStates' = Unseen({s})
      /\ validFrom' = [validFrom EXCEPT ![s] = asks + 1]
      /\ UNCHANGED << tableSeen, table, caller, turn, level, bridgeVars, adoptions, moves >>
  BY DEF ReleaseSlot
<1>2. /\ adoptions \in Nat /\ 0 \in Incarnations /\ asks \in Nat
      /\ asks + 1 \in 1 .. MaxAsks + 1 /\ NoRequest \in Request
  BY AvatarAssumption DEF IndInv, TypeOK, Incarnations, Data, NoRequest, Request
<1>3. TableInv' /\ Published' /\ g_avatarStates' \in [Slots -> RuntimeState]
  <2>1. /\ avatarSteamId'[s] = NoSid
        /\ \A t \in Slots : t # s =>
             /\ avatarSteamId'[t] = avatarSteamId[t]
             /\ request'[t] = request[t] /\ incarnation'[t] = incarnation[t]
    BY <1>1 DEF IndInv, TypeOK
  <2>2. /\ \A t \in Slots : t \in {s} => avatarSteamId'[t] = NoSid
        /\ \A t \in Slots : t \notin {s} =>
             /\ avatarSteamId'[t] = avatarSteamId[t]
             /\ request'[t] = request[t] /\ incarnation'[t] = incarnation[t]
    BY <2>1
  <2> QED
    BY <1>1, <2>2, RequestsChange
<1>4. TypeOK'
  BY <1>1, <1>2, <1>3 DEF IndInv, TypeOK, bridgeVars
<1>5. SidsApart'
  BY <1>1 DEF IndInv, TypeOK, SidsApart, Managed
<1>6. ReadsInTime'
  <2>1. ASSUME NEW t \in Slots
        PROVE  m_avatarReads' = m_avatarReads /\ asks' = asks /\ adoptions' = adoptions
    BY <1>1 DEF bridgeVars
  <2>2. ASSUME NEW t \in Slots, t # s
        PROVE  /\ incarnation'[t] = incarnation[t] /\ validFrom'[t] = validFrom[t]
               /\ ForThisBot(t)' <=> ForThisBot(t)
    BY <1>1, <2>1, <2>2 DEF ForThisBot
  <2>3. /\ incarnation'[s] = 0 /\ validFrom'[s] = asks + 1 /\ ~ForThisBot(s)'
    BY <1>1 DEF IndInv, TypeOK, ForThisBot
  <2> QED
    BY <1>2, <2>1, <2>2, <2>3 DEF IndInv, ReadsInTime
<1>7. ReadsReachTheirBot'
  <2>1. ASSUME NEW t \in Slots, t # s
        PROVE  /\ request'[t] = request[t] /\ incarnation'[t] = incarnation[t]
               /\ validFrom'[t] = validFrom[t]
    BY <1>1, <2>1
  <2>2. request'[s].data = 0
    BY <1>1 DEF IndInv, TypeOK, NoRequest
  <2> QED
    BY <2>1, <2>2 DEF IndInv, ReadsReachTheirBot, Managed
<1> QED
  BY <1>3, <1>4, <1>5, <1>6, <1>7, NextInvSplits DEF BotsInv

\* A bot gets another SteamID, free at the time.
LEMMA MoveKeepsInv ==
  ASSUME IndInv, NEW s \in Slots, NEW sid \in Sids, SetSyntheticSid(s, sid)
  PROVE  IndInv'
<1>1. /\ Idle /\ sid \notin SidsInUse /\ moves < MaxMoves /\ moves' = moves + 1
      /\ steamId' = [steamId EXCEPT ![s] = sid]
      /\ UNCHANGED << incarnation, request, adoptions, nativeVars, bridgeVars, level, validFrom >>
  BY DEF SetSyntheticSid
<1>2. moves' \in 0 .. MaxMoves
  BY <1>1, AvatarAssumption DEF IndInv, TypeOK
<1>3. TypeOK'
  BY <1>1, <1>2 DEF IndInv, TypeOK, nativeVars, bridgeVars
<1>4. TableInv'
  BY <1>1, TableInvKept DEF nativeVars, Idle
<1>5. Published'
  BY <1>1, PublishedKept DEF nativeVars, Idle
<1>6. SidsApart'
  <2>1. \A t \in Slots : Managed(t)' <=> Managed(t)
    BY <1>1 DEF Managed
  <2>2. steamId'[s] = sid /\ \A t \in Slots : t # s => steamId'[t] = steamId[t]
    BY <1>1 DEF IndInv, TypeOK
  <2>3. \A t \in Slots : Managed(t) => steamId[t] # sid
    BY <1>1 DEF SidsInUse
  <2> QED
    BY <2>1, <2>2, <2>3 DEF IndInv, SidsApart
<1>7. ReadsInTime' /\ ReadsReachTheirBot'
  BY <1>1 DEF IndInv, ReadsInTime, ReadsReachTheirBot, ForThisBot, Managed, bridgeVars
<1> QED
  BY <1>3, <1>4, <1>5, <1>6, <1>7, NextInvSplits DEF BotsInv

\* A level change or shutdown releases every slot and starts a last round.
LEMMA ReleaseAllKeepsInv ==
  ASSUME IndInv, NEW name \in {"changelevel", "shutdown"}, ReleaseAll(name)
  PROVE  IndInv'
<1>1. /\ Idle
      /\ incarnation' = [s \in Slots |-> 0]
      /\ steamId' = [s \in Slots |-> NoSid]
      /\ request' = [s \in Slots |-> NoRequest]
      /\ validFrom' = [s \in Slots |-> asks + 1]
      /\ ProcessOverrides(name, Unseen(Slots), [s \in Slots |-> NoSid])
      /\ UNCHANGED << adoptions, moves, table, bridgeVars, level >>
  BY DEF ReleaseAll
<1>2. /\ adoptions \in Nat /\ 0 \in Incarnations /\ asks \in Nat
      /\ asks + 1 \in 1 .. MaxAsks + 1 /\ NoRequest \in Request
  BY AvatarAssumption DEF IndInv, TypeOK, Incarnations, Data, NoRequest, Request
<1>3. /\ Unseen(Slots) \in [Slots -> RuntimeState]
      /\ \A s \in Slots : Unseen(Slots)[s].appliedSteamId = g_avatarStates[s].appliedSteamId
  BY UnseenEffect
<1>4. /\ TableInv'
      /\ g_avatarStates' \in [Slots -> RuntimeState]
      /\ avatarSteamId' \in [Slots -> Sids \cup {NoSid}]
      /\ caller' \in {"none", "frame", "changelevel", "shutdown"}
      /\ turn' \in 0 .. kMaxSlots
  BY <1>1, <1>3, NoOwners, RoundBegins
<1>5. tableSeen' \in BOOLEAN /\ \A t \in Slots : avatarSteamId'[t] = NoSid
  BY <1>1 DEF ProcessOverrides
<1>6. TypeOK'
  BY <1>1, <1>2, <1>4, <1>5 DEF IndInv, TypeOK, bridgeVars
<1>7. Published'
  BY <1>5 DEF Published
<1>8. SidsApart' /\ ReadsReachTheirBot'
  BY <1>1 DEF SidsApart, ReadsReachTheirBot, Managed, NoRequest
<1>9. ReadsInTime'
  <2>1. \A t \in Slots : ~ForThisBot(t)' /\ incarnation'[t] = 0 /\ validFrom'[t] = asks + 1
    BY <1>1 DEF ForThisBot
  <2>2. m_avatarReads' = m_avatarReads /\ asks' = asks /\ adoptions' = adoptions
    BY <1>1 DEF bridgeVars
  <2> QED
    BY <1>2, <2>1, <2>2 DEF IndInv, ReadsInTime
<1> QED
  BY <1>4, <1>6, <1>7, <1>8, <1>9, NextInvSplits DEF BotsInv
-------------------------------------------------------------------------------
\* A step of the bridge that leaves the native side alone.
LEMMA BridgeOnly ==
  ASSUME IndInv, UNCHANGED << managerVars, nativeVars, level >>
  PROVE  TableInv' /\ (Idle => Published') /\ SidsApart'
<1>1. TableInv'
  BY TableInvKept DEF nativeVars, IndInv, UnseenTableIsClean
<1>2. Idle => Published'
  BY PublishedKept DEF nativeVars, managerVars, Idle
<1>3. SidsApart'
  BY DEF IndInv, SidsApart, Managed, managerVars
<1> QED
  BY <1>1, <1>2, <1>3

\* A worker's read ends, at any time.
LEMMA ReadKeepsInv ==
  ASSUME IndInv, NEW s \in Slots, NEW status \in {"read", "failed"}, ReadAvatar(s, status)
  PROVE  IndInv'
<1>1. /\ m_avatarReads' = [m_avatarReads EXCEPT ![s].status = status]
      /\ UNCHANGED << managerVars, nativeVars, asks, level, validFrom >>
  BY DEF ReadAvatar
<1>2. /\ m_avatarReads' \in [Slots -> Read]
      /\ \A t \in Slots : /\ m_avatarReads'[t].incarnation = m_avatarReads[t].incarnation
                          /\ m_avatarReads'[t].ask = m_avatarReads[t].ask
  BY <1>1 DEF IndInv, TypeOK, Read
<1>3. TypeOK'
  BY <1>1, <1>2 DEF IndInv, TypeOK, managerVars, nativeVars
<1>4. TableInv' /\ SidsApart'
  BY <1>1, BridgeOnly
<1>5. Published'
  BY <1>1 DEF IndInv, Published, IsApplied, Managed, BytesIn, Keys, FindStringIndex,
              managerVars, nativeVars
<1>6. ReadsInTime' /\ ReadsReachTheirBot'
  BY <1>1, <1>2 DEF IndInv, ReadsInTime, ReadsReachTheirBot, ForThisBot, Managed, managerVars
<1> QED
  BY <1>3, <1>4, <1>5, <1>6, NextInvSplits DEF BotsInv

\* A read begins, for the bot that has the slot now.
LEMMA AskKeepsInv ==
  ASSUME IndInv, NEW s \in Slots, TrySetBotAvatar(s)
  PROVE  IndInv'
<1> DEFINE read == [incarnation |-> incarnation[s], ask |-> asks + 1, status |-> "running"]
<1>1. /\ Idle /\ asks < MaxAsks /\ asks' = asks + 1
      /\ m_avatarReads' = [m_avatarReads EXCEPT ![s] = read]
      /\ UNCHANGED << managerVars, nativeVars, level, validFrom >>
  BY DEF TrySetBotAvatar
<1>2. /\ asks \in Nat /\ asks + 1 \in 0 .. MaxAsks
      /\ incarnation[s] \in Incarnations
      /\ \A t \in Slots : validFrom[t] \in Nat
  BY <1>1, AvatarAssumption DEF IndInv, TypeOK, Data
<1>3. read \in Read /\ read.incarnation = incarnation[s] /\ read.ask = asks + 1
  BY <1>2 DEF Read
<1> HIDE DEF read
<1>4. TypeOK'
  BY <1>1, <1>2, <1>3 DEF IndInv, TypeOK, Data, managerVars, nativeVars
<1>5. TableInv' /\ Published' /\ SidsApart'
  BY <1>1, BridgeOnly
<1>6. ReadsReachTheirBot'
  BY <1>1 DEF IndInv, ReadsReachTheirBot, Managed, managerVars
<1>7. ReadsInTime'
  <2>1. ASSUME NEW t \in Slots
        PROVE  /\ validFrom'[t] = validFrom[t] /\ validFrom[t] \in Nat /\ validFrom[t] <= asks + 1
               /\ incarnation'[t] = incarnation[t] /\ adoptions' = adoptions
               /\ incarnation[t] <= adoptions /\ m_avatarReads[t].incarnation <= adoptions
    BY <1>1, <1>2 DEF IndInv, ReadsInTime, managerVars
  <2>2. m_avatarReads'[s] = read /\ \A t \in Slots : t # s => m_avatarReads'[t] = m_avatarReads[t]
    BY <1>1 DEF IndInv, TypeOK
  <2>3. \A t \in Slots : t # s => (ForThisBot(t)' <=> ForThisBot(t))
    BY <2>1, <2>2 DEF ForThisBot
  <2>4. \A t \in Slots : validFrom'[t] <= asks' + 1
    BY <1>1, <1>2, <2>1
  <2> QED
    BY <1>2, <1>3, <2>1, <2>2, <2>3, <2>4 DEF IndInv, ReadsInTime
<1> QED
  BY <1>4, <1>5, <1>6, <1>7, NextInvSplits DEF BotsInv

\* An avatar is cleared: a read under way is no longer for this bot.
LEMMA ClearKeepsInv ==
  ASSUME IndInv, NEW s \in Slots, ClearBotAvatar(s)
  PROVE  IndInv'
<1>1. /\ Idle
      /\ m_avatarReads' = [m_avatarReads EXCEPT ![s].incarnation = 0]
      /\ request' = [t \in Slots |->
           IF t \in {s} THEN [data |-> 0, incarnation |-> incarnation[t]] ELSE request[t]]
      /\ avatarSteamId' = [t \in Slots |-> IF t \in {s} THEN NoSid ELSE avatarSteamId[t]]
      /\ g_avatarStates' = Unseen({s})
      /\ validFrom' = [validFrom EXCEPT ![s] = asks + 1]
      /\ UNCHANGED << incarnation, steamId, adoptions, moves, tableSeen, table, caller, turn,
                      asks, level >>
  BY DEF ClearBotAvatar, SetAvatarRequest
<1>2. /\ adoptions \in Nat /\ 0 \in Incarnations /\ asks \in Nat /\ 0 \in Data
      /\ asks + 1 \in 1 .. MaxAsks + 1 /\ incarnation \in [Slots -> Incarnations]
  BY AvatarAssumption DEF IndInv, TypeOK, Incarnations, Data
<1>3. TableInv' /\ Published' /\ g_avatarStates' \in [Slots -> RuntimeState]
  BY <1>1, RequestsChange
<1>4. /\ request' \in [Slots -> Request]
      /\ avatarSteamId' \in [Slots -> Sids \cup {NoSid}]
      /\ m_avatarReads' \in [Slots -> Read]
      /\ validFrom' \in [Slots -> 1 .. MaxAsks + 1]
  BY <1>1, <1>2 DEF IndInv, TypeOK, Request, Read
<1>5. TypeOK'
  BY <1>1, <1>3, <1>4 DEF IndInv, TypeOK
<1>6. SidsApart'
  BY <1>1 DEF IndInv, SidsApart, Managed
<1>7. ReadsInTime'
  <2>1. ASSUME NEW t \in Slots, t # s
        PROVE  validFrom'[t] = validFrom[t] /\ m_avatarReads'[t] = m_avatarReads[t]
    BY <1>1, <2>1 DEF IndInv, TypeOK
  <2>2. m_avatarReads'[s].incarnation = 0 /\ validFrom'[s] = asks + 1
    BY <1>1 DEF IndInv, TypeOK, Read
  <2> QED
    BY <1>1, <1>2, <2>1, <2>2 DEF IndInv, ReadsInTime, ForThisBot
<1>8. ReadsReachTheirBot'
  <2>1. ASSUME NEW t \in Slots, t # s
        PROVE  request'[t] = request[t] /\ validFrom'[t] = validFrom[t]
    BY <1>1, <2>1 DEF IndInv, TypeOK
  <2>2. request'[s].data = 0
    BY <1>1
  <2> QED
    BY <1>1, <2>1, <2>2 DEF IndInv, ReadsReachTheirBot, Managed
<1> QED
  BY <1>3, <1>5, <1>6, <1>7, <1>8, NextInvSplits DEF BotsInv

\* Reads that have ended are handed over, if they are for the bot in the slot.
LEMMA FinishKeepsInv ==
  ASSUME IndInv, FinishAvatarReads
  PROVE  IndInv'
<1> DEFINE ended == {s \in Slots : m_avatarReads[s].status \in {"read", "failed"}}
           applied == {s \in ended : m_avatarReads[s].status = "read" /\ ForThisBot(s)}
<1>1. /\ Idle
      /\ m_avatarReads' = [s \in Slots |-> IF s \in ended THEN NoRead ELSE m_avatarReads[s]]
      /\ request' = [s \in Slots |->
           IF s \in applied THEN [data |-> [t \in Slots |-> m_avatarReads[t].ask][s],
                                  incarnation |-> incarnation[s]] ELSE request[s]]
      /\ avatarSteamId' = [s \in Slots |-> IF s \in applied THEN NoSid ELSE avatarSteamId[s]]
      /\ g_avatarStates' = Unseen(applied)
      /\ UNCHANGED << incarnation, steamId, adoptions, moves, tableSeen, table, caller, turn,
                      asks, level, validFrom >>
  BY DEF FinishAvatarReads, SetAvatarRequest
<1>2. \A s \in applied : s \in Slots /\ ForThisBot(s)
  OBVIOUS
<1> HIDE DEF ended, applied
<1>3. /\ adoptions \in Nat /\ 0 \in Incarnations /\ 0 \in 0 .. MaxAsks
      /\ incarnation \in [Slots -> Incarnations]
      /\ \A s \in Slots : m_avatarReads[s].ask \in Data
  BY AvatarAssumption DEF IndInv, TypeOK, Incarnations, Read, Data
<1>4. TableInv' /\ Published' /\ g_avatarStates' \in [Slots -> RuntimeState]
  BY <1>1, RequestsChange
<1>5. /\ request' \in [Slots -> Request]
      /\ avatarSteamId' \in [Slots -> Sids \cup {NoSid}]
      /\ m_avatarReads' \in [Slots -> Read]
  BY <1>1, <1>3 DEF IndInv, TypeOK, Request, Read, NoRead
<1>6. TypeOK'
  BY <1>1, <1>4, <1>5 DEF IndInv, TypeOK
<1>7. SidsApart'
  BY <1>1 DEF IndInv, SidsApart, Managed
<1>8. ReadsInTime'
  <2>1. ASSUME NEW s \in Slots
        PROVE  \/ m_avatarReads'[s] = m_avatarReads[s]
               \/ m_avatarReads'[s].incarnation = 0
    BY <1>1 DEF NoRead
  <2> QED
    BY <1>1, <1>3, <2>1 DEF IndInv, ReadsInTime, ForThisBot
<1>9. ReadsReachTheirBot'
  <2>1. ASSUME NEW s \in applied
        PROVE  /\ incarnation'[s] # 0 /\ request'[s].incarnation = incarnation'[s]
               /\ request'[s].data >= validFrom'[s]
    BY <1>1, <1>2 DEF IndInv, ReadsInTime, ForThisBot
  <2>2. ASSUME NEW s \in Slots, s \notin applied
        PROVE  request'[s] = request[s]
    BY <1>1, <2>2
  <2> QED
    BY <1>1, <2>1, <2>2 DEF IndInv, ReadsReachTheirBot, Managed
<1> QED
  BY <1>4, <1>6, <1>7, <1>8, <1>9, NextInvSplits DEF BotsInv

\* A reloaded bridge has forgotten its reads.
LEMMA ReloadKeepsInv ==
  ASSUME IndInv, ReloadBridge
  PROVE  IndInv'
<1>1. /\ Idle /\ m_avatarReads' = [s \in Slots |-> NoRead]
      /\ UNCHANGED << managerVars, nativeVars, asks, level, validFrom >>
  BY DEF ReloadBridge
<1>2. NoRead \in Read /\ 0 \in 0 .. MaxAsks /\ adoptions \in Nat
  BY AvatarAssumption DEF NoRead, Read, Incarnations, IndInv, TypeOK
<1>3. TypeOK'
  BY <1>1, <1>2 DEF IndInv, TypeOK, managerVars, nativeVars
<1>4. TableInv' /\ Published' /\ SidsApart'
  BY <1>1, BridgeOnly
<1>5. ReadsInTime' /\ ReadsReachTheirBot'
  BY <1>1, <1>2 DEF IndInv, ReadsInTime, ReadsReachTheirBot, ForThisBot, Managed, NoRead,
                    managerVars
<1> QED
  BY <1>3, <1>4, <1>5, NextInvSplits DEF BotsInv

-------------------------------------------------------------------------------
\* Every step keeps the inductive invariant.
LEMMA NextKeepsInv ==
  IndInv /\ [Next]_vars => IndInv'
<1> SUFFICES ASSUME IndInv, [Next]_vars PROVE IndInv'
  OBVIOUS
<1>1. CASE GameFrame \/ LoopEnds \/ FinishAvatarReads \/ ReloadBridge
  BY <1>1, GameFrameKeepsInv, LoopEndsKeepsInv, FinishKeepsInv, ReloadKeepsInv
<1>2. ASSUME NEW s \in Slots, NEW fault \in {"none", "clear", "set"}, ProcessTurn(s, fault)
      PROVE  IndInv'
  BY <1>2, TurnKeepsInv
<1>3. ASSUME NEW s \in Slots,
             RetryDue(s) \/ ReleaseSlot(s) \/ TrySetBotAvatar(s) \/ ClearBotAvatar(s)
      PROVE  IndInv'
  BY <1>3, RetryDueKeepsInv, ReleaseKeepsInv, AskKeepsInv, ClearKeepsInv
<1>4. ASSUME NEW s \in Slots, NEW sid \in Sids, AdoptSlot(s, sid) \/ SetSyntheticSid(s, sid)
      PROVE  IndInv'
  BY <1>4, AdoptKeepsInv, MoveKeepsInv
<1>5. CASE StartChangeLevel \/ OnLevelShutdown
  BY <1>5, ReleaseAllKeepsInv DEF StartChangeLevel, OnLevelShutdown
<1>6. ASSUME NEW rows \in FreshTables, OnLevelInit(rows)
      PROVE  IndInv'
  BY <1>6, OnLevelInitKeepsInv
<1>7. ASSUME NEW s \in Slots, NEW status \in {"read", "failed"}, ReadAvatar(s, status)
      PROVE  IndInv'
  BY <1>7, ReadKeepsInv
<1>8. CASE UNCHANGED vars
  <2>1. UNCHANGED << managerVars, nativeVars, bridgeVars, level, validFrom >>
    BY <1>8 DEF vars
  <2>2. TypeOK' /\ ReadsInTime' /\ ReadsReachTheirBot'
    BY <2>1 DEF IndInv, TypeOK, ReadsInTime, ReadsReachTheirBot, ForThisBot, Managed,
                managerVars, nativeVars, bridgeVars
  <2>3. TableInv' /\ SidsApart'
    BY <2>1, BridgeOnly
  <2>4. Published'
    BY <2>1 DEF IndInv, Published, IsApplied, Managed, BytesIn, Keys, FindStringIndex,
                managerVars, nativeVars
  <2> QED
    BY <2>2, <2>3, <2>4, NextInvSplits DEF BotsInv
<1> QED
  BY <1>1, <1>2, <1>3, <1>4, <1>5, <1>6, <1>7, <1>8 DEF Next

\* The inductive invariant holds throughout.
THEOREM InvHolds == Spec => []IndInv
<1> QED
  BY InitEstablishesInv, NextKeepsInv, PTL DEF Spec

\* Every variable keeps its type: the table holds rows with a key and bytes, and
\* a slot's states refer to SteamIDs of bots or to none.
THEOREM TypeCorrect == Spec => []TypeOK
<1>1. IndInv => TypeOK
  BY DEF IndInv
<1> QED
  BY <1>1, InvHolds, PTL

\* The BridgeClient never passes the bytes of a late read to another bot, nor to
\* one whose avatar was cleared since.
THEOREM ReadsAlwaysReachTheirBot == Spec => []ReadsReachTheirBot
<1>1. IndInv => ReadsReachTheirBot
  BY DEF IndInv
<1> QED
  BY <1>1, InvHolds, PTL

\* Every row with bytes has one slot that will clear or replace them, however
\* bots exchange SteamIDs and whatever writes the engine refuses.
THEOREM OverridesAlwaysOwned == Spec => []OverridesOwned
<1>1. ASSUME IndInv PROVE OverridesOwned
  <2>1. \A sid \in Sids : OverrideOf(sid) = BytesIn(table, sid) /\ sid # NoSid
    BY AvatarAssumption DEF OverrideOf, BytesIn
  <2> QED
    BY <1>1, <2>1 DEF IndInv, OneOwner, BytesOwned, OverridesOwned
<1>2. IndInv => OverridesOwned
  BY <1>1
<1> QED
  BY <1>2, InvHolds, PTL

\* HasBotAvatar says yes only if clients are given the bytes that were last asked
\* for this bot, under the SteamID it has now.
THEOREM AvatarAlwaysApplied == Spec => []AvatarIsApplied
<1>1. ASSUME IndInv, NEW s \in Slots, HasBotAvatar(s)
      PROVE  OverrideOf(steamId[s]) # 0 /\ OverrideOf(steamId[s]) = request[s].data
  <2>1. avatarSteamId[s] # NoSid /\ avatarSteamId[s] = steamId[s]
    BY <1>1 DEF HasBotAvatar
  <2>2. BytesIn(table, steamId[s]) = request[s].data /\ request[s].data # 0
    BY <1>1, <2>1 DEF IndInv, Published, IsApplied
  <2> QED
    BY <2>2 DEF OverrideOf, BytesIn
<1>2. IndInv => AvatarIsApplied
  BY <1>1 DEF AvatarIsApplied
<1> QED
  BY <1>2, InvHolds, PTL
================================================================================
