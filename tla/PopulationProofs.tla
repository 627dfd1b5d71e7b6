--------------------------- MODULE PopulationProofs ---------------------------
(***************************************************************************)
(* The disguise for any number of slots, clients and nested calls: what    *)
(* the engine sees while it counts, adds, kicks or moves players, what it  *)
(* sees afterwards, and whom the hooks never touch.                        *)
(***************************************************************************)
EXTENDS Population, FiniteSetTheorems, SequenceTheorems, TLAPS

\* The open calls that hold the transaction open.
Transactions == {i \in 1 .. Len(frames) : frames[i].enabled /\ frames[i].kind # "count"}

\* The transaction is open as long as one of its calls is, and its end will
\* disguise the bots anew; counts are on top of everything else and take part
\* in the mode, which does not change while they run.
FramesPaired ==
  /\ depth = Cardinality(Transactions)
  /\ depth # 0 => redisguise
  /\ \A i, j \in 1 .. Len(frames) :
       i < j /\ frames[i].kind = "count" => frames[j].kind = "count"
  /\ \A i \in 1 .. Len(frames) : frames[i].kind = "count" =>
       /\ frames[i].enabled <=> mode = "Player"
       /\ mode = "Bot" => frames[i].restore = NoSnapshots
  /\ level = "down" => frames = << >> /\ managed = {}

\* A managed slot has a client that has not begun to leave, and a client in the
\* game has a controller.
ClientsInPlace ==
  /\ \A s \in managed : Present(s) /\ client[s].phase # "leaving"
  /\ \A s \in Slots : Present(s) /\ client[s].phase = "active" => client[s].ctrl # "none"

LooksLikeBot(c) == c.fake /\ c.ctrl # "player"

\* What the flags c of a slot are outside a count in player mode.
DueAt(openCalls, isRedone, phase, c) ==
  IF openCalls = 0 THEN ~c.fake /\ c.ctrl # "fake"
                   ELSE ~isRedone /\ phase = "active" => c.ctrl = "fake"
Due(s, c) == DueAt(depth, s \in redone, client[s].phase, c)

\* The flags that managed clients have now.
FlagsNow ==
  \A s \in managed :
    IF mode = "Bot" \/ Counting THEN LooksLikeBot(client[s]) ELSE Due(s, client[s])

\* The snapshot that count i restores is of the client that is in the slot now,
\* and holds the flags due below that count.
Restorable(i) ==
  \A s \in managed :
    LET snap == frames[i].restore[s]
    IN  /\ snap # NoSnap
        /\ snap.life = client[s].life
        /\ snap.ctrl = "none" <=> client[s].ctrl = "none"
        /\ IF i > 1 /\ frames[i - 1].kind = "count" THEN LooksLikeBot(snap) ELSE Due(s, snap)

CountsRestore ==
  mode = "Player" => \A i \in 1 .. Len(frames) : frames[i].kind = "count" => Restorable(i)

\* The inductive invariant.
IndInv ==
  TypeOK /\ FramesPaired /\ ClientsInPlace /\ UnmanagedUntouched /\ FlagsNow /\ CountsRestore

-------------------------------------------------------------------------------
(* Flag writes. *)

\* Turning a client into a bot or a player writes its two flags only.
LEMMA AsBotWrites ==
  ASSUME NEW c \in Client
  PROVE  /\ AsBot(c) \in Client
         /\ AsBot(c).kind = c.kind /\ AsBot(c).life = c.life /\ AsBot(c).phase = c.phase
         /\ AsBot(c).fake = TRUE
         /\ AsBot(c).ctrl = IF c.ctrl = "none" THEN "none" ELSE "fake"
BY DEF AsBot, WithController, Client

LEMMA AsPlayerWrites ==
  ASSUME NEW c \in Client
  PROVE  /\ AsPlayer(c) \in Client
         /\ AsPlayer(c).kind = c.kind /\ AsPlayer(c).life = c.life
         /\ AsPlayer(c).phase = c.phase
         /\ AsPlayer(c).fake = FALSE
         /\ AsPlayer(c).ctrl = IF c.ctrl = "none" THEN "none" ELSE "player"
BY DEF AsPlayer, WithController, Client

LEMMA DisguisedWrites ==
  ASSUME NEW c \in Client
  PROVE  /\ Disguised(c) \in Client
         /\ Disguised(c).kind = c.kind /\ Disguised(c).life = c.life
         /\ Disguised(c).phase = c.phase
         /\ Disguised(c).fake = FALSE
         /\ Disguised(c).ctrl = IF c.ctrl = "none" THEN "none"
                                ELSE IF depth # 0 THEN "fake" ELSE "player"
BY DEF Disguised, WithController, PopulationTransactionActive, Client

LEMMA RestoredWrites ==
  ASSUME NEW c \in Client, NEW snap \in Snap
  PROVE  /\ RestoredClient(c, snap) \in Client
         /\ RestoredClient(c, snap).kind = c.kind /\ RestoredClient(c, snap).life = c.life
         /\ RestoredClient(c, snap).phase = c.phase
         /\ RestoredClient(c, snap).fake = (c.fake /\ snap.fake)
         /\ RestoredClient(c, snap).ctrl =
              IF c.ctrl # "none" /\ snap.ctrl = "player" THEN "player" ELSE c.ctrl
BY DEF RestoredClient, Client, Snap

\* A capture and a restore keep the types, and the clients that are not managed.
LEMMA CaptureKeepsTypes ==
  ASSUME TypeOK
  PROVE  /\ Captured \in Snapshots /\ NoSnapshots \in Snapshots
         /\ AfterCapture \in [Slots -> Client \cup {NoClient}]
<1>1. \A s \in Slots : Present(s) => client[s] \in Client
  BY DEF TypeOK, Present
<1>2. \A c \in Client : [life |-> c.life, fake |-> c.fake, ctrl |-> c.ctrl] \in Snap
  BY DEF Client, Snap
<1> QED
  BY <1>1, <1>2, AsBotWrites DEF TypeOK, Captured, AfterCapture, NoSnapshots, Snapshots

LEMMA RestoreKeepsTypes ==
  ASSUME TypeOK, NEW snaps \in Snapshots
  PROVE  /\ Restored(snaps) \in [Slots -> Client \cup {NoClient}]
         /\ \A s \in Slots \ managed : Restored(snaps)[s] = client[s]
         /\ \A s \in Slots : ~Present(s) => Restored(snaps)[s] = NoClient
         /\ \A s \in Slots : Present(s) =>
              /\ Restored(snaps)[s] \in Client
              /\ Restored(snaps)[s].kind = client[s].kind
              /\ Restored(snaps)[s].phase = client[s].phase
              /\ Restored(snaps)[s].ctrl = "none" <=> client[s].ctrl = "none"
<1>1. \A s \in Slots : Present(s) => client[s] \in Client
  BY DEF TypeOK, Present
<1>2. \A s \in Slots : StillCaptured(s, snaps) => snaps[s] \in Snap
  BY DEF StillCaptured, Snapshots
<1>3. \A s \in Slots : StillCaptured(s, snaps) => s \in managed /\ Present(s)
  BY DEF StillCaptured
<1>4. \A s \in Slots : ~Present(s) => client[s] = NoClient
  BY DEF Present
<1>5. \A s \in Slots :
        Restored(snaps)[s] = IF StillCaptured(s, snaps) THEN RestoredClient(client[s], snaps[s])
                                                        ELSE client[s]
  BY DEF Restored
<1>6. Restored(snaps) = [s \in Slots |-> Restored(snaps)[s]]
  BY DEF Restored
<1>7. \A s \in Slots : Restored(snaps)[s] \in Client \cup {NoClient}
  BY <1>1, <1>2, <1>3, <1>4, <1>5, RestoredWrites
<1> QED
  BY <1>1, <1>2, <1>3, <1>4, <1>5, <1>6, <1>7, RestoredWrites

LEMMA DisguiseKeepsTypes ==
  ASSUME TypeOK, NEW clients \in [Slots -> Client \cup {NoClient}], NEW disguised \in BOOLEAN
  PROVE  /\ ManagedDisguise(clients, disguised) \in [Slots -> Client \cup {NoClient}]
         /\ \A s \in Slots \ managed : ManagedDisguise(clients, disguised)[s] = clients[s]
         /\ \A s \in managed : clients[s] # NoClient =>
              ManagedDisguise(clients, disguised)[s] =
                IF disguised THEN AsPlayer(clients[s]) ELSE AsBot(clients[s])
         /\ \A s \in Slots : clients[s] = NoClient =>
              ManagedDisguise(clients, disguised)[s] = NoClient
<1>1. \A s \in Slots : clients[s] # NoClient => clients[s] \in Client
  OBVIOUS
<1>2. managed \subseteq Slots
  BY DEF TypeOK
<1> QED
  BY <1>1, <1>2, AsBotWrites, AsPlayerWrites DEF ManagedDisguise

-------------------------------------------------------------------------------
(* The stack of calls. *)

LEMMA FramesAreCalls ==
  ASSUME TypeOK
  PROVE  /\ Len(frames) \in Nat
         /\ \A i \in 1 .. Len(frames) : frames[i] \in Frame
         /\ frames = << >> <=> Len(frames) = 0
         /\ Counting <=> Len(frames) # 0 /\ frames[Len(frames)].kind = "count"
<1>1. frames \in Seq(Frame)
  BY DEF TypeOK
<1> QED
  BY <1>1, EmptySeq, ElementOfSeq DEF Counting

\* Counts are on top: no call is a count unless the innermost one is.
LEMMA NoCountBelow ==
  ASSUME TypeOK, FramesPaired, ~Counting
  PROVE  \A i \in 1 .. Len(frames) : frames[i].kind # "count"
<1> SUFFICES ASSUME NEW i \in 1 .. Len(frames), frames[i].kind = "count" PROVE FALSE
  OBVIOUS
<1>1. Len(frames) \in Nat /\ Len(frames) # 0
  BY FramesAreCalls
<1>2. frames[Len(frames)].kind = "count"
  <2>1. CASE i = Len(frames)
    BY <2>1
  <2>2. CASE i # Len(frames)
    BY <1>1, <2>2 DEF FramesPaired
  <2> QED
    BY <2>1, <2>2
<1> QED
  BY <1>1, <1>2, FramesAreCalls

\* A new call is on top of the others.
LEMMA PushAppends ==
  ASSUME TypeOK, NEW kind \in {"population", "command", "count"}, NEW enabled \in BOOLEAN,
         NEW snaps \in Snapshots, Push(kind, enabled, snaps)
  PROVE  /\ frames' \in Seq(Frame)
         /\ Len(frames') = Len(frames) + 1
         /\ \A i \in 1 .. Len(frames) : frames'[i] = frames[i]
         /\ frames'[Len(frames) + 1] = [kind |-> kind, enabled |-> enabled, restore |-> snaps]
<1>1. [kind |-> kind, enabled |-> enabled, restore |-> snaps] \in Frame
  BY DEF Frame
<1>2. frames \in Seq(Frame)
  BY DEF TypeOK
<1> QED
  BY <1>1, <1>2, AppendProperties DEF Push

\* Dropping the last element of a sequence keeps the others.
LEMMA DropLast ==
  ASSUME NEW S, NEW q \in Seq(S), q # << >>
  PROVE  /\ SubSeq(q, 1, Len(q) - 1) \in Seq(S)
         /\ Len(SubSeq(q, 1, Len(q) - 1)) = Len(q) - 1
         /\ \A i \in 1 .. Len(q) - 1 : SubSeq(q, 1, Len(q) - 1)[i] = q[i]
OBVIOUS

\* The end of a call leaves the calls below as they were.
LEMMA PopDrops ==
  ASSUME TypeOK, frames # << >>, Pop
  PROVE  /\ frames' \in Seq(Frame)
         /\ Len(frames') = Len(frames) - 1
         /\ \A i \in 1 .. Len(frames) - 1 : frames'[i] = frames[i]
<1>1. frames \in Seq(Frame)
  BY DEF TypeOK
<1> QED
  BY <1>1, DropLast DEF Pop

\* The depth counts the calls that hold the transaction open.
LEMMA TransactionsAreFew ==
  ASSUME TypeOK
  PROVE  /\ IsFiniteSet(Transactions)
         /\ Cardinality(Transactions) \in 0 .. Len(frames)
<1>1. Len(frames) \in Nat
  BY FramesAreCalls
<1>2. IsFiniteSet(1 .. Len(frames)) /\ Cardinality(1 .. Len(frames)) = Len(frames)
  <2>1. 1 \in Int /\ Len(frames) \in Int
    BY <1>1
  <2>2. /\ IsFiniteSet(1 .. Len(frames))
        /\ Cardinality(1 .. Len(frames)) = IF 1 > Len(frames) THEN 0 ELSE Len(frames) - 1 + 1
    BY <2>1, FS_Interval
  <2> QED
    BY <1>1, <2>2
<1>3. Transactions \in SUBSET (1 .. Len(frames))
  BY DEF Transactions
<1>4. IsFiniteSet(Transactions) /\ Cardinality(Transactions) <= Cardinality(1 .. Len(frames))
  BY <1>2, <1>3, FS_Subset
<1>5. Cardinality(Transactions) \in Nat
  BY <1>4, FS_CardinalityType
<1> QED
  BY <1>1, <1>2, <1>4, <1>5

LEMMA PushCounts ==
  ASSUME TypeOK, NEW kind \in {"population", "command", "count"}, NEW enabled \in BOOLEAN,
         NEW snaps \in Snapshots, Push(kind, enabled, snaps)
  PROVE  Cardinality(Transactions') =
           Cardinality(Transactions) + (IF enabled /\ kind # "count" THEN 1 ELSE 0)
<1> DEFINE n == Len(frames)
<1>1. n \in Nat
  BY FramesAreCalls
<1>2. /\ Len(frames') = n + 1
      /\ \A i \in 1 .. n : frames'[i] = frames[i]
      /\ frames'[n + 1] = [kind |-> kind, enabled |-> enabled, restore |-> snaps]
  BY PushAppends
<1>3. n + 1 \notin Transactions
  BY <1>1 DEF Transactions
<1>4. IsFiniteSet(Transactions) /\ Cardinality(Transactions) \in Nat
  BY <1>1, TransactionsAreFew
<1>5. CASE enabled /\ kind # "count"
  <2>1. Transactions' = Transactions \cup {n + 1}
    <3>1. frames'[n + 1].enabled /\ frames'[n + 1].kind # "count"
      BY <1>2, <1>5
    <3>2. \A i \in 1 .. n + 1 : i = n + 1 \/ i \in 1 .. n
      BY <1>1
    <3> HIDE DEF n
    <3> QED
      BY <1>1, <1>2, <3>1, <3>2 DEF Transactions, n
  <2>2. Cardinality(Transactions \cup {n + 1}) = Cardinality(Transactions) + 1
    BY <1>3, <1>4, FS_AddElement
  <2> QED
    BY <1>5, <2>1, <2>2
<1>6. CASE ~(enabled /\ kind # "count")
  <2>1. Transactions' = Transactions
    BY <1>1, <1>2, <1>6 DEF Transactions
  <2> QED
    BY <1>4, <1>6, <2>1
<1> QED
  BY <1>5, <1>6

LEMMA PopCounts ==
  ASSUME TypeOK, frames # << >>, Pop
  PROVE  LET top == frames[Len(frames)]
         IN  Cardinality(Transactions') =
               Cardinality(Transactions) - (IF top.enabled /\ top.kind # "count" THEN 1 ELSE 0)
<1> DEFINE n == Len(frames)
           top == frames[n]
<1>1. n \in Nat \ {0}
  BY FramesAreCalls
<1>2. Transactions' = Transactions \ {n}
  BY <1>1, PopDrops DEF Transactions
<1>3. n \in Transactions <=> top.enabled /\ top.kind # "count"
  BY <1>1 DEF Transactions
<1> HIDE DEF n
<1>4. CASE n \in Transactions
  <2>1. Cardinality(Transactions \ {n}) = Cardinality(Transactions) - 1
    BY <1>4, TransactionsAreFew, FS_RemoveElement
  <2> QED
    BY <1>2, <1>3, <1>4, <2>1 DEF n
<1>5. CASE n \notin Transactions
  <2>1. Transactions' = Transactions
    BY <1>2, <1>5
  <2> QED
    BY <1>3, <1>5, <2>1, TransactionsAreFew DEF n
<1> QED
  BY <1>4, <1>5

-------------------------------------------------------------------------------
(* Steps between the hooks: clients, API calls and levels. *)

LEMMA InitInv == Init => IndInv
<1> SUFFICES ASSUME Init PROVE IndInv
  OBVIOUS
<1> USE DEF Init
<1>1. frames \in Seq(Frame) /\ Len(frames) = 0 /\ 1 .. Len(frames) = {}
  BY EmptySeq
<1>2. NoSnapshots \in Snapshots
  BY DEF NoSnapshots, Snapshots
<1>3. TypeOK
  <2>1. Len(frames) <= MaxFrames /\ lives \in 0 .. MaxLives /\ depth \in 0 .. MaxFrames
    BY <1>1, PopulationAssumption
  <2>2. client \in [Slots -> Client \cup {NoClient}] /\ managed \in SUBSET Slots
    OBVIOUS
  <2> QED
    BY <1>1, <1>2, <2>1, <2>2 DEF TypeOK
<1>4. Transactions = {} /\ Cardinality(Transactions) = 0
  BY <1>1, FS_EmptySet DEF Transactions
<1>5. FramesPaired /\ CountsRestore
  BY <1>1, <1>4 DEF FramesPaired, CountsRestore
<1>6. ClientsInPlace /\ UnmanagedUntouched /\ FlagsNow
  BY DEF ClientsInPlace, UnmanagedUntouched, FlagsNow, Present
<1> QED
  BY <1>3, <1>5, <1>6 DEF IndInv

\* Between the hooks the stack stays as it is.
LEMMA QuietKeepsFrames ==
  ASSUME IndInv, ~Counting, UNCHANGED << depth, redisguise, frames >>,
         level' = "down" => frames = << >> /\ managed' = {}
  PROVE  FramesPaired' /\ CountsRestore' /\ ~Counting'
<1>1. \A i \in 1 .. Len(frames) : frames[i].kind # "count"
  BY NoCountBelow DEF IndInv
<1>2. Transactions' = Transactions
  BY DEF Transactions
<1> QED
  BY <1>1, <1>2 DEF IndInv, FramesPaired, CountsRestore, Counting

\* What must hold of slot s with client c, given whether it is managed and
\* whether an API call disguised it.
SlotFits(s, c, isManaged, isRedone) ==
  /\ isManaged =>
       /\ c # NoClient /\ c.phase # "leaving"
       /\ IF mode = "Bot" THEN LooksLikeBot(c) ELSE DueAt(depth, isRedone, c.phase, c)
  /\ c # NoClient =>
       /\ c.phase = "active" => c.ctrl # "none"
       /\ level = "up" /\ ~isManaged /\ c.kind = "bot" => c.fake /\ c.ctrl # "player"
       /\ c.kind = "human" => ~isManaged /\ ~c.fake /\ c.ctrl # "fake"

LEMMA SlotsFit ==
  ASSUME IndInv, ~Counting, NEW s \in Slots
  PROVE  SlotFits(s, client[s], s \in managed, s \in redone)
BY DEF IndInv, SlotFits, ClientsInPlace, UnmanagedUntouched, FlagsNow, Due, Present

LEMMA FitSlotsSuffice ==
  ASSUME TypeOK', ~Counting',
         \A s \in Slots : SlotFits(s, client[s], s \in managed, s \in redone)'
  PROVE  (ClientsInPlace /\ UnmanagedUntouched /\ FlagsNow)'
<1>1. managed' \subseteq Slots
  BY DEF TypeOK
<1> QED
  BY <1>1 DEF SlotFits, ClientsInPlace, UnmanagedUntouched, FlagsNow, Due, Present

\* A step that changes one slot keeps the invariant if the slot fits afterwards.
LEMMA OneSlotChanges ==
  ASSUME IndInv, ~Counting, NEW s \in Slots, NEW c \in Client \cup {NoClient},
         client' = [client EXCEPT ![s] = c],
         managed' \subseteq Slots, managed' \ {s} = managed \ {s},
         level = "down" => managed' = {},
         redone' \subseteq Slots, redone \ {s} \subseteq redone',
         lives' \in 0 .. MaxLives,
         UNCHANGED << mode, level, depth, redisguise, identity, frames >>,
         SlotFits(s, c, s \in managed', s \in redone')
  PROVE  IndInv'
<1>1. TypeOK'
  BY DEF IndInv, TypeOK
<1>2. FramesPaired' /\ CountsRestore' /\ ~Counting'
  BY QuietKeepsFrames DEF IndInv, FramesPaired
<1>3. client \in [Slots -> Client \cup {NoClient}] /\ managed \subseteq Slots
  BY DEF IndInv, TypeOK
<1>4. client'[s] = c /\ \A t \in Slots \ {s} : client'[t] = client[t]
  BY <1>3
<1>5. ASSUME NEW t \in Slots PROVE SlotFits(t, client[t], t \in managed, t \in redone)'
  <2>1. CASE t = s
    BY <1>4, <2>1 DEF SlotFits, LooksLikeBot, DueAt
  <2>2. CASE t # s
    <3>1. client'[t] = client[t] /\ (t \in managed' <=> t \in managed) /\ (t \in redone => t \in redone')
      BY <1>4, <2>2
    <3>2. SlotFits(t, client[t], t \in managed, t \in redone)
      BY SlotsFit
    <3> QED
      BY <3>1, <3>2 DEF SlotFits, LooksLikeBot, DueAt
  <2> QED
    BY <2>1, <2>2
<1> QED
  BY <1>1, <1>2, <1>5, FitSlotsSuffice DEF IndInv

LEMMA OnClientConnectedKeeps ==
  ASSUME IndInv, NEW s \in Slots, NEW kind \in {"bot", "tv", "human"},
         NEW ctrl \in {"none", "fake", "player"}, NEW picked \in BOOLEAN,
         OnClientConnected(s, kind, ctrl, picked)
  PROVE  IndInv'
<1> DEFINE c == NewClient(kind, ctrl)
           adopted == kind # "human" /\ picked
           d == IF adopted /\ IsDisguiseEnabled THEN Disguised(c) ELSE c
<1>1. /\ ~Counting /\ level = "up" /\ ~Present(s) /\ lives < MaxLives /\ lives' = lives + 1
      /\ kind = "human" => ctrl # "fake"
      /\ kind # "human" => ctrl # "player"
      /\ managed' = IF adopted THEN managed \cup {s} ELSE managed
      /\ client' = [client EXCEPT ![s] = d]
      /\ UNCHANGED << mode, level, depth, redisguise, identity, redone, frames >>
  BY DEF OnClientConnected, EngineMayAct, txnVars
<1>2. lives' \in 0 .. MaxLives /\ lives + 1 \in 1 .. MaxLives
  BY <1>1, PopulationAssumption DEF IndInv, TypeOK
<1>3. /\ c \in Client /\ c.kind = kind /\ c.ctrl = ctrl /\ c.phase = "connected"
      /\ c.fake = (kind # "human")
  BY <1>2 DEF NewClient, Client
<1>4. s \notin managed
  BY <1>1 DEF IndInv, ClientsInPlace
<1> HIDE DEF c
<1>5. d \in Client /\ d.kind = kind /\ d.phase = "connected"
      /\ (adopted /\ mode = "Player" => d.fake = FALSE
            /\ (d.ctrl = IF ctrl = "none" THEN "none" ELSE IF depth # 0 THEN "fake" ELSE "player"))
      /\ (~(adopted /\ mode = "Player") => d.fake = (kind # "human") /\ d.ctrl = ctrl)
  BY <1>3, DisguisedWrites DEF IsDisguiseEnabled
<1> HIDE DEF d
<1>6. mode \in {"Bot", "Player"} /\ d # NoClient
  BY <1>5, PopulationAssumption DEF IndInv, TypeOK
<1>7. SlotFits(s, d, s \in managed', s \in redone')
  BY <1>1, <1>4, <1>5, <1>6 DEF SlotFits, LooksLikeBot, DueAt
<1>8. /\ managed' \subseteq Slots /\ managed' \ {s} = managed \ {s}
      /\ redone' \subseteq Slots
  BY <1>1 DEF IndInv, TypeOK
<1> QED
  BY <1>1, <1>2, <1>5, <1>7, <1>8, OneSlotChanges

LEMMA CreateControllerKeeps ==
  ASSUME IndInv, NEW s \in Slots, CreateController(s)
  PROVE  IndInv'
<1> DEFINE d == [client[s] EXCEPT !.ctrl = IF client[s].fake THEN "fake" ELSE "player"]
<1>1. /\ ~Counting /\ Present(s) /\ client[s].ctrl = "none"
      /\ client' = [client EXCEPT ![s] = d]
      /\ UNCHANGED << mode, level, lives, managed, depth, redisguise, identity, redone, frames >>
  BY DEF CreateController, EngineMayAct, txnVars
<1>2. client[s] \in Client
  BY <1>1 DEF IndInv, TypeOK, Present
<1>3. /\ d \in Client /\ d.kind = client[s].kind /\ d.phase = client[s].phase
      /\ d.fake = client[s].fake /\ d.ctrl = IF client[s].fake THEN "fake" ELSE "player"
  BY <1>2 DEF Client
<1> HIDE DEF d
<1>4. SlotFits(s, client[s], s \in managed, s \in redone)
  BY <1>1, SlotsFit
<1>5. client[s].phase # "active" /\ client[s] # NoClient /\ d # NoClient
  BY <1>1, <1>3, <1>4, PopulationAssumption DEF SlotFits, Present
<1>6. SlotFits(s, d, s \in managed', s \in redone')
  BY <1>1, <1>3, <1>4, <1>5 DEF SlotFits, LooksLikeBot, DueAt
<1>7. managed' \subseteq Slots /\ redone' \subseteq Slots /\ lives' \in 0 .. MaxLives
  BY <1>1 DEF IndInv, TypeOK
<1>8. level = "down" => managed = {}
  BY DEF IndInv, FramesPaired
<1> QED
  BY <1>1, <1>3, <1>6, <1>7, <1>8, OneSlotChanges

LEMMA ClientPutInServerKeeps ==
  ASSUME IndInv, NEW s \in Slots, NEW available \in BOOLEAN, ClientPutInServer(s, available)
  PROVE  IndInv'
<1> DEFINE put == [client[s] EXCEPT !.phase = "active"]
           tv == client[s].kind = "tv"
           d == IF s \notin managed \/ tv THEN put
                ELSE IF ~available THEN AsBot(put)
                ELSE IF IsDisguiseEnabled THEN Disguised(put) ELSE put
<1>1. /\ ~Counting /\ level = "up" /\ Present(s) /\ client[s].ctrl # "none"
      /\ managed' = IF tv \/ ~available THEN managed \ {s} ELSE managed
      /\ client' = [client EXCEPT ![s] = d]
      /\ UNCHANGED << mode, level, lives, depth, redisguise, identity, redone, frames >>
  BY DEF ClientPutInServer, EngineMayAct, txnVars
<1>2. client[s] \in Client
  BY <1>1 DEF IndInv, TypeOK, Present
<1>3. /\ put \in Client /\ put.kind = client[s].kind /\ put.phase = "active"
      /\ put.fake = client[s].fake /\ put.ctrl = client[s].ctrl
  BY <1>2 DEF Client
<1> HIDE DEF put
<1>4. /\ d \in Client /\ d.kind = client[s].kind /\ d.phase = "active"
      /\ s \notin managed \/ tv => d.fake = client[s].fake /\ d.ctrl = client[s].ctrl
      /\ s \in managed /\ ~tv /\ ~available => d.fake = TRUE /\ d.ctrl = "fake"
      /\ s \in managed /\ ~tv /\ available /\ mode = "Player" =>
           d.fake = FALSE /\ (d.ctrl = IF depth # 0 THEN "fake" ELSE "player")
      /\ s \in managed /\ ~tv /\ available /\ mode # "Player" =>
           d.fake = client[s].fake /\ d.ctrl = client[s].ctrl
  BY <1>1, <1>3, AsBotWrites, DisguisedWrites DEF IsDisguiseEnabled
<1> HIDE DEF d
<1>5. SlotFits(s, client[s], s \in managed, s \in redone)
  BY <1>1, SlotsFit
<1>6. /\ client[s] # NoClient /\ d # NoClient
      /\ client[s].ctrl \in {"none", "fake", "player"} /\ mode \in {"Bot", "Player"}
  BY <1>1, <1>2, <1>4, PopulationAssumption DEF Present, Client, IndInv, TypeOK
<1>7. SlotFits(s, d, s \in managed', s \in redone')
  BY <1>1, <1>4, <1>5, <1>6 DEF SlotFits, LooksLikeBot, DueAt
<1>8. /\ managed' \subseteq Slots /\ managed' \ {s} = managed \ {s}
      /\ redone' \subseteq Slots /\ lives' \in 0 .. MaxLives
  BY <1>1 DEF IndInv, TypeOK
<1> QED
  BY <1>1, <1>4, <1>7, <1>8, OneSlotChanges

LEMMA ClientDisconnectKeeps ==
  ASSUME IndInv, NEW s \in Slots, ClientDisconnect(s)
  PROVE  IndInv'
<1> DEFINE left == [client[s] EXCEPT !.phase = "leaving"]
           d == IF s \in managed THEN AsBot(left) ELSE left
<1>1. /\ ~Counting /\ Present(s)
      /\ client' = [client EXCEPT ![s] = d]
      /\ managed' = managed \ {s} /\ redone' = redone \ {s}
      /\ UNCHANGED << mode, level, lives, depth, redisguise, identity, frames >>
  BY DEF ClientDisconnect, EngineMayAct
<1>2. client[s] \in Client
  BY <1>1 DEF IndInv, TypeOK, Present
<1>3. /\ left \in Client /\ left.kind = client[s].kind /\ left.phase = "leaving"
      /\ left.fake = client[s].fake /\ left.ctrl = client[s].ctrl
  BY <1>2 DEF Client
<1> HIDE DEF left
<1>4. /\ d \in Client /\ d.kind = client[s].kind /\ d.phase = "leaving"
      /\ s \in managed => d.fake = TRUE /\ d.ctrl # "player"
      /\ s \notin managed => d.fake = client[s].fake /\ d.ctrl = client[s].ctrl
  BY <1>3, AsBotWrites
<1> HIDE DEF d
<1>5. SlotFits(s, client[s], s \in managed, s \in redone)
  BY <1>1, SlotsFit
<1>6. client[s] # NoClient /\ d # NoClient
  BY <1>1, <1>4, PopulationAssumption DEF Present
<1>7. SlotFits(s, d, s \in managed', s \in redone')
  BY <1>1, <1>4, <1>5, <1>6 DEF SlotFits, DueAt
<1>8. /\ managed' \subseteq Slots /\ managed' \ {s} = managed \ {s} /\ redone \ {s} \subseteq redone'
      /\ redone' \subseteq Slots /\ lives' \in 0 .. MaxLives
  BY <1>1 DEF IndInv, TypeOK
<1>9. level = "down" => managed' = {}
  BY <1>1 DEF IndInv, FramesPaired
<1> QED
  BY <1>1, <1>4, <1>7, <1>8, <1>9, OneSlotChanges

LEMMA FreeClientKeeps ==
  ASSUME IndInv, NEW s \in Slots, FreeClient(s)
  PROVE  IndInv'
<1>1. /\ ~Counting /\ Present(s) /\ client[s].phase = "leaving"
      /\ client' = [client EXCEPT ![s] = NoClient]
      /\ UNCHANGED << mode, level, lives, managed, depth, redisguise, identity, redone, frames >>
  BY DEF FreeClient, EngineMayAct, txnVars
<1>2. s \notin managed
  BY <1>1 DEF IndInv, ClientsInPlace
<1>3. SlotFits(s, NoClient, s \in managed', s \in redone')
  BY <1>1, <1>2 DEF SlotFits
<1>4. /\ managed' \subseteq Slots /\ redone' \subseteq Slots /\ lives' \in 0 .. MaxLives
      /\ level = "down" => managed' = {}
  BY <1>1 DEF IndInv, TypeOK, FramesPaired
<1> QED
  BY <1>1, <1>3, <1>4, OneSlotChanges

LEMMA ApplySteamIdCommandKeeps ==
  ASSUME IndInv, NEW s \in Slots, ApplySteamIdCommand(s)
  PROVE  IndInv'
<1> DEFINE d == IF IsDisguiseEnabled THEN AsPlayer(client[s]) ELSE client[s]
<1>1. /\ ~Counting /\ Present(s) /\ s \in managed
      /\ client' = [client EXCEPT ![s] = d]
      /\ redone' = IF depth # 0 THEN redone \cup {s} ELSE redone
      /\ UNCHANGED << mode, level, lives, managed, depth, redisguise, identity, frames >>
  BY DEF ApplySteamIdCommand, ApiMayCall, Redone, PopulationTransactionActive
<1>2. client[s] \in Client
  BY <1>1 DEF IndInv, TypeOK, Present
<1>3. /\ d \in Client /\ d.kind = client[s].kind /\ d.phase = client[s].phase
      /\ mode = "Player" => d.fake = FALSE
           /\ (d.ctrl = IF client[s].ctrl = "none" THEN "none" ELSE "player")
      /\ mode # "Player" => d = client[s]
  BY <1>2, AsPlayerWrites DEF IsDisguiseEnabled
<1> HIDE DEF d
<1>4. SlotFits(s, client[s], s \in managed, s \in redone)
  BY <1>1, SlotsFit
<1>5. client[s] # NoClient /\ d # NoClient /\ mode \in {"Bot", "Player"}
  BY <1>1, <1>3, PopulationAssumption DEF Present, IndInv, TypeOK
<1>6. SlotFits(s, d, s \in managed', s \in redone')
  BY <1>1, <1>3, <1>4, <1>5 DEF SlotFits, LooksLikeBot, DueAt
<1>7. /\ managed' \subseteq Slots /\ redone' \subseteq Slots /\ redone \ {s} \subseteq redone'
      /\ lives' \in 0 .. MaxLives
      /\ level = "down" => managed' = {}
  BY <1>1 DEF IndInv, TypeOK, FramesPaired
<1> QED
  BY <1>1, <1>3, <1>6, <1>7, OneSlotChanges

LEMMA SetIdentityModeKeeps ==
  ASSUME IndInv, NEW newMode \in {"Bot", "Player"}, SetIdentityMode(newMode)
  PROVE  IndInv'
<1>1. /\ ~Counting /\ level = "up" /\ mode' = newMode
      /\ client' = ManagedDisguise(client, newMode = "Player")
      /\ redone' = IF depth # 0 THEN redone \cup managed ELSE redone
      /\ UNCHANGED << level, lives, managed, depth, redisguise, identity, frames >>
  BY DEF SetIdentityMode, ApiMayCall, Redone, PopulationTransactionActive
<1>2. client \in [Slots -> Client \cup {NoClient}] /\ managed \subseteq Slots
  BY DEF IndInv, TypeOK
<1>3. /\ client' \in [Slots -> Client \cup {NoClient}]
      /\ \A s \in Slots \ managed : client'[s] = client[s]
      /\ \A s \in managed : client[s] # NoClient =>
           client'[s] = IF newMode = "Player" THEN AsPlayer(client[s]) ELSE AsBot(client[s])
  BY <1>1, <1>2, DisguiseKeepsTypes DEF IndInv
<1>4. TypeOK'
  BY <1>1, <1>3 DEF IndInv, TypeOK
<1>5. FramesPaired' /\ CountsRestore' /\ ~Counting'
  BY <1>1, QuietKeepsFrames
<1>6. ASSUME NEW s \in Slots PROVE SlotFits(s, client[s], s \in managed, s \in redone)'
  <2>1. SlotFits(s, client[s], s \in managed, s \in redone)
    BY <1>1, SlotsFit
  <2>2. CASE s \in managed
    <3>1. client[s] # NoClient /\ client[s] \in Client
      BY <1>2, <2>1, <2>2 DEF SlotFits
    <3>2. /\ client'[s] \in Client /\ client'[s].kind = client[s].kind
          /\ client'[s].phase = client[s].phase
          /\ client'[s].ctrl = "none" <=> client[s].ctrl = "none"
          /\ newMode = "Player" => client'[s].fake = FALSE /\ client'[s].ctrl # "fake"
          /\ newMode = "Bot" => client'[s].fake = TRUE /\ client'[s].ctrl # "player"
      <4>1. CASE newMode = "Player"
        <5>1. client'[s] = AsPlayer(client[s])
          BY <1>3, <2>2, <3>1, <4>1
        <5> QED
          BY <3>1, <4>1, <5>1, AsPlayerWrites
      <4>2. CASE newMode = "Bot"
        <5>1. client'[s] = AsBot(client[s])
          BY <1>3, <2>2, <3>1, <4>2
        <5> QED
          BY <3>1, <4>2, <5>1, AsBotWrites
      <4> QED
        BY <4>1, <4>2
    <3>3. client'[s] # NoClient /\ s \in managed' /\ (depth' # 0 => s \in redone')
      BY <1>1, <2>2, <3>2, PopulationAssumption
    <3> QED
      BY <1>1, <2>1, <2>2, <3>1, <3>2, <3>3 DEF SlotFits, LooksLikeBot, DueAt
  <2>3. CASE s \notin managed
    BY <1>1, <1>3, <2>1, <2>3 DEF SlotFits
  <2> QED
    BY <2>2, <2>3
<1> QED
  BY <1>4, <1>5, <1>6, FitSlotsSuffice DEF IndInv

LEMMA StartChangeLevelKeeps ==
  ASSUME IndInv, StartChangeLevel
  PROVE  IndInv'
<1>1. /\ ~Counting /\ level = "up" /\ managed' = {} /\ redone' = {}
      /\ client' = ManagedDisguise(client, FALSE)
      /\ UNCHANGED << mode, level, lives, depth, redisguise, identity, frames >>
  BY DEF StartChangeLevel, EngineMayAct
<1>2. client \in [Slots -> Client \cup {NoClient}] /\ managed \subseteq Slots
  BY DEF IndInv, TypeOK
<1>3. /\ client' \in [Slots -> Client \cup {NoClient}]
      /\ \A s \in Slots \ managed : client'[s] = client[s]
      /\ \A s \in managed : client[s] # NoClient => client'[s] = AsBot(client[s])
  BY <1>1, <1>2, DisguiseKeepsTypes DEF IndInv
<1>4. TypeOK'
  BY <1>1, <1>3 DEF IndInv, TypeOK
<1>5. FramesPaired' /\ CountsRestore' /\ ~Counting'
  BY <1>1, QuietKeepsFrames
<1>6. ASSUME NEW s \in Slots PROVE SlotFits(s, client[s], s \in managed, s \in redone)'
  <2>1. SlotFits(s, client[s], s \in managed, s \in redone)
    BY <1>1, SlotsFit
  <2>2. CASE s \in managed
    <3>1. client[s] # NoClient /\ client[s] \in Client
      BY <1>2, <2>1, <2>2 DEF SlotFits
    <3>2. client'[s] = AsBot(client[s])
      BY <1>3, <2>2, <3>1
    <3>3. /\ client'[s].kind = client[s].kind /\ client'[s].phase = client[s].phase
          /\ client'[s].ctrl = "none" <=> client[s].ctrl = "none"
          /\ client'[s].fake = TRUE /\ client'[s].ctrl # "player"
      BY <3>1, <3>2, AsBotWrites
    <3> QED
      BY <1>1, <2>1, <2>2, <3>1, <3>3 DEF SlotFits, DueAt
  <2>3. CASE s \notin managed
    BY <1>1, <1>3, <2>1, <2>3 DEF SlotFits
  <2> QED
    BY <2>2, <2>3
<1> QED
  BY <1>4, <1>5, <1>6, FitSlotsSuffice DEF IndInv

LEMMA OnLevelShutdownKeeps ==
  ASSUME IndInv, OnLevelShutdown
  PROVE  IndInv'
<1>1. /\ frames = << >> /\ level' = "down" /\ managed' = {} /\ mode' = "Bot"
      /\ UNCHANGED << client, lives, depth, redisguise, identity, redone, frames >>
  BY DEF OnLevelShutdown, txnVars
<1>2. ~Counting
  BY <1>1 DEF Counting
<1>3. TypeOK'
  BY <1>1 DEF IndInv, TypeOK
<1>4. FramesPaired' /\ CountsRestore' /\ ~Counting'
  BY <1>1, <1>2, QuietKeepsFrames
<1>5. \A s \in Slots : SlotFits(s, client[s], s \in managed, s \in redone)'
  BY <1>1, <1>2, SlotsFit DEF SlotFits
<1> QED
  BY <1>3, <1>4, <1>5, FitSlotsSuffice DEF IndInv

LEMMA OnLevelInitKeeps ==
  ASSUME IndInv, NEW newMode \in {"Bot", "Player"}, OnLevelInit(newMode)
  PROVE  IndInv'
<1>1. /\ level = "down" /\ level' = "up" /\ mode' = newMode
      /\ \A s \in Slots : Present(s) => client[s].kind = "human"
      /\ client' = ManagedDisguise(client, newMode = "Player")
      /\ UNCHANGED << lives, managed, depth, redisguise, identity, redone, frames >>
  BY DEF OnLevelInit, txnVars
<1>2. frames = << >> /\ managed = {} /\ ~Counting
  BY <1>1 DEF IndInv, FramesPaired, Counting
<1>3. client \in [Slots -> Client \cup {NoClient}] /\ client' = client
  BY <1>1, <1>2 DEF IndInv, TypeOK, ManagedDisguise
<1>4. TypeOK'
  BY <1>1, <1>3 DEF IndInv, TypeOK
<1>5. FramesPaired' /\ CountsRestore' /\ ~Counting'
  BY <1>1, <1>2, QuietKeepsFrames
<1>6. \A s \in Slots : SlotFits(s, client[s], s \in managed, s \in redone)'
  BY <1>1, <1>2, <1>3, SlotsFit DEF SlotFits, Present
<1> QED
  BY <1>4, <1>5, <1>6, FitSlotsSuffice DEF IndInv

-------------------------------------------------------------------------------
(* The hooks. *)

\* The stack after a new call; no count is below a call that is not one.
LEMMA PushPairs ==
  ASSUME IndInv, NEW kind \in {"population", "command", "count"}, NEW enabled \in BOOLEAN,
         NEW snaps \in Snapshots, Push(kind, enabled, snaps), Len(frames) < MaxFrames
  PROVE  /\ frames' \in Seq(Frame) /\ Len(frames') <= MaxFrames
         /\ Counting' <=> kind = "count"
         /\ Cardinality(Transactions') \in 0 .. MaxFrames
         /\ kind = "count" \/ ~Counting =>
              \A i, j \in 1 .. Len(frames') :
                i < j /\ frames'[i].kind = "count" => frames'[j].kind = "count"
<1> DEFINE n == Len(frames)
<1>1. TypeOK /\ n \in Nat /\ MaxFrames \in Nat /\ n < MaxFrames
  BY FramesAreCalls, PopulationAssumption DEF IndInv
<1>2. /\ frames' \in Seq(Frame)
      /\ Len(frames') = n + 1
      /\ \A i \in 1 .. n : frames'[i] = frames[i]
      /\ frames'[n + 1] = [kind |-> kind, enabled |-> enabled, restore |-> snaps]
  BY <1>1, PushAppends
<1>3. frames'[n + 1].kind = kind
  BY <1>2
<1>4. Cardinality(Transactions) \in 0 .. n
  BY <1>1, TransactionsAreFew
<1>5. Cardinality(Transactions') =
        Cardinality(Transactions) + (IF enabled /\ kind # "count" THEN 1 ELSE 0)
  BY <1>1, PushCounts
<1> HIDE DEF n
<1>6. Cardinality(Transactions') \in 0 .. MaxFrames /\ Len(frames') <= MaxFrames
  BY <1>1, <1>2, <1>4, <1>5
<1>7. Counting' <=> kind = "count"
  <2>1. frames' # << >>
    BY <1>1, <1>2, EmptySeq
  <2> QED
    BY <1>2, <1>3, <2>1 DEF Counting
<1>8. ASSUME kind = "count" \/ ~Counting, NEW i \in 1 .. n + 1, NEW j \in 1 .. n + 1,
             i < j, frames'[i].kind = "count"
      PROVE  frames'[j].kind = "count"
  <2>1. i \in 1 .. n /\ frames'[i] = frames[i]
    BY <1>1, <1>2, <1>8
  <2>2. kind = "count"
    <3>1. ASSUME ~Counting PROVE FALSE
      BY <1>8, <2>1, <3>1, NoCountBelow DEF IndInv, n
    <3> QED
      BY <1>8, <3>1
  <2>3. CASE j = n + 1
    BY <1>3, <2>2, <2>3
  <2>4. CASE j # n + 1
    <3>1. j \in 1 .. n /\ frames'[j] = frames[j]
      BY <1>1, <1>2, <2>4
    <3> QED
      BY <1>8, <2>1, <3>1 DEF IndInv, FramesPaired, n
  <2> QED
    BY <2>3, <2>4
<1> QED
  BY <1>2, <1>6, <1>7, <1>8

\* The stack after the end of a call.
LEMMA PopPairs ==
  ASSUME IndInv, frames # << >>, Pop
  PROVE  /\ frames' \in Seq(Frame) /\ Len(frames') <= MaxFrames
         /\ Counting' <=> Len(frames) > 1 /\ frames[Len(frames) - 1].kind = "count"
         /\ Cardinality(Transactions') \in 0 .. MaxFrames
         /\ \A i, j \in 1 .. Len(frames') :
              i < j /\ frames'[i].kind = "count" => frames'[j].kind = "count"
<1> DEFINE n == Len(frames)
<1>1. TypeOK /\ n \in Nat \ {0} /\ MaxFrames \in Nat /\ n <= MaxFrames
  BY FramesAreCalls, PopulationAssumption DEF IndInv, TypeOK
<1>2. /\ frames' \in Seq(Frame)
      /\ Len(frames') = n - 1
      /\ \A i \in 1 .. n - 1 : frames'[i] = frames[i]
  BY <1>1, PopDrops
<1>3. Cardinality(Transactions) \in 0 .. n /\ Cardinality(Transactions') \in 0 .. n
  <2>1. Cardinality(Transactions) \in 0 .. n
    BY <1>1, TransactionsAreFew
  <2>2. \/ Cardinality(Transactions') = Cardinality(Transactions)
        \/ /\ Cardinality(Transactions') = Cardinality(Transactions) - 1
           /\ n \in Transactions
    BY <1>1, <2>1, PopCounts DEF Transactions
  <2>3. n \in Transactions => Cardinality(Transactions) # 0
    BY <1>1, TransactionsAreFew, FS_EmptySet
  <2> HIDE DEF n
  <2> QED
    BY <1>1, <2>1, <2>2, <2>3
<1>4. Counting' <=> n > 1 /\ frames[n - 1].kind = "count"
  <2>1. frames' = << >> <=> n = 1
    BY <1>1, <1>2, EmptySeq
  <2>2. n > 1 => frames'[n - 1] = frames[n - 1]
    BY <1>1, <1>2
  <2> HIDE DEF n
  <2> QED
    BY <1>1, <1>2, <2>1, <2>2 DEF Counting
<1>5. \A i, j \in 1 .. n - 1 :
        i < j /\ frames'[i].kind = "count" => frames'[j].kind = "count"
  BY <1>1, <1>2 DEF IndInv, FramesPaired
<1> HIDE DEF n
<1>6. Cardinality(Transactions') \in 0 .. MaxFrames /\ Len(frames') <= MaxFrames
  BY <1>1, <1>2, <1>3
<1> QED
  BY <1>2, <1>4, <1>5, <1>6 DEF n

\* A capture turns the managed clients into bots and keeps the others.
LEMMA CaptureFits ==
  ASSUME TypeOK, ClientsInPlace, NEW s \in Slots
  PROVE  /\ s \notin managed => AfterCapture[s] = client[s]
         /\ s \in managed =>
              /\ AfterCapture[s] \in Client
              /\ AfterCapture[s].kind = client[s].kind
              /\ AfterCapture[s].life = client[s].life
              /\ AfterCapture[s].phase = client[s].phase
              /\ AfterCapture[s].fake = TRUE
              /\ AfterCapture[s].ctrl = IF client[s].ctrl = "none" THEN "none" ELSE "fake"
              /\ Captured[s] = [life |-> client[s].life, fake |-> client[s].fake,
                                ctrl |-> client[s].ctrl]
              /\ Captured[s] \in Snap
<1>1. CASE s \notin managed
  BY <1>1 DEF AfterCapture
<1>2. CASE s \in managed
  <2>1. Present(s) /\ client[s] \in Client
    BY <1>2 DEF ClientsInPlace, TypeOK, Present
  <2>2. AfterCapture[s] = AsBot(client[s])
    BY <1>2, <2>1 DEF AfterCapture
  <2>3. Captured[s] = [life |-> client[s].life, fake |-> client[s].fake,
                       ctrl |-> client[s].ctrl]
    BY <1>2, <2>1 DEF Captured
  <2>4. [life |-> client[s].life, fake |-> client[s].fake, ctrl |-> client[s].ctrl] \in Snap
    BY <2>1 DEF Client, Snap
  <2>5. /\ AsBot(client[s]) \in Client
        /\ AsBot(client[s]).kind = client[s].kind /\ AsBot(client[s]).life = client[s].life
        /\ AsBot(client[s]).phase = client[s].phase
        /\ AsBot(client[s]).fake = TRUE
        /\ AsBot(client[s]).ctrl = IF client[s].ctrl = "none" THEN "none" ELSE "fake"
    BY <2>1, AsBotWrites
  <2> QED
    BY <1>2, <2>1, <2>2, <2>3, <2>4, <2>5, Zenon
<1> QED
  BY <1>1, <1>2

LEMMA BeginKeeps ==
  ASSUME IndInv, NEW kind \in {"population", "command"}, NEW enabled \in BOOLEAN,
         enabled => mode = "Player", BeginPopulationFrame(kind, enabled)
  PROVE  IndInv'
<1>1. /\ ~Counting /\ level = "up" /\ Len(frames) < MaxFrames
      /\ Push(kind, enabled, NoSnapshots)
      /\ UNCHANGED << mode, level, lives, managed, redone >>
      /\ IF enabled THEN BeginPopulationTransaction(TRUE)
                    ELSE UNCHANGED << depth, redisguise, identity, client >>
  BY DEF BeginPopulationFrame, BeginPopulationTransaction, EngineMayAct, txnVars
<1>2. /\ NoSnapshots \in Snapshots /\ Captured \in Snapshots
      /\ AfterCapture \in [Slots -> Client \cup {NoClient}]
  BY CaptureKeepsTypes DEF IndInv
<1>3. /\ frames' \in Seq(Frame) /\ Len(frames') <= MaxFrames /\ ~Counting'
      /\ Cardinality(Transactions') \in 0 .. MaxFrames
      /\ \A i, j \in 1 .. Len(frames') :
           i < j /\ frames'[i].kind = "count" => frames'[j].kind = "count"
      /\ Cardinality(Transactions') = Cardinality(Transactions) + (IF enabled THEN 1 ELSE 0)
  BY <1>1, <1>2, PushPairs, PushCounts DEF IndInv
<1>4. depth \in Nat /\ depth = Cardinality(Transactions) /\ (depth # 0 => redisguise)
  BY DEF IndInv, TypeOK, FramesPaired
<1>5. /\ depth' = Cardinality(Transactions')
      /\ depth' # 0 => redisguise'
      /\ redisguise' \in BOOLEAN /\ identity' \in Snapshots
      /\ client' = IF enabled /\ depth = 0 THEN AfterCapture ELSE client
      /\ enabled => depth' # 0
      /\ depth # 0 => depth' # 0
      /\ ~enabled => depth' = depth
  <2>1. redisguise \in BOOLEAN /\ identity \in Snapshots
    BY DEF IndInv, TypeOK
  <2>2. CASE enabled
    <3>1. /\ depth' = depth + 1
          /\ depth = 0 => redisguise' = TRUE /\ identity' = Captured /\ client' = AfterCapture
          /\ depth # 0 => redisguise' = (redisguise \/ TRUE)
                          /\ identity' = identity /\ client' = client
      BY <1>1, <2>2 DEF BeginPopulationTransaction
    <3>2. redisguise' = TRUE
      BY <3>1
    <3>3. redisguise' /\ redisguise' \in BOOLEAN
      BY <3>2
    <3>4. depth' = Cardinality(Transactions') /\ depth' # 0
      BY <1>3, <1>4, <2>2, <3>1
    <3> QED
      BY <1>2, <2>1, <2>2, <3>1, <3>3, <3>4
  <2>3. CASE ~enabled
    <3>1. UNCHANGED << depth, redisguise, identity, client >>
      BY <1>1, <2>3
    <3>2. depth' = Cardinality(Transactions')
      BY <1>3, <1>4, <2>3, <3>1
    <3> QED
      BY <1>4, <2>1, <2>3, <3>1, <3>2
  <2> QED
    BY <2>2, <2>3
<1>6. TypeOK'
  BY <1>1, <1>2, <1>3, <1>5 DEF IndInv, TypeOK
<1>7. \A i \in 1 .. Len(frames') : frames'[i].kind # "count"
  <2>1. Len(frames') \in Nat /\ \A i \in 1 .. Len(frames') : i = Len(frames') \/ i < Len(frames')
    BY <1>6, FramesAreCalls
  <2>2. frames' # << >> => frames'[Len(frames')].kind # "count"
    BY <1>3 DEF Counting
  <2>3. ASSUME NEW i \in 1 .. Len(frames'), frames'[i].kind = "count" PROVE FALSE
    <3>1. Len(frames') \in 1 .. Len(frames') /\ frames' # << >>
      BY <2>1, <2>3, EmptySeq
    <3> QED
      BY <1>3, <2>1, <2>2, <2>3, <3>1
  <2> QED
    BY <2>3
<1>8. FramesPaired'
  BY <1>1, <1>3, <1>5, <1>7 DEF FramesPaired
<1>9. CountsRestore'
  BY <1>7 DEF CountsRestore
<1>10. ASSUME NEW s \in Slots PROVE SlotFits(s, client[s], s \in managed, s \in redone)'
  <2>1. SlotFits(s, client[s], s \in managed, s \in redone)
    BY <1>1, SlotsFit
  <2>2. CASE enabled /\ depth = 0 /\ s \in managed
    <3>1. client'[s] = AfterCapture[s]
      BY <1>5, <2>2
    <3>a. TypeOK /\ ClientsInPlace
      BY DEF IndInv
    <3>b. /\ AfterCapture[s] \in Client
          /\ AfterCapture[s].kind = client[s].kind /\ AfterCapture[s].life = client[s].life
          /\ AfterCapture[s].phase = client[s].phase
          /\ AfterCapture[s].fake = TRUE
          /\ AfterCapture[s].ctrl = IF client[s].ctrl = "none" THEN "none" ELSE "fake"
      BY <2>2, <3>a, CaptureFits, Zenon
    <3>2. /\ client'[s] \in Client
          /\ client'[s].kind = client[s].kind /\ client'[s].phase = client[s].phase
          /\ client'[s].ctrl = IF client[s].ctrl = "none" THEN "none" ELSE "fake"
      BY <3>1, <3>b
    <3>3. client'[s] # NoClient /\ mode = "Player" /\ depth' # 0
      BY <1>5, <2>2, <3>2, PopulationAssumption
    <3> QED
      BY <1>1, <2>1, <2>2, <3>2, <3>3 DEF SlotFits, DueAt
  <2>3. CASE ~(enabled /\ depth = 0 /\ s \in managed)
    <3>1. client'[s] = client[s]
      BY <1>5, <2>3, CaptureFits DEF IndInv
    <3>2. s \in managed => (depth' = 0 <=> depth = 0)
      BY <1>5, <2>3
    <3> QED
      BY <1>1, <2>1, <3>1, <3>2 DEF SlotFits, LooksLikeBot, DueAt
  <2> QED
    BY <2>2, <2>3
<1> QED
  BY <1>3, <1>6, <1>8, <1>9, <1>10, FitSlotsSuffice DEF IndInv

LEMMA EndKeeps ==
  ASSUME IndInv, EndPopulationFrame
  PROVE  IndInv'
<1> DEFINE top == frames[Len(frames)]
           again == top.kind = "population" \/ IsDisguiseEnabled
<1>1. /\ frames # << >> /\ top.kind # "count" /\ Pop
      /\ UNCHANGED << mode, level, lives, managed >>
      /\ IF top.enabled THEN EndPopulationTransaction(again)
                        ELSE UNCHANGED << depth, redisguise, identity, redone, client >>
  BY DEF EndPopulationFrame, txnVars
<1>2. ~Counting
  BY <1>1 DEF Counting
<1>3. /\ frames' \in Seq(Frame) /\ Len(frames') <= MaxFrames
      /\ Cardinality(Transactions') \in 0 .. MaxFrames
      /\ Cardinality(Transactions') = Cardinality(Transactions) - (IF top.enabled THEN 1 ELSE 0)
      /\ Len(frames') = Len(frames) - 1
      /\ \A i \in 1 .. Len(frames) - 1 : frames'[i] = frames[i]
  BY <1>1, PopPairs, PopCounts, PopDrops DEF IndInv
<1>4. \A i \in 1 .. Len(frames') : frames'[i].kind # "count"
  <2>1. Len(frames) \in Nat
    BY FramesAreCalls DEF IndInv
  <2>2. \A i \in 1 .. Len(frames) : frames[i].kind # "count"
    BY <1>2, NoCountBelow DEF IndInv
  <2> QED
    BY <1>3, <2>1, <2>2
<1>5. ~Counting' /\ CountsRestore'
  <2>1. frames' # << >> => Len(frames') \in 1 .. Len(frames')
    BY <1>3, EmptySeq
  <2> QED
    BY <1>4, <2>1 DEF Counting, CountsRestore
<1>6. depth \in Nat /\ depth = Cardinality(Transactions) /\ (depth # 0 => redisguise)
  BY DEF IndInv, TypeOK, FramesPaired
<1>7. /\ client \in [Slots -> Client \cup {NoClient}] /\ managed \subseteq Slots
      /\ identity \in Snapshots /\ redisguise \in BOOLEAN /\ redone \subseteq Slots
  BY DEF IndInv, TypeOK
<1> DEFINE restored == Restored(identity)
           disguised == ManagedDisguise(restored, IsDisguiseEnabled)
<1>8. /\ restored \in [Slots -> Client \cup {NoClient}]
      /\ disguised \in [Slots -> Client \cup {NoClient}]
      /\ \A s \in Slots \ managed : disguised[s] = client[s]
      /\ \A s \in managed : restored[s] # NoClient =>
           disguised[s] = IF IsDisguiseEnabled THEN AsPlayer(restored[s]) ELSE AsBot(restored[s])
  <2>1. IsDisguiseEnabled \in BOOLEAN
    BY DEF IsDisguiseEnabled
  <2> QED
    BY <1>7, <2>1, RestoreKeepsTypes, DisguiseKeepsTypes DEF IndInv
<1> HIDE DEF restored, disguised, again
<1>9. /\ depth' = Cardinality(Transactions')
      /\ depth' # 0 => redisguise' /\ depth # 0
      /\ redisguise' \in BOOLEAN /\ identity' \in Snapshots /\ redone' \subseteq Slots
      /\ client' = IF top.enabled /\ depth = 1 THEN disguised ELSE client
      /\ top.enabled /\ depth = 1 => depth' = 0
      /\ ~(top.enabled /\ depth = 1) => redone' = redone /\ (depth' = 0 <=> depth = 0)
  <2>1. CASE top.enabled /\ depth = 1
    <3>1. /\ depth' = depth - 1 /\ redisguise' = FALSE /\ identity' = NoSnapshots
          /\ redone' = {} /\ client' = AfterEnd(redisguise \/ again)
      BY <1>1, <2>1 DEF EndPopulationTransaction
    <3>2. AfterEnd(redisguise \/ again) = disguised
      BY <1>6, <2>1 DEF AfterEnd, disguised, restored
    <3>3. NoSnapshots \in Snapshots
      BY DEF NoSnapshots, Snapshots
    <3>4. depth' = 0 /\ depth' = Cardinality(Transactions')
      BY <1>3, <1>6, <2>1, <3>1
    <3> QED
      BY <2>1, <3>1, <3>2, <3>3, <3>4
  <2>2. CASE top.enabled /\ depth # 1
    <3>1. /\ depth # 0 /\ depth' = depth - 1 /\ redisguise' = (redisguise \/ again)
          /\ UNCHANGED << identity, redone, client >>
      BY <1>1, <2>2 DEF EndPopulationTransaction
    <3>2. redisguise' = TRUE
      BY <1>6, <3>1
    <3>3. redisguise' /\ redisguise' \in BOOLEAN
      BY <3>2
    <3>4. depth' # 0 /\ depth' = Cardinality(Transactions')
      BY <1>3, <1>6, <2>2, <3>1
    <3> QED
      BY <1>7, <2>2, <3>1, <3>3, <3>4
  <2>3. CASE ~top.enabled
    <3>1. depth' = Cardinality(Transactions')
      BY <1>1, <1>3, <1>6, <2>3
    <3> QED
      BY <1>1, <1>6, <1>7, <2>3, <3>1
  <2> QED
    BY <2>1, <2>2, <2>3
<1>10. TypeOK'
  BY <1>1, <1>3, <1>7, <1>8, <1>9 DEF IndInv, TypeOK
<1>11. FramesPaired'
  <2>1. level' = "down" => frames' = << >> /\ managed' = {}
    BY <1>1 DEF IndInv, FramesPaired
  <2> QED
    BY <1>4, <1>9, <2>1 DEF FramesPaired
<1>12. ASSUME NEW s \in Slots PROVE SlotFits(s, client[s], s \in managed, s \in redone)'
  <2>1. SlotFits(s, client[s], s \in managed, s \in redone)
    BY <1>2, SlotsFit
  <2>2. CASE top.enabled /\ depth = 1 /\ s \in managed
    <3>1. Present(s) /\ client'[s] = disguised[s]
      BY <1>9, <2>1, <2>2 DEF SlotFits, Present
    <3>2. /\ restored[s] \in Client /\ restored[s].kind = client[s].kind
          /\ restored[s].phase = client[s].phase
          /\ restored[s].ctrl = "none" <=> client[s].ctrl = "none"
      BY <1>7, <3>1, RestoreKeepsTypes DEF IndInv, restored
    <3>3. restored[s] # NoClient /\ mode \in {"Bot", "Player"}
      BY <3>2, PopulationAssumption DEF IndInv, TypeOK
    <3>4. /\ client'[s] \in Client /\ client'[s].kind = client[s].kind
          /\ client'[s].phase = client[s].phase
          /\ client'[s].ctrl = "none" <=> client[s].ctrl = "none"
          /\ mode = "Player" => client'[s].fake = FALSE /\ client'[s].ctrl # "fake"
          /\ mode = "Bot" => client'[s].fake = TRUE /\ client'[s].ctrl # "player"
      <4>1. CASE mode = "Player"
        <5>1. client'[s] = AsPlayer(restored[s])
          BY <1>8, <2>2, <3>1, <3>3, <4>1 DEF IsDisguiseEnabled
        <5>2. /\ AsPlayer(restored[s]) \in Client
              /\ AsPlayer(restored[s]).kind = restored[s].kind
              /\ AsPlayer(restored[s]).phase = restored[s].phase
              /\ AsPlayer(restored[s]).fake = FALSE
              /\ AsPlayer(restored[s]).ctrl =
                   IF restored[s].ctrl = "none" THEN "none" ELSE "player"
          BY <3>2, AsPlayerWrites, Zenon
        <5> QED
          BY <3>2, <4>1, <5>1, <5>2
      <4>2. CASE mode = "Bot"
        <5>1. client'[s] = AsBot(restored[s])
          BY <1>8, <2>2, <3>1, <3>3, <4>2 DEF IsDisguiseEnabled
        <5>2. /\ AsBot(restored[s]) \in Client
              /\ AsBot(restored[s]).kind = restored[s].kind
              /\ AsBot(restored[s]).phase = restored[s].phase
              /\ AsBot(restored[s]).fake = TRUE
              /\ AsBot(restored[s]).ctrl = IF restored[s].ctrl = "none" THEN "none" ELSE "fake"
          BY <3>2, AsBotWrites, Zenon
        <5> QED
          BY <3>2, <4>2, <5>1, <5>2
      <4> QED
        BY <3>3, <4>1, <4>2
    <3>5. client'[s] # NoClient /\ client[s] # NoClient /\ depth' = 0
      BY <1>9, <2>2, <3>1, <3>4, PopulationAssumption DEF Present
    <3> QED
      BY <1>1, <2>1, <2>2, <3>3, <3>4, <3>5 DEF SlotFits, LooksLikeBot, DueAt
  <2>3. CASE ~(top.enabled /\ depth = 1 /\ s \in managed)
    <3>1. client'[s] = client[s]
      BY <1>8, <1>9, <2>3
    <3>2. s \in managed => (depth' = 0 <=> depth = 0) /\ redone' = redone
      BY <1>9, <2>3
    <3> QED
      BY <1>1, <2>1, <3>1, <3>2 DEF SlotFits, LooksLikeBot, DueAt
  <2> QED
    BY <2>2, <2>3
<1> QED
  BY <1>5, <1>10, <1>11, <1>12, FitSlotsSuffice DEF IndInv

\* Clients whose flags only were written are still in place; the flags of those
\* that are not managed were not written.
LEMMA FlagWritesKeepPlace ==
  ASSUME IndInv, TypeOK', UNCHANGED << level, managed >>,
         \A s \in Slots \ managed : client'[s] = client[s],
         \A s \in managed : /\ client'[s] \in Client
                            /\ client'[s].kind = client[s].kind
                            /\ client'[s].phase = client[s].phase
                            /\ client'[s].ctrl = "none" <=> client[s].ctrl = "none"
  PROVE  ClientsInPlace' /\ UnmanagedUntouched'
<1>1. ASSUME NEW s \in managed
      PROVE  /\ client[s] # NoClient /\ client'[s] # NoClient
             /\ client[s].phase # "leaving" /\ client[s].kind # "human"
             /\ client[s].phase = "active" => client[s].ctrl # "none"
  <2>1. s \in Slots /\ Present(s) /\ client[s].phase # "leaving"
    BY DEF IndInv, TypeOK, ClientsInPlace
  <2>2. client'[s] # NoClient
    BY PopulationAssumption
  <2> QED
    BY <2>1, <2>2 DEF IndInv, ClientsInPlace, UnmanagedUntouched, Present
<1>2. managed' = managed /\ level' = level /\ managed \subseteq Slots
  BY DEF IndInv, TypeOK
<1>3. ClientsInPlace'
  BY <1>1, <1>2 DEF IndInv, ClientsInPlace, Present
<1>4. UnmanagedUntouched'
  BY <1>1, <1>2 DEF IndInv, UnmanagedUntouched, Present
<1> QED
  BY <1>3, <1>4

LEMMA CountPreKeeps ==
  ASSUME IndInv, CountPre
  PROVE  IndInv'
<1> DEFINE n == Len(frames)
           snaps == IF CountCaptures THEN Captured ELSE NoSnapshots
<1>1. /\ level = "up" /\ n < MaxFrames
      /\ Push("count", CountCaptures, snaps)
      /\ client' = IF CountCaptures THEN AfterCapture ELSE client
      /\ UNCHANGED << mode, level, lives, managed, depth, redisguise, identity, redone >>
  BY DEF CountPre, txnVars
<1>2. /\ Captured \in Snapshots /\ snaps \in Snapshots /\ CountCaptures \in BOOLEAN
      /\ AfterCapture \in [Slots -> Client \cup {NoClient}]
      /\ CountCaptures <=> mode = "Player"
  BY CaptureKeepsTypes DEF IndInv, CountCaptures, IsDisguiseEnabled
<1>3. /\ mode \in {"Bot", "Player"} /\ managed \subseteq Slots /\ n \in Nat
      /\ client \in [Slots -> Client \cup {NoClient}]
  BY FramesAreCalls DEF IndInv, TypeOK
<1>4. /\ frames' \in Seq(Frame) /\ Len(frames') <= MaxFrames /\ Counting'
      /\ Cardinality(Transactions') = Cardinality(Transactions)
      /\ \A i, j \in 1 .. Len(frames') :
           i < j /\ frames'[i].kind = "count" => frames'[j].kind = "count"
  <2>1. Cardinality(Transactions) \in Nat
    BY TransactionsAreFew, FS_CardinalityType DEF IndInv
  <2> QED
    BY <1>1, <1>2, <2>1, PushPairs, PushCounts DEF IndInv
<1>5. /\ Len(frames') = n + 1
      /\ \A i \in 1 .. n : frames'[i] = frames[i]
      /\ frames'[n + 1] = [kind |-> "count", enabled |-> CountCaptures, restore |-> snaps]
  BY <1>1, <1>2, PushAppends DEF IndInv
<1> HIDE DEF snaps
<1>6. /\ frames'[n + 1].kind = "count" /\ frames'[n + 1].enabled = CountCaptures
      /\ frames'[n + 1].restore = snaps
  BY <1>5
<1> HIDE DEF n
<1>7. TypeOK'
  BY <1>1, <1>2, <1>4 DEF IndInv, TypeOK
<1>8. FramesPaired'
  <2>1. ASSUME NEW i \in 1 .. n + 1, frames'[i].kind = "count"
        PROVE  /\ frames'[i].enabled <=> mode = "Player"
               /\ mode = "Bot" => frames'[i].restore = NoSnapshots
    <3>1. CASE i = n + 1
      BY <1>2, <1>6, <3>1 DEF snaps
    <3>2. CASE i # n + 1
      <4>1. i \in 1 .. n /\ frames'[i] = frames[i]
        BY <1>3, <1>5, <3>2
      <4> QED
        BY <2>1, <4>1 DEF IndInv, FramesPaired, n
    <3> QED
      BY <3>1, <3>2
  <2>2. depth' = Cardinality(Transactions') /\ (depth' # 0 => redisguise') /\ level' = "up"
    BY <1>1, <1>4 DEF IndInv, FramesPaired
  <2> QED
    BY <1>1, <1>4, <1>5, <2>1, <2>2 DEF FramesPaired
<1>9. ASSUME NEW s \in managed
      PROVE  /\ client[s] \in Client /\ client'[s] \in Client
             /\ client'[s].kind = client[s].kind /\ client'[s].life = client[s].life
             /\ client'[s].phase = client[s].phase
             /\ client'[s].ctrl = "none" <=> client[s].ctrl = "none"
             /\ LooksLikeBot(client'[s])
  <2>1. s \in Slots /\ Present(s) /\ client[s] \in Client
    BY <1>3 DEF IndInv, ClientsInPlace, Present
  <2>2. CASE CountCaptures
    <3>1. client'[s] = AfterCapture[s]
      BY <1>1, <2>2
    <3>a. TypeOK /\ ClientsInPlace
      BY DEF IndInv
    <3>b. /\ AfterCapture[s] \in Client
          /\ AfterCapture[s].kind = client[s].kind /\ AfterCapture[s].life = client[s].life
          /\ AfterCapture[s].phase = client[s].phase
          /\ AfterCapture[s].fake = TRUE
          /\ AfterCapture[s].ctrl = IF client[s].ctrl = "none" THEN "none" ELSE "fake"
      BY <2>1, <3>a, CaptureFits, Zenon
    <3>2. /\ client'[s] \in Client
          /\ client'[s].kind = client[s].kind /\ client'[s].life = client[s].life
          /\ client'[s].phase = client[s].phase
          /\ client'[s].fake = TRUE
          /\ client'[s].ctrl = IF client[s].ctrl = "none" THEN "none" ELSE "fake"
      BY <3>1, <3>b
    <3> QED
      BY <2>1, <3>2 DEF LooksLikeBot
  <2>3. CASE ~CountCaptures
    <3>1. client'[s] = client[s] /\ mode = "Bot"
      BY <1>1, <1>2, <1>3, <2>3
    <3> QED
      BY <2>1, <3>1 DEF IndInv, FlagsNow
  <2> QED
    BY <2>2, <2>3
<1>10. \A s \in Slots \ managed : client'[s] = client[s]
  BY <1>1, CaptureFits DEF IndInv
<1>11. ClientsInPlace' /\ UnmanagedUntouched'
  BY <1>1, <1>7, <1>9, <1>10, FlagWritesKeepPlace
<1>12. FlagsNow'
  BY <1>1, <1>4, <1>9 DEF FlagsNow
<1>13. CountsRestore'
  <2>1. ASSUME mode = "Player", NEW i \in 1 .. n + 1, frames'[i].kind = "count"
        PROVE  Restorable(i)'
    <3>1. managed' = managed /\ depth' = depth /\ redone' = redone
          /\ \A s \in managed : client'[s].phase = client[s].phase
      BY <1>1, <1>9
    <3>2. CASE i = n + 1
      <4>1. ASSUME NEW s \in managed, NEW snap, snap = Captured[s]
            PROVE  /\ snap # NoSnap
                   /\ snap.life = client'[s].life
                   /\ snap.ctrl = "none" <=> client'[s].ctrl = "none"
                   /\ IF Counting THEN LooksLikeBot(snap) ELSE Due(s, snap)
        <5>1. /\ snap = [life |-> client[s].life, fake |-> client[s].fake,
                         ctrl |-> client[s].ctrl]
              /\ snap \in Snap
          BY <1>3, <4>1, CaptureFits DEF IndInv
        <5>2. snap # NoSnap
          BY <5>1, PopulationAssumption
        <5>3. snap.life = client[s].life /\ snap.fake = client[s].fake /\ snap.ctrl = client[s].ctrl
          BY <5>1
        <5>4. IF Counting THEN LooksLikeBot(client[s]) ELSE Due(s, client[s])
          BY <2>1, <1>3 DEF IndInv, FlagsNow
        <5>5. IF Counting THEN LooksLikeBot(snap) ELSE Due(s, snap)
          BY <5>3, <5>4 DEF LooksLikeBot, Due, DueAt
        <5>6. snap.life = client'[s].life /\ (snap.ctrl = "none" <=> client'[s].ctrl = "none")
          BY <1>9, <5>3
        <5> QED
          BY <5>2, <5>5, <5>6
      <4>2. i > 1 /\ frames'[i - 1].kind = "count" <=> Counting
        <5>1. i > 1 => frames'[i - 1] = frames[n]
          BY <1>3, <1>5, <3>2
        <5>2. Counting <=> n # 0 /\ frames[n].kind = "count"
          BY FramesAreCalls DEF IndInv, n
        <5> QED
          BY <1>3, <3>2, <5>1, <5>2
      <4>3. \A s \in managed : frames'[i].restore[s] = Captured[s]
        BY <1>2, <1>6, <2>1, <3>2 DEF snaps
      <4>4. ASSUME NEW s \in managed
            PROVE  LET snap == frames'[i].restore[s]
                   IN  /\ snap # NoSnap
                       /\ snap.life = client'[s].life
                       /\ snap.ctrl = "none" <=> client'[s].ctrl = "none"
                       /\ IF i > 1 /\ frames'[i - 1].kind = "count"
                            THEN LooksLikeBot(snap)
                            ELSE DueAt(depth, s \in redone, client[s].phase, snap)
        BY <4>1, <4>2, <4>3 DEF Due
      <4> QED
        BY <3>1, <4>4 DEF Restorable, LooksLikeBot, Due
    <3>3. CASE i # n + 1
      <4>1. i \in 1 .. n /\ frames'[i] = frames[i] /\ (i > 1 => frames'[i - 1] = frames[i - 1])
        BY <1>3, <1>5, <3>3
      <4>2. Restorable(i)
        BY <2>1, <4>1 DEF IndInv, CountsRestore, n
      <4> QED
        BY <1>9, <3>1, <4>1, <4>2 DEF Restorable, Due
    <3> QED
      BY <3>2, <3>3
  <2> QED
    BY <1>1, <1>5, <2>1 DEF CountsRestore
<1> QED
  BY <1>7, <1>8, <1>11, <1>12, <1>13 DEF IndInv

\* The end of a count gives a managed client the flags of the snapshot.
LEMMA CountRestores ==
  ASSUME IndInv, Counting, mode = "Player", NEW s \in managed
  PROVE  LET snaps == frames[Len(frames)].restore
         IN  /\ Restored(snaps)[s].fake = (client[s].fake /\ snaps[s].fake)
             /\ Restored(snaps)[s].ctrl =
                  IF client[s].ctrl # "none" /\ snaps[s].ctrl = "player" THEN "player"
                                                                     ELSE client[s].ctrl
             /\ Restored(snaps)[s].life = client[s].life
<1> DEFINE n == Len(frames)
           snaps == frames[n].restore
<1>1. n \in 1 .. n /\ frames[n] \in Frame /\ frames[n].kind = "count"
  BY FramesAreCalls DEF IndInv
<1>2. snaps \in Snapshots
  BY <1>1 DEF Frame
<1>3. s \in Slots /\ Present(s) /\ client[s] \in Client
  BY DEF IndInv, TypeOK, ClientsInPlace, Present
<1>4. snaps[s] # NoSnap /\ snaps[s].life = client[s].life
  BY <1>1 DEF IndInv, CountsRestore, Restorable
<1> HIDE DEF snaps
<1>5. snaps[s] \in Snap
  BY <1>2, <1>3, <1>4 DEF Snapshots
<1>6. Restored(snaps)[s] = RestoredClient(client[s], snaps[s])
  BY <1>3, <1>4 DEF Restored, StillCaptured
<1> QED
  BY <1>3, <1>5, <1>6, RestoredWrites DEF snaps

LEMMA CountPostKeeps ==
  ASSUME IndInv, CountPost
  PROVE  IndInv'
<1> DEFINE n == Len(frames)
           snaps == frames[n].restore
<1>1. /\ Counting /\ Pop /\ client' = Restored(snaps)
      /\ UNCHANGED << mode, level, lives, managed, depth, redisguise, identity, redone >>
  BY DEF CountPost, txnVars
<1>2. /\ n \in Nat \ {0} /\ frames # << >> /\ frames[n].kind = "count" /\ n \in 1 .. n
      /\ frames[n] \in Frame
  BY <1>1, FramesAreCalls DEF IndInv
<1>3. snaps \in Snapshots
  BY <1>2 DEF Frame
<1>4. /\ mode \in {"Bot", "Player"} /\ managed \subseteq Slots
      /\ client \in [Slots -> Client \cup {NoClient}]
  BY DEF IndInv, TypeOK
<1>5. /\ frames' \in Seq(Frame) /\ Len(frames') <= MaxFrames
      /\ Counting' <=> n > 1 /\ frames[n - 1].kind = "count"
      /\ Cardinality(Transactions') = Cardinality(Transactions)
      /\ \A i, j \in 1 .. Len(frames') :
           i < j /\ frames'[i].kind = "count" => frames'[j].kind = "count"
      /\ Len(frames') = n - 1
      /\ \A i \in 1 .. n - 1 : frames'[i] = frames[i]
  <2>1. Cardinality(Transactions) \in Nat
    BY TransactionsAreFew, FS_CardinalityType DEF IndInv
  <2> QED
    BY <1>1, <1>2, <2>1, PopPairs, PopCounts, PopDrops DEF IndInv
<1>6. /\ client' \in [Slots -> Client \cup {NoClient}]
      /\ \A s \in Slots \ managed : client'[s] = client[s]
      /\ \A s \in managed :
           /\ client'[s] \in Client
           /\ client'[s].kind = client[s].kind
           /\ client'[s].phase = client[s].phase
           /\ client'[s].ctrl = "none" <=> client[s].ctrl = "none"
  <2>1. \A s \in managed : s \in Slots /\ Present(s)
    BY <1>4 DEF IndInv, ClientsInPlace
  <2> HIDE DEF snaps
  <2> QED
    BY <1>1, <1>3, <2>1, RestoreKeepsTypes DEF IndInv
<1>7. TypeOK'
  BY <1>1, <1>5, <1>6 DEF IndInv, TypeOK
<1>8. FramesPaired'
  <2>1. ASSUME NEW i \in 1 .. n - 1, frames'[i].kind = "count"
        PROVE  /\ frames'[i].enabled <=> mode = "Player"
               /\ mode = "Bot" => frames'[i].restore = NoSnapshots
    <3>1. i \in 1 .. n /\ frames'[i] = frames[i]
      BY <1>2, <1>5
    <3> QED
      BY <2>1, <3>1 DEF IndInv, FramesPaired
  <2>2. depth' = Cardinality(Transactions') /\ (depth' # 0 => redisguise')
    BY <1>1, <1>5 DEF IndInv, FramesPaired
  <2>3. level' # "down"
    BY <1>1, <1>2 DEF IndInv, FramesPaired
  <2> HIDE DEF n
  <2> QED
    BY <1>1, <1>5, <2>1, <2>2, <2>3 DEF FramesPaired
<1>9. ClientsInPlace' /\ UnmanagedUntouched'
  BY <1>1, <1>6, <1>7, FlagWritesKeepPlace
<1>10. CASE mode = "Bot"
  <2>1. snaps = NoSnapshots
    BY <1>2, <1>10 DEF IndInv, FramesPaired
  <2>2. client' = client
    <3>1. \A s \in Slots : ~StillCaptured(s, NoSnapshots)
      BY DEF StillCaptured, NoSnapshots
    <3> QED
      BY <1>1, <1>4, <2>1, <3>1 DEF Restored
  <2>3. FlagsNow'
    BY <1>1, <1>10, <2>2 DEF IndInv, FlagsNow
  <2>4. CountsRestore'
    BY <1>1, <1>10 DEF CountsRestore
  <2> QED
    BY <1>7, <1>8, <1>9, <2>3, <2>4 DEF IndInv
<1>11. CASE mode = "Player"
  <2>1. ASSUME NEW s \in managed
        PROVE  /\ client'[s].life = client[s].life
               /\ Counting' => LooksLikeBot(client'[s])
               /\ ~Counting' => DueAt(depth, s \in redone, client[s].phase, client'[s])
    <3> DEFINE snap == snaps[s]
    <3>1. /\ snap.ctrl = "none" <=> client[s].ctrl = "none"
          /\ IF Counting' THEN LooksLikeBot(snap)
             ELSE DueAt(depth, s \in redone, client[s].phase, snap)
      <4>1. Restorable(n)
        BY <1>2, <1>11 DEF IndInv, CountsRestore
      <4> QED
        BY <1>5, <4>1 DEF Restorable, Due
    <3>2. /\ client'[s].fake = (client[s].fake /\ snap.fake)
          /\ client'[s].ctrl = IF client[s].ctrl # "none" /\ snap.ctrl = "player" THEN "player"
                               ELSE client[s].ctrl
          /\ client'[s].life = client[s].life
      BY <1>1, <1>11, CountRestores
    <3>3. LooksLikeBot(client[s]) /\ client[s] \in Client /\ snap \in Snap
      <4>1. Restorable(n)
        BY <1>2, <1>11 DEF IndInv, CountsRestore
      <4>2. snap # NoSnap
        BY <4>1 DEF Restorable
      <4> QED
        BY <1>1, <1>3, <1>4, <4>2 DEF IndInv, FlagsNow, ClientsInPlace, Present, Snapshots
    <3> HIDE DEF snap
    <3>4. ASSUME Counting' PROVE LooksLikeBot(client'[s])
      BY <3>1, <3>2, <3>3, <3>4 DEF LooksLikeBot
    <3>5. ASSUME ~Counting'
          PROVE DueAt(depth, s \in redone, client[s].phase, client'[s])
      <4>1. client[s].ctrl \in {"none", "fake"} /\ snap.ctrl \in {"none", "fake", "player"}
        BY <3>3 DEF LooksLikeBot, Client, Snap
      <4> QED
        BY <3>1, <3>2, <3>3, <3>5, <4>1 DEF DueAt
    <3> QED
      BY <3>2, <3>4, <3>5
  <2>2. FlagsNow'
    BY <1>1, <1>6, <1>11, <2>1 DEF FlagsNow, Due, LooksLikeBot
  <2>3. ASSUME NEW i \in 1 .. n - 1, frames'[i].kind = "count"
        PROVE  Restorable(i)'
    <3>1. /\ i \in 1 .. n /\ frames'[i] = frames[i]
          /\ i > 1 => frames'[i - 1] = frames[i - 1]
      BY <1>2, <1>5
    <3>2. Restorable(i)
      BY <1>11, <2>3, <3>1 DEF IndInv, CountsRestore
    <3> QED
      BY <1>1, <1>6, <2>1, <3>1, <3>2 DEF Restorable, Due
  <2>4. CountsRestore'
    BY <1>5, <2>3 DEF CountsRestore
  <2> QED
    BY <1>7, <1>8, <1>9, <2>2, <2>4 DEF IndInv
<1> QED
  BY <1>4, <1>10, <1>11

-------------------------------------------------------------------------------
(* The theorems. *)

LEMMA NextKeeps == IndInv /\ [Next]_vars => IndInv'
<1> SUFFICES ASSUME IndInv, [Next]_vars PROVE IndInv'
  OBVIOUS
<1>1. CASE HookStep
  <2>1. CASE QuotaPre
    BY <2>1, BeginKeeps DEF QuotaPre, IsDisguiseEnabled
  <2>2. ASSUME NEW s \in Slots, JoinTeamPre(s) PROVE IndInv'
    <3> DEFINE enabled == IsDisguiseEnabled /\ IsManagedBotController(s)
    <3>1. enabled \in BOOLEAN /\ (enabled => mode = "Player")
      BY DEF IsDisguiseEnabled
    <3>2. BeginPopulationFrame("population", enabled)
      BY <2>2 DEF JoinTeamPre
    <3> HIDE DEF enabled
    <3> QED
      BY <3>1, <3>2, BeginKeeps
  <2>3. ASSUME NEW pickNewTeams \in BOOLEAN, EndMatchPre(pickNewTeams) PROVE IndInv'
    BY <2>3, BeginKeeps DEF EndMatchPre, IsDisguiseEnabled
  <2>4. ASSUME NEW populationCommand \in BOOLEAN, DispatchConCommandPre(populationCommand)
        PROVE  IndInv'
    BY <2>4, BeginKeeps DEF DispatchConCommandPre, IsDisguiseEnabled
  <2> QED
    BY <1>1, <2>1, <2>2, <2>3, <2>4, EndKeeps, CountPreKeeps, CountPostKeeps DEF HookStep
<1>2. ASSUME NEW s \in Slots, ClientStep(s) PROVE IndInv'
  BY <1>2, OnClientConnectedKeeps, CreateControllerKeeps, ClientPutInServerKeeps,
     ClientDisconnectKeeps, FreeClientKeeps, ApplySteamIdCommandKeeps DEF ClientStep
<1>3. CASE UNCHANGED vars
  <2>1. TypeOK' /\ FramesPaired' /\ ClientsInPlace'
    BY <1>3 DEF IndInv, vars, txnVars, TypeOK, FramesPaired, Transactions, ClientsInPlace, Present
  <2>2. UnmanagedUntouched' /\ FlagsNow'
    BY <1>3 DEF IndInv, vars, txnVars, UnmanagedUntouched, FlagsNow, LooksLikeBot, Counting,
                Due, DueAt, Present
  <2>3. CountsRestore'
    BY <1>3 DEF IndInv, vars, txnVars, CountsRestore, Restorable, LooksLikeBot, Due, DueAt
  <2> QED
    BY <2>1, <2>2, <2>3 DEF IndInv
<1> QED
  BY <1>1, <1>2, <1>3, SetIdentityModeKeeps, StartChangeLevelKeeps, OnLevelShutdownKeeps,
     OnLevelInitKeeps DEF Next

LEMMA Invariance == Spec => []IndInv
<1> QED
  BY InitInv, NextKeeps, PTL DEF Spec

\* Every state of the disguise is well typed; in particular the depth of the
\* transaction stays within the number of open calls.
THEOREM TypeCorrect == Spec => []TypeOK
<1>1. IndInv => TypeOK
  BY DEF IndInv
<1> QED
  BY <1>1, Invariance, PTL

\* The hooks never leave a bot that is not managed without its fake-player
\* flags, and never write those of a player.
THEOREM UnmanagedAlwaysUntouched == Spec => []UnmanagedUntouched
<1>1. IndInv => UnmanagedUntouched
  BY DEF IndInv
<1> QED
  BY <1>1, Invariance, PTL

\* While a transaction is open, the engine sees every managed bot in the game
\* as a bot, those an API call disguised meanwhile excepted.
THEOREM PopulationAlwaysSees == Spec => []PopulationSeesBots
<1>1. ASSUME IndInv PROVE PopulationSeesBots
  <2> SUFFICES ASSUME depth # 0, NEW s \in managed, s \notin redone, client[s].phase = "active"
               PROVE  client[s].ctrl = "fake"
    BY DEF PopulationSeesBots, PopulationTransactionActive
  <2>1. s \in Slots /\ Present(s) /\ client[s] \in Client /\ client[s].ctrl # "none"
    BY <1>1 DEF IndInv, TypeOK, ClientsInPlace, Present
  <2>2. LooksLikeBot(client[s]) \/ Due(s, client[s])
    BY <1>1 DEF IndInv, FlagsNow
  <2> QED
    BY <2>1, <2>2 DEF LooksLikeBot, Due, DueAt, Client
<1> QED
  BY <1>1, Invariance, PTL

\* While a voter count or a script's IsBot runs, in whatever calls it is
\* nested, the managed bots in the game are bots in client and controller.
THEOREM CountAlwaysSees == Spec => []CountSeesBots
<1>1. ASSUME IndInv PROVE CountSeesBots
  <2> SUFFICES ASSUME Counting, NEW s \in managed, client[s].phase = "active"
               PROVE  client[s].ctrl = "fake" /\ client[s].fake
    BY DEF CountSeesBots
  <2>1. s \in Slots /\ Present(s) /\ client[s] \in Client /\ client[s].ctrl # "none"
    BY <1>1 DEF IndInv, TypeOK, ClientsInPlace, Present
  <2>2. LooksLikeBot(client[s])
    BY <1>1 DEF IndInv, FlagsNow
  <2> QED
    BY <2>1, <2>2 DEF LooksLikeBot, Client
<1> QED
  BY <1>1, Invariance, PTL

\* Once no open call shows the bots as bots, every managed client shows what
\* the identity mode asks for, whatever happened during the calls.
THEOREM DisguiseAlwaysMatches == Spec => []DisguiseMatchesMode
<1>1. ASSUME IndInv PROVE DisguiseMatchesMode
  <2> SUFFICES ASSUME Undisturbed, NEW s \in managed
               PROVE  /\ client[s].fake <=> mode = "Bot"
                      /\ client[s].phase = "active" =>
                           client[s].ctrl = (IF mode = "Bot" THEN "fake" ELSE "player")
    BY DEF DisguiseMatchesMode
  <2>1. s \in Slots /\ client[s] \in Client /\ mode \in {"Bot", "Player"}
        /\ (client[s].phase = "active" => client[s].ctrl # "none")
    BY <1>1 DEF IndInv, TypeOK, ClientsInPlace, Present
  <2>2. depth = 0
    <3>1. Transactions = {}
      BY DEF Undisturbed, Transactions
    <3> QED
      BY <1>1, <3>1, FS_EmptySet DEF IndInv, FramesPaired
  <2>3. mode = "Player" => ~Counting
    <3>1. Counting => Len(frames) \in 1 .. Len(frames) /\ frames[Len(frames)].kind = "count"
      BY <1>1, FramesAreCalls DEF IndInv
    <3> QED
      BY <1>1, <3>1 DEF IndInv, FramesPaired, Undisturbed
  <2>4. IF mode = "Bot" THEN LooksLikeBot(client[s]) ELSE ~client[s].fake /\ client[s].ctrl # "fake"
    BY <1>1, <2>1, <2>2, <2>3 DEF IndInv, FlagsNow, Due, DueAt
  <2> QED
    BY <2>1, <2>4 DEF LooksLikeBot, Client
<1> QED
  BY <1>1, Invariance, PTL
===============================================================================
