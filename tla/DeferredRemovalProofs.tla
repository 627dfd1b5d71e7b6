------------------------- MODULE DeferredRemovalProofs -------------------------
(***************************************************************************)
(* Proofs about DeferredRemoval: kicks reach the bot they named, and the   *)
(* clean-up of controllers never takes one from a client that is in the    *)
(* game, for any number of slots, names, clients and kicks.                *)
(***************************************************************************)
EXTENDS DeferredRemoval, WellFoundedInduction, TLAPS

-------------------------------------------------------------------------------
\* Only a frame that is draining kicks has some taken over.
DrainInFrame == pc # "kicks" => draining = << >>

\* Clients in the list have lives that were given out, and no two of them share
\* a life, a name or a controller.
ClientsApart ==
  /\ \A s \in Slots : Present(s) => client[s].life <= lives /\ client[s].ctrl <= lives
  /\ \A s, t \in Slots : Present(s) /\ Present(t) /\ s # t =>
       /\ client[s].life # client[t].life
       /\ client[s].name # client[t].name
       /\ client[s].ctrl # client[t].ctrl

\* A managed slot has a client that stays, and once it has entered the game the
\* manager holds what fits of the name the engine has for it.
ManagedInPlace ==
  \A s \in Slots : IsManaged(s) =>
    /\ Present(s) /\ client[s].phase # "leaving"
    /\ client[s].phase = "active" => slotName[s] = CopyText[client[s].name]

\* A removal is queued for a client on its way out, whose life is used up.
RemovalsOfTheLeaving ==
  \A item \in removals :
    /\ item.userId <= lives
    /\ \A s \in Slots :
         Present(s) /\ client[s].life = item.userId => client[s].phase = "leaving"

IndInv ==
  /\ TypeOK
  /\ DrainInFrame
  /\ ClientsApart
  /\ ManagedInPlace
  /\ RemovalsOfTheLeaving
  /\ ClientsKeepController

-------------------------------------------------------------------------------
\* The loops over the slots return the first slot found: there is one.
LEMMA FirstSlot ==
  ASSUME NEW found \in SUBSET Slots, found # {}
  PROVE  (CHOOSE t \in found : \A u \in found : t <= u) \in found
<1>1. found \subseteq Nat
  BY DeferredAssumption DEF Slots
<1>2. PICK t \in found : \A u \in found : ~(<< u, t >> \in OpToRel(<, Nat))
  BY <1>1, NatLessThanWellFounded, WFMin
<1>3. ASSUME NEW u \in found PROVE ~(u < t)
  <2>1. ~(<< u, t >> \in OpToRel(<, Nat))
    BY <1>2
  <2>2. << u, t >> \in Nat \X Nat
    BY <1>1
  <2> QED
    BY <2>1, <2>2, Zenon DEF OpToRel
<1>4. \A u \in found : t <= u
  BY <1>1, <1>3
<1> QED
  BY <1>4

\* Persona names are names.
LEMMA PersonaNamesFit ==
  PersonaNames \subseteq Names
BY DeferredAssumption DEF PersonaNames

\* The name the engine settles on, if only the one the client had, is borne by
\* nobody else; the manager's copy of it is a name.
LEMMA AppliedNameIsFree ==
  ASSUME IndInv, NEW s \in Slots, Present(s), NEW wanted, NEW applied \in Names,
         ApplyClientName(s, wanted, applied)
  PROVE  /\ applied \notin UsedNames(s)
         /\ slotName' = [slotName EXCEPT ![s] = CopyText[applied]]
<1>1. CASE applied \in EngineNames(s, wanted)
  BY <1>1 DEF EngineNames, ApplyClientName, AppliedName
<1>2. CASE applied = client[s].name
  BY <1>2 DEF IndInv, ClientsApart, UsedNames, ApplyClientName, AppliedName
<1> QED
  BY <1>1, <1>2 DEF ApplyClientName

-------------------------------------------------------------------------------
\* Nobody is on the server and nothing is queued.
LEMMA InitEstablishesInv ==
  Init => IndInv
<1> SUFFICES ASSUME Init PROVE IndInv
  OBVIOUS
<1>1. TypeOK
  BY DeferredAssumption DEF Init, TypeOK, Slots
<1>2. \A s \in Slots : ~Present(s) /\ ~IsManaged(s)
  BY DEF Init, Present, IsManaged
<1> QED
  BY <1>1, <1>2
  DEF Init, IndInv, DrainInFrame, ClientsApart, ManagedInPlace, RemovalsOfTheLeaving,
      ClientsKeepController

\* A client gets a life nobody had, a name nobody has, and a live controller
\* that nobody refers to.
LEMMA ConnectKeepsInv ==
  ASSUME IndInv,
         NEW s \in Slots, NEW isBot \in BOOLEAN, NEW adopted \in BOOLEAN,
         NEW name \in Names, NEW persona \in PersonaNames, NEW reused \in 1 .. lives + 1,
         OnClientConnected(s, isBot, name, persona, adopted, reused)
  PROVE  IndInv'
<1> DEFINE new == [life |-> lives + 1, bot |-> isBot, name |-> name, ctrl |-> reused,
                   phase |-> "connected"]
<1>1. /\ ~Present(s) /\ lives < MaxLives /\ name \notin UsedNames(s)
      /\ reused # lives + 1 =>
           \A t \in Slots : Present(t) => client[t].ctrl # reused
      /\ lives' = lives + 1
      /\ ctrl' = [ctrl EXCEPT ![reused] = "live"]
      /\ client' = [client EXCEPT ![s] = new]
      /\ incarnation' = [incarnation EXCEPT ![s] = IF adopted THEN lives + 1 ELSE 0]
      /\ slotName' = [slotName EXCEPT ![s] = IF adopted THEN persona ELSE NoName]
      /\ UNCHANGED << kicks, draining, removals, pc >>
  BY DEF OnClientConnected
<1>2. lives \in Nat /\ lives + 1 \in Lives /\ reused \in Lives
  BY <1>1, DeferredAssumption DEF IndInv, TypeOK, Lives
<1>3. new \in Client /\ new # NoClient
  BY <1>2, DeferredAssumption DEF Client
<1> HIDE DEF new
<1>4. new.life = lives + 1 /\ new.name = name /\ new.ctrl = reused /\ new.phase = "connected"
  BY DEF new
<1>5. TypeOK'
  <2>1. client' \in [Slots -> Client \cup {NoClient}]
    BY <1>1, <1>3 DEF IndInv, TypeOK
  <2>2. ctrl' \in [Lives -> {"none", "live", "deleted"}]
    BY <1>1 DEF IndInv, TypeOK
  <2>3. lives' \in 0 .. MaxLives /\ lives + 1 \in 0 .. MaxLives /\ 0 \in 0 .. MaxLives
    BY <1>1, <1>2, DeferredAssumption DEF Lives
  <2>4. incarnation' \in [Slots -> 0 .. MaxLives]
    BY <1>1, <2>3 DEF IndInv, TypeOK
  <2>5. slotName' \in [Slots -> Names \cup {NoName}]
    BY <1>1, PersonaNamesFit DEF IndInv, TypeOK
  <2> QED
    BY <1>1, <2>1, <2>2, <2>3, <2>4, <2>5 DEF IndInv, TypeOK
<1>6. /\ client'[s] = new /\ Present(s)'
      /\ \A t \in Slots \ {s} :
           /\ client'[t] = client[t]
           /\ Present(t)' <=> Present(t)
           /\ incarnation'[t] = incarnation[t]
           /\ slotName'[t] = slotName[t]
      /\ \A t \in Slots : Present(t) => client[t] \in Client
  BY <1>1, <1>3 DEF IndInv, TypeOK, Present
<1>7. DrainInFrame'
  BY <1>1 DEF IndInv, DrainInFrame
<1>8. ClientsApart'
  <2>1. \A t \in Slots : Present(t)' => client'[t].life <= lives' /\ client'[t].ctrl <= lives'
    BY <1>1, <1>2, <1>4, <1>6 DEF IndInv, ClientsApart, Client, Lives
  <2>2. ASSUME NEW t \in Slots \ {s}, Present(t)
        PROVE  /\ client[t].life # new.life
               /\ client[t].name # new.name
               /\ client[t].ctrl # new.ctrl
    <3>1. client[t].life \in Nat /\ client[t].ctrl \in Nat
      BY <1>6, <2>2 DEF Client, Lives
    <3>2. client[t].life <= lives /\ client[t].ctrl <= lives
      BY <2>2 DEF IndInv, ClientsApart
    <3>3. client[t].name \in UsedNames(s)
      BY <2>2 DEF UsedNames
    <3> QED
      BY <1>1, <1>2, <1>4, <2>2, <3>1, <3>2, <3>3
  <2>3. ASSUME NEW t \in Slots, NEW u \in Slots, Present(t)', Present(u)', t # u
        PROVE  /\ client'[t].life # client'[u].life
               /\ client'[t].name # client'[u].name
               /\ client'[t].ctrl # client'[u].ctrl
    <3>1. CASE t = s
      BY <1>6, <2>2, <2>3, <3>1
    <3>2. CASE u = s
      BY <1>6, <2>2, <2>3, <3>2
    <3>3. CASE t # s /\ u # s
      BY <1>6, <2>3, <3>3 DEF IndInv, ClientsApart
    <3> QED
      BY <3>1, <3>2, <3>3
  <2> QED
    BY <2>1, <2>3 DEF ClientsApart
<1>9. ManagedInPlace'
  BY <1>4, <1>6 DEF IndInv, ManagedInPlace, IsManaged
<1>10. RemovalsOfTheLeaving'
  <2>1. ASSUME NEW item \in removals
        PROVE  item.userId \in Nat /\ item.userId <= lives
    BY DEF IndInv, TypeOK, PendingControllerRemoval, Lives, RemovalsOfTheLeaving
  <2> QED
    BY <1>1, <1>2, <1>4, <1>6, <2>1 DEF IndInv, RemovalsOfTheLeaving
<1>11. ClientsKeepController'
  <2>1. ASSUME NEW t \in Slots \ {s}, Present(t), client[t].phase # "leaving"
        PROVE  ctrl'[client[t].ctrl] = "live"
    <3>1. client[t].ctrl \in Lives /\ ctrl[client[t].ctrl] = "live"
      BY <1>6, <2>1 DEF IndInv, ClientsKeepController, Client
    <3> QED
      BY <1>1, <1>2, <3>1 DEF IndInv, TypeOK
  <2>2. ctrl'[new.ctrl] = "live"
    BY <1>1, <1>2, <1>4 DEF IndInv, TypeOK
  <2> QED
    BY <1>6, <2>1, <2>2 DEF ClientsKeepController
<1> QED
  BY <1>5, <1>7, <1>8, <1>9, <1>10, <1>11 DEF IndInv

\* Giving a client another free name, letting it enter and releasing it disturbs
\* nobody.
LEMMA RenameKeepsInv ==
  ASSUME IndInv,
         NEW s \in Slots, NEW applied \in Names, NEW c \in Client,
         Present(s), applied \notin UsedNames(s),
         c.life = client[s].life, c.ctrl = client[s].ctrl, c.name = applied,
         c.phase = "leaving" <=> client[s].phase = "leaving",
         client' = [client EXCEPT ![s] = c],
         NEW i \in {0, incarnation[s]}, NEW n \in Names \cup {NoName},
         i # 0 => n = CopyText[applied],
         incarnation' = [incarnation EXCEPT ![s] = i],
         slotName' = [slotName EXCEPT ![s] = n],
         UNCHANGED << ctrl, lives, kicks, draining, removals, pc >>
  PROVE  IndInv'
<1>1. /\ client'[s] = c
      /\ \A t \in Slots \ {s} :
           /\ client'[t] = client[t] /\ slotName'[t] = slotName[t]
           /\ incarnation'[t] = incarnation[t]
      /\ \A t \in Slots : Present(t)' <=> Present(t)
      /\ incarnation'[s] = i /\ slotName'[s] = n
  BY DeferredAssumption DEF IndInv, TypeOK, Present
<1>2. TypeOK'
  <2>1. 0 \in 0 .. MaxLives /\ incarnation[s] \in 0 .. MaxLives
    BY DeferredAssumption DEF IndInv, TypeOK
  <2> QED
    BY <2>1 DEF IndInv, TypeOK
<1>3. DrainInFrame'
  BY DEF IndInv, DrainInFrame
<1>4. ClientsApart'
  <2>1. \A t \in Slots : Present(t)' => client'[t].life <= lives' /\ client'[t].ctrl <= lives'
    BY <1>1 DEF IndInv, ClientsApart
  <2>2. ASSUME NEW t \in Slots \ {s}, Present(t)
        PROVE  client[t].name # applied
    BY <2>2 DEF UsedNames
  <2>3. ASSUME NEW t \in Slots, NEW u \in Slots, Present(t)', Present(u)', t # u
        PROVE  /\ client'[t].life # client'[u].life
               /\ client'[t].name # client'[u].name
               /\ client'[t].ctrl # client'[u].ctrl
    <3>1. Present(t) /\ Present(u)
      BY <1>1, <2>3
    <3>2. /\ client[t].life # client[u].life
          /\ client[t].name # client[u].name
          /\ client[t].ctrl # client[u].ctrl
      BY <2>3, <3>1 DEF IndInv, ClientsApart
    <3> QED
      BY <1>1, <2>2, <2>3, <3>1, <3>2
  <2> QED
    BY <2>1, <2>3 DEF ClientsApart
<1>5. ManagedInPlace'
  <2>1. ASSUME NEW t \in Slots, IsManaged(t)'
        PROVE  /\ Present(t)' /\ client'[t].phase # "leaving"
               /\ client'[t].phase = "active" => slotName'[t] = CopyText[client'[t].name]
    <3>1. IsManaged(t)
      BY <1>1, <2>1 DEF IsManaged
    <3>2. Present(t) /\ client[t].phase # "leaving"
      BY <3>1 DEF IndInv, ManagedInPlace
    <3>3. CASE t = s
      BY <1>1, <2>1, <3>2, <3>3 DEF IsManaged
    <3>4. CASE t # s
      BY <1>1, <3>1, <3>2, <3>4 DEF IndInv, ManagedInPlace
    <3> QED
      BY <3>3, <3>4
  <2> QED
    BY <2>1 DEF ManagedInPlace
<1>6. RemovalsOfTheLeaving'
  BY <1>1 DEF IndInv, RemovalsOfTheLeaving
<1>7. ClientsKeepController'
  BY <1>1 DEF IndInv, ClientsKeepController
<1> QED
  BY <1>2, <1>3, <1>4, <1>5, <1>6, <1>7 DEF IndInv

\* A client enters under its persona name, or is released if it was managed, and
\* enters under the name it came with.
LEMMA PutInServerKeepsInv ==
  ASSUME IndInv, NEW s \in Slots, NEW applied \in Names, ClientPutInServer(s, applied)
  PROVE  IndInv'
<1> DEFINE c == [client[s] EXCEPT !.phase = "active", !.name = applied]
<1>1. Present(s) /\ client[s] \in Client /\ client[s].phase = "connected"
  BY DEF ClientPutInServer, IndInv, TypeOK, Present
<1>2. /\ c \in Client /\ c.life = client[s].life /\ c.ctrl = client[s].ctrl
      /\ c.name = applied /\ c.phase = "active"
  BY <1>1 DEF Client
<1>3. client' = [client EXCEPT ![s] = c]
  BY DEF ClientPutInServer, IndInv, TypeOK
<1>4. UNCHANGED << ctrl, lives, kicks, draining, removals, pc >>
  BY DEF ClientPutInServer
<1> HIDE DEF c
<1>5. CASE ApplyClientName(s, slotName[s], applied) /\ UNCHANGED incarnation
  <2>1. /\ applied \notin UsedNames(s)
        /\ slotName' = [slotName EXCEPT ![s] = CopyText[applied]]
    BY <1>1, <1>5, AppliedNameIsFree
  <2>2. incarnation' = [incarnation EXCEPT ![s] = incarnation[s]]
    BY <1>5 DEF IndInv, TypeOK
  <2>3. CopyText[applied] \in Names
    BY DeferredAssumption
  <2> QED
    BY <1>1, <1>2, <1>3, <1>4, <2>1, <2>2, <2>3, RenameKeepsInv
<1>6. CASE /\ applied = client[s].name
           /\ incarnation' = [incarnation EXCEPT ![s] = 0]
           /\ slotName' = [slotName EXCEPT ![s] = NoName]
  <2>1. applied \notin UsedNames(s)
    BY <1>1, <1>6 DEF UsedNames, IndInv, ClientsApart
  <2> QED
    BY <1>1, <1>2, <1>3, <1>4, <1>6, <2>1, RenameKeepsInv
<1> QED
  BY <1>5, <1>6 DEF ClientPutInServer

\* A managed bot gets another persona name.
LEMMA SetNameKeepsInv ==
  ASSUME IndInv, NEW s \in Slots, NEW wanted \in PersonaNames, NEW applied \in Names,
         ApplyPersonaNameCommand(s, wanted, applied)
  PROVE  IndInv'
<1> DEFINE c == [client[s] EXCEPT !.name = applied]
<1>1. Present(s) /\ client[s] \in Client
  BY DEF ApplyPersonaNameCommand, IndInv, TypeOK, Present
<1>2. /\ c \in Client /\ c.life = client[s].life /\ c.ctrl = client[s].ctrl
      /\ c.name = applied /\ c.phase = client[s].phase
  BY <1>1 DEF Client
<1>3. client' = [client EXCEPT ![s] = c]
  BY DEF ApplyPersonaNameCommand
<1>4. /\ applied \notin UsedNames(s)
      /\ slotName' = [slotName EXCEPT ![s] = CopyText[applied]]
  BY <1>1, AppliedNameIsFree DEF ApplyPersonaNameCommand
<1>5. incarnation' = [incarnation EXCEPT ![s] = incarnation[s]]
  BY DEF ApplyPersonaNameCommand, IndInv, TypeOK
<1>6. UNCHANGED << ctrl, lives, kicks, draining, removals, pc >>
  BY DEF ApplyPersonaNameCommand
<1>7. CopyText[applied] \in Names
  BY DeferredAssumption
<1> HIDE DEF c
<1> QED
  BY <1>1, <1>2, <1>3, <1>4, <1>5, <1>6, <1>7, RenameKeepsInv

\* A client on its way out is no longer managed; if a removal is queued for its
\* controller, it names this client.
LEMMA LeavingKeepsInv ==
  ASSUME IndInv, NEW s \in Slots, NEW targeted \in BOOLEAN,
         Present(s), Disconnect(s, targeted),
         UNCHANGED << ctrl, lives, kicks, pc >>,
         draining' \in Seq(PendingBotKick), Len(draining') <= MaxKicks,
         pc # "kicks" => draining' = << >>
  PROVE  IndInv'
<1> DEFINE c == [client[s] EXCEPT !.phase = "leaving"]
<1>1. client[s] \in Client /\ 0 \in 0 .. MaxLives
  BY DeferredAssumption DEF IndInv, TypeOK, Present
<1>2. /\ c \in Client /\ c.life = client[s].life /\ c.ctrl = client[s].ctrl
      /\ c.name = client[s].name /\ c.phase = "leaving"
  BY <1>1 DEF Client
<1>3. /\ client' = [client EXCEPT ![s] = c]
      /\ incarnation' = [incarnation EXCEPT ![s] = 0]
      /\ slotName' = [slotName EXCEPT ![s] = NoName]
  BY DEF Disconnect
<1> HIDE DEF c
<1>4. /\ client'[s] = c
      /\ \A t \in Slots \ {s} :
           /\ client'[t] = client[t] /\ slotName'[t] = slotName[t]
           /\ incarnation'[t] = incarnation[t]
      /\ incarnation'[s] = 0
      /\ \A t \in Slots : Present(t)' <=> Present(t)
  BY <1>2, <1>3, DeferredAssumption DEF IndInv, TypeOK, Present
<1>5. /\ removals' \in SUBSET PendingControllerRemoval
      /\ \A item \in removals' : item \in removals \/ item.userId = client[s].life
  <2>1. CASE removals' = removals
    BY <2>1 DEF IndInv, TypeOK
  <2>2. CASE removals' # removals
    <3> DEFINE item == [handle |-> client[s].ctrl, userId |-> client[s].life,
                        referencedFrames |-> 0]
    <3>1. removals' = removals \cup {item}
      BY <2>2 DEF Disconnect, QueuedRemoval
    <3>2. item \in PendingControllerRemoval /\ item.userId = client[s].life
      BY <1>1 DEF Client, PendingControllerRemoval
    <3> QED
      BY <3>1, <3>2 DEF IndInv, TypeOK
  <2> QED
    BY <2>1, <2>2
<1>6. TypeOK'
  BY <1>1, <1>2, <1>3, <1>5 DEF IndInv, TypeOK
<1>7. DrainInFrame'
  BY DEF DrainInFrame
<1>8. ClientsApart'
  <2>1. \A t \in Slots : Present(t)' =>
          /\ Present(t) /\ client'[t].life = client[t].life
          /\ client'[t].ctrl = client[t].ctrl /\ client'[t].name = client[t].name
    BY <1>2, <1>4
  <2> QED
    BY <2>1 DEF IndInv, ClientsApart
<1>9. ManagedInPlace'
  BY <1>4 DEF IndInv, ManagedInPlace, IsManaged
<1>10. RemovalsOfTheLeaving'
  <2>1. ASSUME NEW item \in removals'
        PROVE  item.userId <= lives
    BY <1>5, <2>1 DEF IndInv, RemovalsOfTheLeaving, ClientsApart
  <2>2. ASSUME NEW item \in removals', NEW t \in Slots, Present(t)',
               client'[t].life = item.userId
        PROVE  client'[t].phase = "leaving"
    <3>1. CASE t = s
      BY <1>2, <1>4, <3>1
    <3>2. CASE t # s
      <4>1. Present(t) /\ client'[t] = client[t] /\ client[t].life # client[s].life
        BY <1>4, <2>2, <3>2 DEF IndInv, ClientsApart
      <4> QED
        BY <1>5, <2>2, <4>1 DEF IndInv, RemovalsOfTheLeaving
    <3> QED
      BY <3>1, <3>2
  <2> QED
    BY <2>1, <2>2 DEF RemovalsOfTheLeaving
<1>11. ClientsKeepController'
  BY <1>2, <1>4 DEF IndInv, ClientsKeepController
<1> QED
  BY <1>6, <1>7, <1>8, <1>9, <1>10, <1>11 DEF IndInv

\* The engine frees a client, whose controller nobody else refers to.
LEMMA FreeKeepsInv ==
  ASSUME IndInv, NEW s \in Slots, NEW retained \in BOOLEAN, FreeClient(s, retained)
  PROVE  IndInv'
<1>1. /\ Present(s) /\ client[s].phase = "leaving"
      /\ client' = [client EXCEPT ![s] = NoClient]
      /\ ctrl' = IF retained THEN ctrl ELSE [ctrl EXCEPT ![client[s].ctrl] = "deleted"]
      /\ UNCHANGED << lives, incarnation, slotName, kicks, draining, removals, pc >>
  BY DEF FreeClient
<1>2. ~Present(s)' /\ \A t \in Slots \ {s} : client'[t] = client[t] /\ (Present(t)' <=> Present(t))
  BY <1>1 DEF IndInv, TypeOK, Present
<1>3. client[s] \in Client /\ client[s].ctrl \in Lives
  BY <1>1 DEF IndInv, TypeOK, Present, Client
<1>4. TypeOK'
  BY <1>1, <1>3 DEF IndInv, TypeOK
<1>5. DrainInFrame' /\ RemovalsOfTheLeaving'
  BY <1>1, <1>2 DEF IndInv, DrainInFrame, RemovalsOfTheLeaving
<1>6. ClientsApart'
  BY <1>1, <1>2 DEF IndInv, ClientsApart
<1>7. ManagedInPlace'
  BY <1>1, <1>2 DEF IndInv, ManagedInPlace, IsManaged
<1>8. ClientsKeepController'
  <2>1. ASSUME NEW t \in Slots \ {s}, Present(t), client[t].phase # "leaving"
        PROVE  ctrl'[client[t].ctrl] = "live"
    <3>1. client[t].ctrl \in Lives /\ client[t].ctrl # client[s].ctrl
      BY <1>1, <2>1 DEF IndInv, TypeOK, Present, Client, ClientsApart
    <3>2. ctrl[client[t].ctrl] = "live"
      BY <2>1 DEF IndInv, ClientsKeepController
    <3> QED
      BY <1>1, <1>3, <3>1, <3>2 DEF IndInv, TypeOK
  <2> QED
    BY <1>2, <2>1 DEF ClientsKeepController
<1> QED
  BY <1>4, <1>5, <1>6, <1>7, <1>8 DEF IndInv

\* What only touches the queues of kicks and the phase of the frame.
LEMMA QueuesKeepInv ==
  ASSUME IndInv, TypeOK', DrainInFrame',
         UNCHANGED << client, ctrl, lives, incarnation, slotName, removals >>
  PROVE  IndInv'
<1>1. ClientsApart' /\ ManagedInPlace' /\ ClientsKeepController'
  BY DEF IndInv, ClientsApart, ManagedInPlace, ClientsKeepController, Present, IsManaged
<1>2. RemovalsOfTheLeaving'
  BY DEF IndInv, RemovalsOfTheLeaving, Present
<1> QED
  BY <1>1, <1>2 DEF IndInv

\* A kick command queues the bot it found.
LEMMA KickCommandKeepsInv ==
  ASSUME IndInv, NEW found \in SUBSET Slots, KickCommand(found),
         \A s \in found : IsManaged(s)
  PROVE  IndInv'
<1> DEFINE s == CHOOSE t \in found : \A u \in found : t <= u
           k == [slot |-> s, life |-> client[s].life, incarnation |-> incarnation[s]]
<1>1. /\ found # {} /\ Present(s) /\ Len(kicks) < MaxKicks
      /\ kicks' = Append(kicks, k)
      /\ UNCHANGED << client, ctrl, lives, incarnation, slotName, draining, removals, pc >>
  BY DEF KickCommand, QueueManagedBotKick
<1>2. s \in found
  BY <1>1, FirstSlot
<1> HIDE DEF s
<1>3. k \in PendingBotKick
  <2>1. s \in Slots /\ IsManaged(s) /\ client[s] \in Client
    BY <1>1, <1>2 DEF IndInv, TypeOK, Present
  <2>2. client[s].life \in Lives /\ incarnation[s] \in Lives
    BY <2>1, DeferredAssumption DEF IndInv, TypeOK, Client, Lives, IsManaged
  <2> QED
    BY <2>1, <2>2 DEF PendingBotKick
<1> HIDE DEF k
<1>4. kicks' \in Seq(PendingBotKick) /\ Len(kicks') <= MaxKicks
  BY <1>1, <1>3, DeferredAssumption DEF IndInv, TypeOK
<1>5. TypeOK'
  BY <1>1, <1>4 DEF IndInv, TypeOK
<1>6. DrainInFrame'
  BY <1>1 DEF IndInv, DrainInFrame
<1> QED
  BY <1>1, <1>5, <1>6, QueuesKeepInv

\* The bot a kick is meant for, if it is still there: bot_kick finds it by its
\* name, which nobody else bears, or by what is left of it, the bearer of that.
LEMMA KickFindsItsBot ==
  ASSUME IndInv, NobodyEntering, NEW k \in PendingBotKick, KickIsCurrent(k),
         NEW s \in Slots, Present(s), client[s].name = slotName[k.slot]
  PROVE  \/ client[s].life = k.life
         \/ /\ NameCut(k.slot) /\ client[k.slot].life = k.life
            /\ client[s].name = CopyText[client[k.slot].name]
<1>1. /\ k.slot \in Slots /\ IsManaged(k.slot) /\ Present(k.slot)
      /\ client[k.slot].life = k.life
  BY DEF KickIsCurrent, PendingBotKick
<1>2. client[k.slot].phase = "active"
  BY <1>1 DEF IndInv, TypeOK, Present, Client, ManagedInPlace, NobodyEntering
<1>3. client[s].name = CopyText[client[k.slot].name]
  BY <1>1, <1>2 DEF IndInv, ManagedInPlace
<1>4. CASE NameCut(k.slot)
  BY <1>1, <1>3, <1>4
<1>5. CASE ~NameCut(k.slot)
  <2>1. client[s].name = client[k.slot].name
    BY <1>1, <1>3, <1>5 DEF NameCut
  <2> QED
    BY <1>1, <2>1 DEF IndInv, ClientsApart
<1> QED
  BY <1>4, <1>5

\* The frame takes the queue over.
LEMMA BeginFrameKeepsInv ==
  ASSUME IndInv, BeginFrame
  PROVE  IndInv'
<1>1. TypeOK'
  BY DeferredAssumption DEF BeginFrame, IndInv, TypeOK
<1>2. DrainInFrame'
  BY DEF BeginFrame, DrainInFrame
<1> QED
  BY <1>1, <1>2, QueuesKeepInv DEF BeginFrame

\* One deferred kick is carried out or found out of date.
LEMMA DrainKickKeepsInv ==
  ASSUME IndInv, DrainKick
  PROVE  IndInv'
<1>1. /\ pc = "kicks" /\ draining # << >> /\ draining' = Tail(draining)
      /\ UNCHANGED << ctrl, lives, kicks, pc >>
  BY DEF DrainKick
<1>2. draining' \in Seq(PendingBotKick) /\ Len(draining') <= MaxKicks
  BY <1>1, DeferredAssumption DEF IndInv, TypeOK
<1>3. CASE \E s \in Slots : Present(s) /\ Disconnect(s, TRUE)
  BY <1>1, <1>2, <1>3, LeavingKeepsInv
<1>4. CASE UNCHANGED << client, removals, incarnation, slotName >>
  <2>1. TypeOK'
    BY <1>1, <1>2, <1>4 DEF IndInv, TypeOK
  <2>2. DrainInFrame'
    BY <1>1 DEF DrainInFrame
  <2> QED
    BY <1>1, <1>4, <2>1, <2>2, QueuesKeepInv
<1> QED
  BY <1>3, <1>4 DEF DrainKick

\* All kicks of the frame have been looked at.
LEMMA EndKicksKeepsInv ==
  ASSUME IndInv, NEW simulating \in BOOLEAN, EndKicks(simulating)
  PROVE  IndInv'
<1>1. TypeOK'
  BY DEF EndKicks, IndInv, TypeOK
<1>2. DrainInFrame'
  BY DEF EndKicks, DrainInFrame
<1> QED
  BY <1>1, <1>2, QueuesKeepInv DEF EndKicks

\* A controller is removed only when no client refers to it but the kicked one.
LEMMA RemovalsKeepInv ==
  ASSUME IndInv, DrainPendingControllerRemovals
  PROVE  IndInv'
<1> DEFINE removed == {item.handle : item \in {i \in removals : ~Stale(i) /\ ~Waits(i)}}
<1>1. /\ ctrl' = [h \in Lives |-> IF h \in removed THEN "deleted" ELSE ctrl[h]]
      /\ removals' = {Counted(i) : i \in {j \in removals : Waits(j)}}
      /\ pc = "removals" /\ pc' = "engine"
      /\ UNCHANGED << client, lives, incarnation, slotName, kicks, draining >>
  BY DEF DrainPendingControllerRemovals
<1>2. ASSUME NEW i \in removals, Waits(i)
      PROVE  /\ Counted(i) \in PendingControllerRemoval
             /\ Counted(i).userId = i.userId
  <2>1. i \in PendingControllerRemoval /\ i.referencedFrames = 0
    BY <1>2 DEF IndInv, TypeOK, Waits
  <2> QED
    BY <2>1 DEF Counted, PendingControllerRemoval
<1>3. ctrl' \in [Lives -> {"none", "live", "deleted"}]
  BY <1>1 DEF IndInv, TypeOK
<1>4. removals' \in SUBSET PendingControllerRemoval
  BY <1>1, <1>2
<1>5. TypeOK'
  BY <1>1, <1>3, <1>4 DEF IndInv, TypeOK
<1>6. DrainInFrame' /\ ClientsApart' /\ ManagedInPlace'
  BY <1>1 DEF IndInv, DrainInFrame, ClientsApart, ManagedInPlace, Present, IsManaged
<1>7. RemovalsOfTheLeaving'
  <2>1. ASSUME NEW item \in removals'
        PROVE  \E i \in removals : item.userId = i.userId
    BY <1>1, <1>2, <2>1
  <2> QED
    BY <1>1, <2>1 DEF IndInv, RemovalsOfTheLeaving, Present
<1>8. ClientsKeepController'
  <2>1. ASSUME NEW s \in Slots, Present(s), client[s].phase # "leaving"
        PROVE  ctrl'[client[s].ctrl] = "live"
    <3>1. client[s].ctrl \in Lives /\ ctrl[client[s].ctrl] = "live"
      BY <2>1 DEF IndInv, TypeOK, Present, Client, ClientsKeepController
    <3>2. ASSUME NEW item \in removals, item.handle = client[s].ctrl
          PROVE  Stale(item)
      <4>1. s \in Referrers(item.handle)
        BY <2>1, <3>2 DEF Referrers
      <4>2. client[s].life # item.userId
        BY <2>1 DEF IndInv, RemovalsOfTheLeaving
      <4> QED
        BY <4>1, <4>2 DEF Stale
    <3>3. client[s].ctrl \notin removed
      BY <3>2
    <3> QED
      BY <1>1, <3>1, <3>3
  <2> QED
    BY <1>1, <2>1 DEF ClientsKeepController, Present
<1> QED
  BY <1>5, <1>6, <1>7, <1>8 DEF IndInv

\* A level change forgets all slots and all queues.
LEMMA ChangeLevelKeepsInv ==
  ASSUME IndInv, StartChangeLevel
  PROVE  IndInv'
<1>1. TypeOK'
  BY DeferredAssumption DEF StartChangeLevel, IndInv, TypeOK
<1>2. DrainInFrame' /\ ClientsApart' /\ ClientsKeepController'
  BY DEF StartChangeLevel, IndInv, DrainInFrame, ClientsApart, ClientsKeepController, Present
<1>3. ManagedInPlace' /\ RemovalsOfTheLeaving'
  BY DEF StartChangeLevel, ManagedInPlace, RemovalsOfTheLeaving, IsManaged
<1> QED
  BY <1>1, <1>2, <1>3 DEF IndInv

-------------------------------------------------------------------------------
\* Every step keeps the inductive invariant.
LEMMA NextKeepsInv ==
  IndInv /\ [Next]_vars => IndInv'
<1> SUFFICES ASSUME IndInv, [Next]_vars PROVE IndInv'
  OBVIOUS
<1>1. ASSUME NEW s \in Slots, NEW isBot \in BOOLEAN, NEW adopted \in BOOLEAN,
             NEW name \in Names, NEW persona \in PersonaNames, NEW reused \in 1 .. lives + 1,
             OnClientConnected(s, isBot, name, persona, adopted, reused)
      PROVE  IndInv'
  BY <1>1, ConnectKeepsInv
<1>2. ASSUME NEW s \in Slots, NEW applied \in Names, ClientPutInServer(s, applied)
      PROVE  IndInv'
  BY <1>2, PutInServerKeepsInv
<1>3. ASSUME NEW s \in Slots, NEW wanted \in PersonaNames, NEW applied \in Names,
             ApplyPersonaNameCommand(s, wanted, applied)
      PROVE  IndInv'
  BY <1>3, SetNameKeepsInv
<1>4. ASSUME NEW s \in Slots, NEW targeted \in BOOLEAN, ClientDisconnect(s, targeted)
      PROVE  IndInv'
  <2>1. /\ Present(s) /\ Disconnect(s, targeted)
        /\ UNCHANGED << ctrl, lives, kicks, draining, pc >>
    BY <1>4 DEF ClientDisconnect
  <2> QED
    BY <2>1, LeavingKeepsInv DEF IndInv, TypeOK, DrainInFrame
<1>5. ASSUME NEW s \in Slots, NEW retained \in BOOLEAN, FreeClient(s, retained)
      PROVE  IndInv'
  BY <1>5, FreeKeepsInv
<1>6. ASSUME NEW name \in Names, KickCommand(FindManagedSlotByPersonaName(name))
      PROVE  IndInv'
  BY <1>6, KickCommandKeepsInv DEF FindManagedSlotByPersonaName
<1>7. ASSUME NEW userId \in Lives, KickCommand(FindManagedSlotByUserId(userId))
      PROVE  IndInv'
  BY <1>7, KickCommandKeepsInv DEF FindManagedSlotByUserId
<1>8. CASE FrameStep
  BY <1>8, BeginFrameKeepsInv, DrainKickKeepsInv, EndKicksKeepsInv, RemovalsKeepInv
  DEF FrameStep
<1>9. CASE UNCHANGED vars
  BY <1>9
  DEF vars, IndInv, TypeOK, DrainInFrame, ClientsApart, ManagedInPlace,
      RemovalsOfTheLeaving, ClientsKeepController, Present, IsManaged
<1> QED
  BY <1>1, <1>2, <1>3, <1>4, <1>5, <1>6, <1>7, <1>8, <1>9, ChangeLevelKeepsInv
  DEF Next, EngineStep

\* The inductive invariant holds throughout.
THEOREM InvHolds == Spec => []IndInv
<1> QED
  BY InitEstablishesInv, NextKeepsInv, PTL DEF Spec

\* Every variable keeps its type: both queues stay within their bound, and no
\* removal is put off for more than one frame.
THEOREM TypeCorrect == Spec => []TypeOK
<1>1. IndInv => TypeOK
  BY DEF IndInv
<1> QED
  BY <1>1, InvHolds, PTL

\* DrainPendingControllerRemovals never takes the controller of a client in the
\* game, whatever clients were bound to it and kicked before.
THEOREM ControllersAreKept == Spec => []ClientsKeepController
<1>1. IndInv => ClientsKeepController
  BY DEF IndInv
<1> QED
  BY <1>1, InvHolds, PTL

\* DrainPendingBotKicks removes the very bot the command named, or nobody; if the
\* manager holds only part of its name, it may be the bearer of that part.
THEOREM KicksHitTheirTarget == Spec => KickHitsTarget
<1> DEFINE
      Mine(c, k) ==
        \/ c.life = k.life
        \/ /\ NameCut(k.slot) /\ client[k.slot].life = k.life
           /\ c.name = CopyText[client[k.slot].name]
      Hit ==
        draining # << >> /\ draining' = Tail(draining) =>
          LET k == Head(draining)
          IN  \A s \in Slots :
                Present(s) /\ client[s].phase # "leaving" /\ client'[s].phase = "leaving"
                  => Mine(client[s], k)
<1>1. ASSUME IndInv, [Next]_vars PROVE [Hit]_vars
  <2> SUFFICES ASSUME draining # << >>, draining' = Tail(draining),
                      NEW s \in Slots,
                      Present(s), client[s].phase # "leaving", client'[s].phase = "leaving"
               PROVE  Mine(client[s], Head(draining))
    OBVIOUS
  <2>1. /\ draining \in Seq(PendingBotKick) /\ Head(draining) \in PendingBotKick
        /\ draining' # draining /\ pc = "kicks"
    <3>1. draining \in Seq(PendingBotKick)
      BY <1>1 DEF IndInv, TypeOK
    <3>2. /\ Head(draining) \in PendingBotKick
          /\ Len(draining) \in Nat /\ Len(Tail(draining)) = Len(draining) - 1
      BY <3>1
    <3>3. draining' # draining
      <4> SUFFICES ASSUME Tail(draining) = draining PROVE FALSE
        OBVIOUS
      <4>1. Len(Tail(draining)) = Len(draining)
        OBVIOUS
      <4> QED
        BY <3>2, <4>1
    <3>4. pc = "kicks"
      BY <1>1 DEF IndInv, DrainInFrame
    <3> QED
      BY <3>1, <3>2, <3>3, <3>4
  <2>2. DrainKick
    <3>1. ~EngineStep
      <4>1. \A found : ~KickCommand(found)
        BY <2>1 DEF KickCommand
      <4>2. ~StartChangeLevel
        BY <2>1 DEF StartChangeLevel
      <4>3. \A u \in Slots, b, c \in BOOLEAN, m \in Names, n \in PersonaNames,
              h \in 1 .. lives + 1 : ~OnClientConnected(u, b, m, n, c, h)
        BY <2>1 DEF OnClientConnected
      <4>4. \A u \in Slots, m \in Names : ~ClientPutInServer(u, m)
        BY <2>1 DEF ClientPutInServer
      <4>5. \A u \in Slots, w \in PersonaNames, m \in Names :
              ~ApplyPersonaNameCommand(u, w, m)
        BY <2>1 DEF ApplyPersonaNameCommand
      <4>6. \A u \in Slots, b \in BOOLEAN : ~ClientDisconnect(u, b) /\ ~FreeClient(u, b)
        BY <2>1 DEF ClientDisconnect, FreeClient
      <4> QED
        BY <4>1, <4>2, <4>3, <4>4, <4>5, <4>6 DEF EngineStep
    <3>2. /\ ~BeginFrame /\ ~DrainPendingControllerRemovals
          /\ \A simulating \in BOOLEAN : ~EndKicks(simulating)
      BY <2>1 DEF BeginFrame, EndKicks, DrainPendingControllerRemovals
    <3>3. ~UNCHANGED vars
      BY <2>1 DEF vars
    <3> QED
      BY <1>1, <3>1, <3>2, <3>3 DEF Next, FrameStep
  <2> DEFINE k == Head(draining)
  <2>3. PICK t \in Slots : /\ Present(t) /\ client[t].name = slotName[k.slot]
                           /\ KickIsCurrent(k) /\ Disconnect(t, TRUE) /\ NobodyEntering
    BY <2>2 DEF DrainKick
  <2>4. Mine(client[t], k)
    BY <1>1, <2>1, <2>3, KickFindsItsBot
  <2>5. s = t
    BY <1>1, <2>3 DEF Disconnect, IndInv, TypeOK
  <2> QED
    BY <2>4, <2>5
<1>2. IndInv /\ [Next]_vars => [Hit]_vars
  BY <1>1
<1> QED
  BY <1>2, InvHolds, PTL DEF Spec, KickHitsTarget
================================================================================
