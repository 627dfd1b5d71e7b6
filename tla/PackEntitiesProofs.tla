------------------------- MODULE PackEntitiesProofs -------------------------
(***************************************************************************)
(* The packing hooks for any number of threads, slots, pawns and nested    *)
(* calls: who holds the mutex, and what happens to FL_BOT meanwhile.       *)
(***************************************************************************)
EXTENDS PackEntities, SequenceTheorems, TLAPS

Calls == {"pack", "isbot", "isbot off"}

\* The mutex belongs to the thread that has hooked calls open, if any has.
LockHeld == \A t \in Threads : calls[t] # << >> <=> owner = t

\* A thread outside PackEntities remembers no pawns.
OnlyWhilePacking == \A t \in Threads : ~Packing(t) => packed[t] = {} /\ covered[t] = {}

\* The inductive invariant of the mutex.
MutexInv == TypeOK /\ LockHeld /\ OnlyWhilePacking

-------------------------------------------------------------------------------
(* Calls of one thread. *)

\* Entering adds a call on top and keeps the others.
LEMMA EnterAppends ==
  ASSUME TypeOK, NEW t \in Threads, NEW call \in Calls, Enter(t, call)
  PROVE  /\ calls' \in [Threads -> Seq(Calls)]
         /\ \A u \in Threads \ {t} : calls'[u] = calls[u]
         /\ Len(calls[t]) \in Nat
         /\ Len(calls'[t]) = Len(calls[t]) + 1
         /\ calls'[t][Len(calls'[t])] = call
         /\ \A i \in DOMAIN calls[t] : calls'[t][i] = calls[t][i]
         /\ DOMAIN calls[t] = 1 .. Len(calls[t]) /\ DOMAIN calls'[t] = 1 .. Len(calls'[t])
<1>1. calls[t] \in Seq(Calls)
  BY DEF TypeOK, Calls
<1>2. calls' = [calls EXCEPT ![t] = Append(@, call)]
  BY DEF Enter
<1>3. /\ Append(calls[t], call) \in Seq(Calls)
      /\ Len(Append(calls[t], call)) = Len(calls[t]) + 1
      /\ \A i \in 1 .. Len(calls[t]) : Append(calls[t], call)[i] = calls[t][i]
      /\ Append(calls[t], call)[Len(calls[t]) + 1] = call
  BY <1>1
<1>4. /\ calls' \in [Threads -> Seq(Calls)]
      /\ calls'[t] = Append(calls[t], call)
      /\ \A u \in Threads \ {t} : calls'[u] = calls[u]
  BY <1>2, <1>3 DEF TypeOK, Calls
<1>5. /\ DOMAIN calls[t] = 1 .. Len(calls[t]) /\ Len(calls[t]) \in Nat
      /\ DOMAIN calls'[t] = 1 .. Len(calls'[t])
  BY <1>1, <1>3, <1>4, LenProperties
<1> QED
  BY <1>3, <1>4, <1>5

\* Leaving drops the call on top and keeps the others.
LEMMA LeaveDrops ==
  ASSUME TypeOK, NEW t \in Threads, calls[t] # << >>, Leave(t)
  PROVE  /\ calls' \in [Threads -> Seq(Calls)]
         /\ \A u \in Threads \ {t} : calls'[u] = calls[u]
         /\ Len(calls[t]) \in Nat \ {0}
         /\ Len(calls'[t]) = Len(calls[t]) - 1
         /\ \A i \in DOMAIN calls'[t] : calls'[t][i] = calls[t][i]
         /\ DOMAIN calls[t] = 1 .. Len(calls[t]) /\ DOMAIN calls'[t] = 1 .. Len(calls'[t])
<1> DEFINE n == Len(calls[t]) - 1
<1>1. calls[t] \in Seq(Calls) /\ Len(calls[t]) \in Nat \ {0}
  BY EmptySeq DEF TypeOK, Calls
<1>2. n \in Nat /\ \A i \in 1 .. n : calls[t][i] \in Calls
  BY <1>1, ElementOfSeq
<1>3. /\ SubSeq(calls[t], 1, n) \in Seq(Calls)
      /\ Len(SubSeq(calls[t], 1, n)) = n
      /\ \A i \in 1 .. n : SubSeq(calls[t], 1, n)[i] = calls[t][i]
  <2>1. 1 \in Int /\ n \in Int
    BY <1>2
  <2>2. /\ SubSeq(calls[t], 1, n) \in Seq(Calls)
        /\ Len(SubSeq(calls[t], 1, n)) = IF 1 <= n THEN n - 1 + 1 ELSE 0
        /\ \A i \in 1 .. n - 1 + 1 : SubSeq(calls[t], 1, n)[i] = calls[t][1 + i - 1]
    BY <1>2, <2>1, SubSeqProperties
  <2> QED
    BY <1>2, <2>2
<1>4. calls' = [calls EXCEPT ![t] = SubSeq(calls[t], 1, n)]
  BY DEF Leave
<1>5. /\ calls' \in [Threads -> Seq(Calls)]
      /\ calls'[t] = SubSeq(calls[t], 1, n)
      /\ \A u \in Threads \ {t} : calls'[u] = calls[u]
  BY <1>3, <1>4 DEF TypeOK, Calls
<1>6. /\ DOMAIN calls[t] = 1 .. Len(calls[t])
      /\ DOMAIN calls'[t] = 1 .. Len(calls'[t])
  BY <1>1, <1>3, <1>5, LenProperties
<1> QED
  BY <1>1, <1>3, <1>5, <1>6

-------------------------------------------------------------------------------
(* Types. *)

\* The handles that are packed are handles of pawns.
LEMMA ManagedPawnsAreHandles == TypeOK => ManagedPawns \subseteq Handle
BY DEF TypeOK, ManagedPawns

\* Clearing and restoring the flag keep the rest of the entity list.
LEMMA ApplyKeepsList ==
  ASSUME TypeOK, NEW t \in Threads, ApplyBotFlagOverride(t)
  PROVE  /\ packed' \in [Threads -> SUBSET Handle]
         /\ entity' \in [Entities -> Pawn \cup {NoPawn}]
         /\ packed'[t] = {h \in ManagedPawns : entity[h.index].flag}
         /\ \A u \in Threads \ {t} : packed'[u] = packed[u]
         /\ \A e \in Entities :
              IF \E h \in packed'[t] : h.index = e
                THEN entity'[e] = [entity[e] EXCEPT !.flag = FALSE]
                ELSE entity'[e] = entity[e]
<1>1. \A h \in ManagedPawns : h \in Handle /\ Lives(h)
  BY ManagedPawnsAreHandles DEF ManagedPawns
<1>2. \A h \in ManagedPawns : entity[h.index] \in Pawn
  BY <1>1 DEF Lives, Handle, TypeOK
<1>3. \A e \in Entities, p \in Pawn : [p EXCEPT !.flag = FALSE] \in Pawn
  BY DEF Pawn
<1> QED
  BY <1>1, <1>2, <1>3 DEF ApplyBotFlagOverride, TypeOK

LEMMA RestoreKeepsList ==
  ASSUME TypeOK, NEW t \in Threads, RestoreBotFlagOverride(t)
  PROVE  /\ entity' \in [Entities -> Pawn \cup {NoPawn}]
         /\ \A e \in Entities :
              IF \E h \in packed[t] : h.index = e /\ Lives(h)
                THEN entity'[e] = [entity[e] EXCEPT !.flag = TRUE]
                ELSE entity'[e] = entity[e]
<1>1. \A e \in Entities, p \in Pawn : [p EXCEPT !.flag = TRUE] \in Pawn
  BY DEF Pawn
<1>2. \A h \in packed[t] : Lives(h) => entity[h.index] \in Pawn
  <2>1. packed[t] \subseteq Handle
    BY DEF TypeOK
  <2>2. \A h \in Handle : h.index \in Entities
    BY DEF Handle
  <2> QED
    BY <2>1, <2>2 DEF Lives, TypeOK
<1> QED
  BY <1>1, <1>2 DEF RestoreBotFlagOverride, TypeOK

\* The engine and the rest of the plugin keep the types.
LEMMA EngineKeepsTypes == TypeOK /\ EngineStep => TypeOK'
<1> SUFFICES ASSUME TypeOK, EngineStep PROVE TypeOK'
  OBVIOUS
<1> USE DEF TypeOK, hookVars
<1>1. ASSUME NEW newMode \in {"Bot", "Player"}, SetMode(newMode) PROVE TypeOK'
  BY <1>1 DEF SetMode
<1>2. ASSUME NEW s \in Slots, Adopt(s) \/ Release(s) PROVE TypeOK'
  BY <1>2 DEF Adopt, Release
<1>3. ASSUME NEW s \in Slots, NEW e \in Entities, NEW isBot \in BOOLEAN, CreatePawn(s, e, isBot)
      PROVE  TypeOK'
  <2>1. serials + 1 \in Serials /\ serials' \in 0 .. MaxSerials
    <3>1. MaxSerials \in Nat
      BY PackAssumption
    <3>2. serials \in 0 .. MaxSerials
      OBVIOUS
    <3>3. serials < MaxSerials /\ serials' = serials + 1
      BY <1>3 DEF CreatePawn
    <3> HIDE DEF TypeOK
    <3> QED
      BY <3>1, <3>2, <3>3 DEF Serials
  <2>2. /\ [serial |-> serials + 1, flag |-> isBot, own |-> isBot, deleting |-> FALSE] \in Pawn
        /\ [index |-> e, serial |-> serials + 1] \in Handle
    BY <2>1 DEF Pawn, Handle
  <2> QED
    BY <1>3, <2>1, <2>2 DEF CreatePawn
<1>4. ASSUME NEW s \in Slots, NEW z \in Slots, SharePawn(s, z) PROVE TypeOK'
  BY <1>4 DEF SharePawn
<1>5. ASSUME NEW e \in Entities, MarkForDelete(e) PROVE TypeOK'
  <2>1. entity[e] \in Pawn /\ entity' = [entity EXCEPT ![e] = [entity[e] EXCEPT !.deleting = TRUE]]
    BY <1>5 DEF MarkForDelete
  <2>2. [entity[e] EXCEPT !.deleting = TRUE] \in Pawn
    BY <2>1 DEF Pawn
  <2> QED
    BY <1>5, <2>1, <2>2 DEF MarkForDelete
<1>6. ASSUME NEW e \in Entities, Delete(e) PROVE TypeOK'
  BY <1>6 DEF Delete
<1> QED
  BY <1>1, <1>2, <1>3, <1>4, <1>5, <1>6 DEF EngineStep

-------------------------------------------------------------------------------
(* The mutex. *)

\* Nobody is in a hooked call at first.
LEMMA InitMutex == Init => MutexInv
BY PackAssumption DEF Init, MutexInv, TypeOK, LockHeld, OnlyWhilePacking, Packing, Handle, Pawn

\* A call that has the mutex keeps every other thread out of the hooks.
LEMMA OthersAreOut ==
  ASSUME MutexInv, NEW t \in Threads, owner \in {NoThread, t}
  PROVE  \A u \in Threads \ {t} :
           calls[u] = << >> /\ ~Packing(u) /\ packed[u] = {} /\ covered[u] = {}
<1>1. \A u \in Threads \ {t} : calls[u] = << >>
  BY PackAssumption DEF MutexInv, LockHeld
<1>2. \A u \in Threads \ {t} : ~Packing(u)
  BY <1>1 DEF Packing
<1> QED
  BY <1>1, <1>2 DEF MutexInv, OnlyWhilePacking

\* Entering a hook: the caller gets the mutex.
LEMMA EnterKeepsLock ==
  ASSUME MutexInv, NEW t \in Threads, NEW call \in Calls, Lock(t), Enter(t, call)
  PROVE  /\ LockHeld'
         /\ \A u \in Threads \ {t} : ~Packing(u)'
         /\ call = "pack" => Packing(t)'
         /\ call # "pack" => (Packing(t)' <=> Packing(t))
<1> USE DEF MutexInv
<1>1. owner' = t /\ owner \in {NoThread, t}
  BY DEF Lock
<1>2. /\ \A u \in Threads \ {t} : calls'[u] = calls[u]
      /\ Len(calls[t]) \in Nat
      /\ Len(calls'[t]) = Len(calls[t]) + 1
      /\ calls'[t][Len(calls'[t])] = call
      /\ \A i \in DOMAIN calls[t] : calls'[t][i] = calls[t][i]
      /\ DOMAIN calls[t] = 1 .. Len(calls[t]) /\ DOMAIN calls'[t] = 1 .. Len(calls'[t])
  BY EnterAppends
<1>3. \A u \in Threads \ {t} : calls'[u] = << >> /\ ~Packing(u)
  BY <1>1, <1>2, OthersAreOut
<1>4. calls'[t] # << >>
  BY <1>2
<1>5. LockHeld'
  BY <1>1, <1>3, <1>4 DEF LockHeld
<1>6. \A u \in Threads \ {t} : ~Packing(u)'
  BY <1>2, <1>3 DEF Packing
<1>7. call = "pack" => Packing(t)'
  BY <1>2 DEF Packing
<1>8. call # "pack" => (Packing(t)' <=> Packing(t))
  BY <1>2 DEF Packing
<1> QED
  BY <1>5, <1>6, <1>7, <1>8

\* Leaving a hook: only the outermost return frees the mutex.
LEMMA LeaveKeepsLock ==
  ASSUME MutexInv, NEW t \in Threads, calls[t] # << >>, Leave(t), Unlock(t)
  PROVE  /\ LockHeld'
         /\ \A u \in Threads \ {t} : ~Packing(u)'
         /\ Packing(t)' <=> \E i \in 1 .. Len(calls[t]) - 1 : calls[t][i] = "pack"
<1> USE DEF MutexInv
<1>1. owner = t
  BY DEF LockHeld
<1>2. /\ \A u \in Threads \ {t} : calls'[u] = calls[u]
      /\ Len(calls[t]) \in Nat \ {0}
      /\ Len(calls'[t]) = Len(calls[t]) - 1
      /\ \A i \in DOMAIN calls'[t] : calls'[t][i] = calls[t][i]
      /\ DOMAIN calls'[t] = 1 .. Len(calls'[t])
      /\ calls' \in [Threads -> Seq(Calls)]
  BY LeaveDrops
<1>3. \A u \in Threads \ {t} : calls'[u] = << >> /\ ~Packing(u)
  BY <1>1, <1>2, OthersAreOut
<1>4. calls'[t] = << >> <=> Len(calls[t]) = 1
  <2>1. calls'[t] \in Seq(Calls)
    BY <1>2
  <2>2. Len(<< >>) = 0 /\ \A seq \in Seq(Calls) : seq # << >> => Len(seq) # 0
    BY EmptySeq
  <2>3. calls'[t] = << >> => Len(calls'[t]) = 0
    BY <2>2
  <2>4. calls'[t] # << >> => Len(calls'[t]) # 0
    BY <2>1, <2>2
  <2>5. Len(calls'[t]) = 0 <=> Len(calls[t]) = 1
    BY <1>2
  <2> QED
    BY <2>3, <2>4, <2>5
<1>5. LockHeld'
  BY <1>1, <1>3, <1>4, PackAssumption DEF LockHeld, Unlock
<1>6. \A u \in Threads \ {t} : ~Packing(u)'
  BY <1>2, <1>3 DEF Packing
<1>7. Packing(t)' <=> \E i \in 1 .. Len(calls[t]) - 1 : calls[t][i] = "pack"
  BY <1>2 DEF Packing
<1> QED
  BY <1>5, <1>6, <1>7

\* Every step leaves the mutex with the thread that has calls open.
LEMMA NextMutex == MutexInv /\ [Next]_vars => MutexInv'
<1> SUFFICES ASSUME MutexInv, [Next]_vars PROVE MutexInv'
  OBVIOUS
<1> USE DEF MutexInv
<1>1. ASSUME NEW t \in Threads, PackPre(t) PROVE MutexInv'
  <2>1. Lock(t) /\ Enter(t, "pack") /\ "pack" \in Calls
    BY <1>1 DEF PackPre, Calls
  <2>2. calls' \in [Threads -> Seq(Calls)] /\ owner' \in Threads \cup {NoThread}
    BY <2>1, EnterAppends DEF Lock
  <2>3. LockHeld' /\ Packing(t)' /\ \A u \in Threads \ {t} : ~Packing(u)'
    BY <2>1, EnterKeepsLock
  <2>4. \A u \in Threads \ {t} : packed[u] = {} /\ covered[u] = {}
    BY <2>1, OthersAreOut DEF Lock
  <2>5. CASE ~Packing(t) /\ IsDisguiseEnabled
    <3>1. ApplyBotFlagOverride(t) /\ covered' = [covered EXCEPT ![t] = ManagedPawns]
      BY <1>1, <2>5 DEF PackPre
    <3>2. /\ packed' \in [Threads -> SUBSET Handle]
          /\ entity' \in [Entities -> Pawn \cup {NoPawn}]
          /\ \A u \in Threads \ {t} : packed'[u] = packed[u]
      BY <3>1, ApplyKeepsList
    <3>3. /\ covered' \in [Threads -> SUBSET Handle]
          /\ \A u \in Threads \ {t} : covered'[u] = covered[u]
      BY <3>1, ManagedPawnsAreHandles DEF TypeOK
    <3>4. TypeOK'
      BY <1>1, <2>2, <3>2, <3>3 DEF PackPre, TypeOK, Calls
    <3>5. OnlyWhilePacking'
      BY <2>3, <2>4, <3>2, <3>3 DEF OnlyWhilePacking
    <3> QED
      BY <2>3, <3>4, <3>5
  <2>6. CASE ~(~Packing(t) /\ IsDisguiseEnabled)
    <3>1. UNCHANGED << entity, packed, covered >>
      BY <1>1, <2>6 DEF PackPre
    <3>2. TypeOK'
      BY <1>1, <2>2, <3>1 DEF PackPre, TypeOK, Calls
    <3>3. OnlyWhilePacking'
      BY <2>3, <2>4, <3>1 DEF OnlyWhilePacking
    <3> QED
      BY <2>3, <3>2, <3>3
  <2> QED
    BY <2>5, <2>6
<1>2. ASSUME NEW t \in Threads, PackPost(t) PROVE MutexInv'
  <2>1. calls[t] # << >> /\ Leave(t) /\ Unlock(t)
    BY <1>2 DEF PackPost
  <2>2. /\ calls' \in [Threads -> Seq(Calls)]
        /\ owner' \in Threads \cup {NoThread}
        /\ owner = t
    BY <2>1, LeaveDrops DEF Unlock, TypeOK, LockHeld
  <2>3. /\ LockHeld' /\ \A u \in Threads \ {t} : ~Packing(u)'
        /\ Packing(t)' <=> ~Outermost(t)
    BY <2>1, LeaveKeepsLock DEF Outermost
  <2>4. \A u \in Threads \ {t} : packed[u] = {} /\ covered[u] = {}
    BY <2>2, OthersAreOut
  <2>5. CASE Outermost(t)
    <3>1. /\ RestoreBotFlagOverride(t)
          /\ packed' = [packed EXCEPT ![t] = {}]
          /\ covered' = [covered EXCEPT ![t] = {}]
      BY <1>2, <2>5 DEF PackPost
    <3>2. entity' \in [Entities -> Pawn \cup {NoPawn}]
      BY <3>1, RestoreKeepsList
    <3>3. /\ packed' \in [Threads -> SUBSET Handle] /\ covered' \in [Threads -> SUBSET Handle]
          /\ \A u \in Threads : packed'[u] = {} /\ covered'[u] = {}
      BY <2>4, <3>1 DEF TypeOK
    <3>4. TypeOK'
      BY <1>2, <2>2, <3>2, <3>3 DEF PackPost, TypeOK, Calls
    <3> QED
      BY <2>3, <3>3, <3>4 DEF OnlyWhilePacking
  <2>6. CASE ~Outermost(t)
    <3>1. UNCHANGED << entity, packed, covered >>
      BY <1>2, <2>6 DEF PackPost
    <3>2. TypeOK'
      BY <1>2, <2>2, <3>1 DEF PackPost, TypeOK, Calls
    <3> QED
      BY <2>3, <2>4, <2>6, <3>1, <3>2 DEF OnlyWhilePacking
  <2> QED
    BY <2>5, <2>6
<1>3. ASSUME NEW t \in Threads, ScriptIsBotPre(t) PROVE MutexInv'
  <2>1. PICK call \in Calls \ {"pack"} : Enter(t, call)
    BY <1>3 DEF ScriptIsBotPre, Calls
  <2>2. Lock(t) /\ UNCHANGED << engineVars, packed, covered >>
    BY <1>3 DEF ScriptIsBotPre
  <2>3. calls' \in [Threads -> Seq(Calls)] /\ owner' \in Threads \cup {NoThread}
    BY <2>1, <2>2, EnterAppends DEF Lock
  <2>4. /\ LockHeld' /\ \A u \in Threads \ {t} : ~Packing(u)'
        /\ Packing(t)' <=> Packing(t)
    BY <2>1, <2>2, EnterKeepsLock
  <2>5. \A u \in Threads \ {t} : packed[u] = {} /\ covered[u] = {}
    BY <2>2, OthersAreOut DEF Lock
  <2>6. TypeOK'
    BY <2>2, <2>3 DEF TypeOK, engineVars, Calls
  <2> QED
    BY <2>2, <2>4, <2>5, <2>6 DEF OnlyWhilePacking
<1>4. ASSUME NEW t \in Threads, ScriptIsBotPost(t) PROVE MutexInv'
  <2>1. /\ calls[t] # << >> /\ Leave(t) /\ Unlock(t) /\ Top(t) # "pack"
        /\ UNCHANGED << engineVars, packed, covered >>
    BY <1>4 DEF ScriptIsBotPost
  <2>2. /\ calls' \in [Threads -> Seq(Calls)]
        /\ owner' \in Threads \cup {NoThread}
        /\ owner = t
        /\ Len(calls[t]) \in Nat \ {0} /\ DOMAIN calls[t] = 1 .. Len(calls[t])
    BY <2>1, LeaveDrops DEF Unlock, TypeOK, LockHeld
  <2>3. /\ LockHeld' /\ \A u \in Threads \ {t} : ~Packing(u)'
        /\ Packing(t)' <=> Packing(t)
    <3>1. /\ LockHeld' /\ \A u \in Threads \ {t} : ~Packing(u)'
          /\ Packing(t)' <=> \E i \in 1 .. Len(calls[t]) - 1 : calls[t][i] = "pack"
      BY <2>1, LeaveKeepsLock
    <3>2. Packing(t) <=> \E i \in 1 .. Len(calls[t]) - 1 : calls[t][i] = "pack"
      <4>1. calls[t][Len(calls[t])] # "pack"
        BY <2>1 DEF Top
      <4>2. \A i \in 1 .. Len(calls[t]) :
              calls[t][i] = "pack" => i \in 1 .. Len(calls[t]) - 1
        BY <2>2, <4>1
      <4>3. \A i \in 1 .. Len(calls[t]) - 1 : i \in 1 .. Len(calls[t])
        BY <2>2
      <4> QED
        BY <2>2, <4>2, <4>3 DEF Packing
    <3> QED
      BY <3>1, <3>2
  <2>4. \A u \in Threads \ {t} : packed[u] = {} /\ covered[u] = {}
    BY <2>2, OthersAreOut
  <2>5. TypeOK'
    BY <2>1, <2>2 DEF TypeOK, engineVars, Calls
  <2> QED
    BY <2>1, <2>3, <2>4, <2>5 DEF OnlyWhilePacking
<1>5. CASE EngineStep
  <2>1. UNCHANGED hookVars
    BY <1>5 DEF EngineStep, SetMode, Adopt, Release, CreatePawn, SharePawn, MarkForDelete, Delete
  <2>2. TypeOK'
    BY <1>5, EngineKeepsTypes
  <2> QED
    BY <2>1, <2>2 DEF hookVars, LockHeld, OnlyWhilePacking, Packing
<1>6. CASE UNCHANGED vars
  BY <1>6 DEF vars, engineVars, TypeOK, LockHeld, OnlyWhilePacking, Packing
<1> QED
  BY <1>1, <1>2, <1>3, <1>4, <1>5, <1>6 DEF Next, HookStep

\* The invariant of the mutex holds in every reachable state.
THEOREM MutexAlwaysHeld == Spec => []MutexInv
BY InitMutex, NextMutex, PTL DEF Spec

\* The variables have their types, for any number of threads and pawns.
THEOREM TypeCorrect == Spec => []TypeOK
<1>1. MutexInv => TypeOK
  BY DEF MutexInv
<1> QED
  BY <1>1, MutexAlwaysHeld, PTL

\* While a script's IsBot shows the bots as bots, no other thread packs them.
THEOREM ScriptsNeverMeetPacking == Spec => []NoPackDuringScript
<1>1. MutexInv => NoPackDuringScript
  <2> SUFFICES ASSUME MutexInv, NEW t \in Threads, NEW u \in Threads, InScript(t), Packing(u)
               PROVE  t = u
    BY DEF NoPackDuringScript
  <2>1. calls[t] # << >> /\ calls[u] # << >>
    BY DEF InScript, Packing
  <2> QED
    BY <2>1 DEF MutexInv, LockHeld
<1> QED
  BY <1>1, MutexAlwaysHeld, PTL

-------------------------------------------------------------------------------
(* The flag. *)

\* Serial numbers of pawns and of remembered handles have been given out.
SerialsKnown ==
  /\ \A e \in Entities : entity[e] # NoPawn => entity[e].serial <= serials
  /\ \A t \in Threads : \A h \in packed[t] \cup covered[t] : h.serial <= serials

\* A remembered pawn that is still there had the flag and has lost it.
PackedLostFlag ==
  \A t \in Threads : \A h \in packed[t] :
    Lives(h) => ~entity[h.index].flag /\ entity[h.index].own

\* The inductive invariant of the flag.
FlagInv == SerialsKnown /\ PackedLostFlag /\ PackedWithoutFlag /\ FlagReturned

\* An entry of the list is empty or a pawn.
LEMMA PawnFields ==
  ASSUME TypeOK, NEW e \in Entities, entity[e] # NoPawn
  PROVE  /\ entity[e] \in Pawn
         /\ entity[e].serial \in Nat
         /\ entity[e].flag \in BOOLEAN /\ entity[e].own \in BOOLEAN
         /\ entity[e].deleting \in BOOLEAN
         /\ entity[e] = [serial |-> entity[e].serial, flag |-> entity[e].flag,
                         own |-> entity[e].own, deleting |-> entity[e].deleting]
<1>1. entity[e] \in Pawn
  BY DEF TypeOK
<1> QED
  BY <1>1 DEF Pawn, Serials

LEMMA NoPawnIsNoPawn == NoPawn \notin Pawn
BY PackAssumption DEF Pawn, Serials

\* Clearing the flag changes nothing else of a pawn.
LEMMA ApplyEffect ==
  ASSUME TypeOK, NEW t \in Threads, ApplyBotFlagOverride(t), NEW e \in Entities
  PROVE  /\ entity'[e] = NoPawn <=> entity[e] = NoPawn
         /\ entity[e] # NoPawn =>
              /\ entity'[e].serial = entity[e].serial
              /\ entity'[e].own = entity[e].own
              /\ entity'[e].deleting = entity[e].deleting
              /\ entity'[e].flag <=> entity[e].flag /\ ~\E h \in packed'[t] : h.index = e
<1>1. IF \E h \in packed'[t] : h.index = e
        THEN entity'[e] = [entity[e] EXCEPT !.flag = FALSE]
        ELSE entity'[e] = entity[e]
  BY ApplyKeepsList
<1>2. CASE \E h \in packed'[t] : h.index = e
  <2>1. entity[e] # NoPawn
    <3>1. \A h \in packed'[t] : Lives(h)
      BY ApplyKeepsList DEF ManagedPawns
    <3> QED
      BY <1>2, <3>1 DEF Lives
  <2>2. entity[e] \in Pawn
    BY <2>1 DEF TypeOK
  <2>3. entity'[e] = [entity[e] EXCEPT !.flag = FALSE]
    BY <1>1, <1>2
  <2>4. /\ entity'[e].serial = entity[e].serial
        /\ entity'[e].own = entity[e].own
        /\ entity'[e].deleting = entity[e].deleting
        /\ entity'[e].flag = FALSE
        /\ entity'[e] \in Pawn
    BY <2>2, <2>3 DEF Pawn
  <2> QED
    BY <1>2, <2>1, <2>4, NoPawnIsNoPawn
<1>3. CASE ~\E h \in packed'[t] : h.index = e
  BY <1>1, <1>3
<1> QED
  BY <1>2, <1>3

\* Restoring the flag changes nothing else of a pawn.
LEMMA RestoreEffect ==
  ASSUME TypeOK, NEW t \in Threads, RestoreBotFlagOverride(t), NEW e \in Entities
  PROVE  /\ entity'[e] = NoPawn <=> entity[e] = NoPawn
         /\ entity[e] # NoPawn =>
              /\ entity'[e].serial = entity[e].serial
              /\ entity'[e].own = entity[e].own
              /\ entity'[e].deleting = entity[e].deleting
              /\ entity'[e].flag <=> entity[e].flag \/ \E h \in packed[t] : h.index = e /\ Lives(h)
<1>1. IF \E h \in packed[t] : h.index = e /\ Lives(h)
        THEN entity'[e] = [entity[e] EXCEPT !.flag = TRUE]
        ELSE entity'[e] = entity[e]
  BY RestoreKeepsList
<1>2. CASE \E h \in packed[t] : h.index = e /\ Lives(h)
  <2>1. entity[e] # NoPawn
    BY <1>2 DEF Lives
  <2>2. entity[e] \in Pawn
    BY <2>1 DEF TypeOK
  <2>3. entity'[e] = [entity[e] EXCEPT !.flag = TRUE]
    BY <1>1, <1>2
  <2>4. /\ entity'[e].serial = entity[e].serial
        /\ entity'[e].own = entity[e].own
        /\ entity'[e].deleting = entity[e].deleting
        /\ entity'[e].flag = TRUE
        /\ entity'[e] \in Pawn
    BY <2>2, <2>3 DEF Pawn
  <2> QED
    BY <1>2, <2>1, <2>4, NoPawnIsNoPawn
<1>3. CASE ~\E h \in packed[t] : h.index = e /\ Lives(h)
  BY <1>1, <1>3
<1> QED
  BY <1>2, <1>3

LEMMA InitFlag == Init => FlagInv
BY DEF Init, FlagInv, SerialsKnown, PackedLostFlag, PackedWithoutFlag, FlagReturned

\* A handle that is remembered is a handle.
LEMMA RememberedAreHandles ==
  ASSUME TypeOK, NEW t \in Threads, NEW h \in packed[t] \cup covered[t]
  PROVE  h.index \in Entities /\ h.serial \in Nat /\ h = [index |-> h.index, serial |-> h.serial]
<1>1. h \in Handle
  BY DEF TypeOK
<1> QED
  BY <1>1 DEF Handle, Serials

\* The outermost PackEntities clears the flag of the managed bots' pawns.
LEMMA PackPreKeepsFlagInv ==
  ASSUME MutexInv, MutexInv', FlagInv, NEW t \in Threads, PackPre(t), ~Packing(t), IsDisguiseEnabled
  PROVE  FlagInv'
<1> USE DEF MutexInv
<1>1. /\ ApplyBotFlagOverride(t) /\ covered' = [covered EXCEPT ![t] = ManagedPawns]
      /\ owner \in {NoThread, t} /\ serials' = serials
  BY DEF PackPre, Lock
<1>2. \A u \in Threads : packed[u] = {} /\ covered[u] = {}
  BY <1>1, OthersAreOut DEF OnlyWhilePacking
<1>3. /\ packed'[t] = {h \in ManagedPawns : entity[h.index].flag}
      /\ covered'[t] = ManagedPawns
      /\ \A u \in Threads \ {t} : packed'[u] = {} /\ covered'[u] = {}
  BY <1>1, <1>2, ApplyKeepsList DEF TypeOK
<1>4. \A h \in ManagedPawns :
        /\ h.index \in Entities /\ h.serial \in Nat
        /\ h = [index |-> h.index, serial |-> h.serial]
        /\ Lives(h) /\ entity[h.index].serial = h.serial
        /\ entity[h.index] # NoPawn /\ ~entity[h.index].deleting
  BY ManagedPawnsAreHandles DEF Handle, Serials, ManagedPawns, Lives
<1>5. \A e \in Entities :
        /\ entity'[e] = NoPawn <=> entity[e] = NoPawn
        /\ entity[e] # NoPawn =>
             /\ entity'[e].serial = entity[e].serial
             /\ entity'[e].own = entity[e].own
             /\ entity'[e].deleting = entity[e].deleting
             /\ entity'[e].flag <=> entity[e].flag /\ ~\E h \in packed'[t] : h.index = e
  BY <1>1, ApplyEffect
<1>6. SerialsKnown'
  BY <1>1, <1>3, <1>4, <1>5 DEF FlagInv, SerialsKnown
<1>7. \A h \in ManagedPawns : entity[h.index].flag <=> entity[h.index].own
  BY <1>2, <1>4 DEF FlagInv, FlagReturned
<1>8. PackedLostFlag'
  BY <1>3, <1>4, <1>5, <1>7 DEF PackedLostFlag
<1>9. PackedWithoutFlag'
  BY <1>3, <1>4, <1>5 DEF PackedWithoutFlag
<1>10. FlagReturned'
  <2> SUFFICES ASSUME NEW e \in Entities, entity'[e] # NoPawn, ~entity'[e].deleting,
                      \A u \in Threads : [index |-> e, serial |-> entity'[e].serial] \notin packed'[u]
               PROVE  entity'[e].flag = entity'[e].own
    BY DEF FlagReturned
  <2>1. ~\E h \in packed'[t] : h.index = e
    BY <1>3, <1>4, <1>5
  <2>2. entity[e].flag = entity[e].own
    BY <1>2, <1>5 DEF FlagInv, FlagReturned
  <2>3. entity[e].flag \in BOOLEAN /\ entity'[e].flag \in BOOLEAN
    <3>1. entity'[e] \in Pawn
      BY DEF TypeOK
    <3> QED
      BY <1>5, <3>1, PawnFields DEF Pawn
  <2> QED
    BY <1>5, <2>1, <2>2, <2>3
<1> QED
  BY <1>6, <1>8, <1>9, <1>10 DEF FlagInv

\* The return of the outermost call gives the flag back.
LEMMA PackPostKeepsFlagInv ==
  ASSUME MutexInv, MutexInv', FlagInv, NEW t \in Threads, PackPost(t), Outermost(t)
  PROVE  FlagInv'
<1> USE DEF MutexInv
<1>1. /\ RestoreBotFlagOverride(t) /\ serials' = serials
      /\ packed' = [packed EXCEPT ![t] = {}] /\ covered' = [covered EXCEPT ![t] = {}]
      /\ calls[t] # << >>
  BY DEF PackPost
<1>2. owner = t
  BY <1>1 DEF LockHeld
<1>3. \A u \in Threads \ {t} : packed[u] = {} /\ covered[u] = {}
  BY <1>2, OthersAreOut
<1>4. \A u \in Threads : packed'[u] = {} /\ covered'[u] = {}
  BY <1>1, <1>3 DEF TypeOK
<1>5. \A e \in Entities :
        /\ entity'[e] = NoPawn <=> entity[e] = NoPawn
        /\ entity[e] # NoPawn =>
             /\ entity'[e].serial = entity[e].serial
             /\ entity'[e].own = entity[e].own
             /\ entity'[e].deleting = entity[e].deleting
             /\ entity'[e].flag <=> entity[e].flag \/ \E h \in packed[t] : h.index = e /\ Lives(h)
  BY <1>1, RestoreEffect
<1>6. SerialsKnown' /\ PackedLostFlag' /\ PackedWithoutFlag'
  BY <1>1, <1>4, <1>5 DEF FlagInv, SerialsKnown, PackedLostFlag, PackedWithoutFlag
<1>7. FlagReturned'
  <2> SUFFICES ASSUME NEW e \in Entities, entity'[e] # NoPawn, ~entity'[e].deleting
               PROVE  entity'[e].flag = entity'[e].own
    BY DEF FlagReturned
  <2> DEFINE name == [index |-> e, serial |-> entity[e].serial]
  <2>1. /\ entity[e].flag \in BOOLEAN /\ entity'[e].flag \in BOOLEAN
        /\ entity[e].own \in BOOLEAN /\ entity[e].serial \in Nat
        /\ entity[e] # NoPawn /\ ~entity[e].deleting
    <3>1. entity'[e] \in Pawn
      BY DEF TypeOK
    <3> QED
      BY <1>5, <3>1, PawnFields DEF Pawn
  <2>2. CASE name \in packed[t]
    <3>1. name.index = e /\ Lives(name)
      BY <2>1 DEF Lives
    <3>2. entity[e].own
      BY <2>2, <3>1 DEF FlagInv, PackedLostFlag
    <3> QED
      BY <1>5, <2>1, <2>2, <3>1, <3>2
  <2>3. CASE name \notin packed[t]
    <3>1. ~\E h \in packed[t] : h.index = e /\ Lives(h)
      <4>1. \A h \in packed[t] : h = [index |-> h.index, serial |-> h.serial]
        BY RememberedAreHandles
      <4> QED
        BY <2>3, <4>1 DEF Lives
    <3>2. entity[e].flag = entity[e].own
      BY <1>3, <2>1, <2>3 DEF FlagInv, FlagReturned
    <3> QED
      BY <1>5, <2>1, <3>1, <3>2
  <2> QED
    BY <2>2, <2>3
<1> QED
  BY <1>6, <1>7 DEF FlagInv

\* The engine never gives an old serial number to a new pawn, and leaves the
\* flags of the others alone.
LEMMA EngineKeepsFlagInv ==
  ASSUME MutexInv, MutexInv', FlagInv, EngineStep
  PROVE  FlagInv'
<1> USE DEF MutexInv
<1>1. UNCHANGED << packed, covered >>
  BY DEF EngineStep, SetMode, Adopt, Release, CreatePawn, SharePawn, MarkForDelete, Delete, hookVars
<1>2. \A t \in Threads : \A h \in packed[t] \cup covered[t] : h.index \in Entities /\ h.serial \in Nat
  BY RememberedAreHandles
<1>3. \A e \in Entities : entity[e] # NoPawn => entity[e] \in Pawn /\ entity[e].serial \in Nat
  BY PawnFields
<1>4. serials \in Nat
  <2>1. serials \in 0 .. MaxSerials /\ MaxSerials \in Nat
    BY PackAssumption DEF TypeOK
  <2> QED
    BY <2>1
<1>5. CASE UNCHANGED << entity, serials >>
  BY <1>1, <1>5 DEF FlagInv, SerialsKnown, PackedLostFlag, PackedWithoutFlag, FlagReturned, Lives
<1>6. ASSUME NEW s \in Slots, NEW e \in Entities, NEW isBot \in BOOLEAN, CreatePawn(s, e, isBot)
      PROVE  FlagInv'
  <2>1. /\ serials' = serials + 1
        /\ entity'[e] = [serial |-> serials + 1, flag |-> isBot, own |-> isBot, deleting |-> FALSE]
        /\ \A d \in Entities \ {e} : entity'[d] = entity[d]
    BY <1>6 DEF CreatePawn, TypeOK
  <2>2. /\ entity'[e].serial = serials + 1
        /\ entity'[e].flag = isBot /\ entity'[e].own = isBot
    BY <2>1
  <2>3. \A t \in Threads : \A h \in packed[t] \cup covered[t] :
          h.serial <= serials /\ (Lives(h)' => h.index # e)
    BY <1>2, <1>4, <2>2 DEF FlagInv, SerialsKnown, Lives
  <2>4. SerialsKnown'
    BY <1>1, <1>2, <1>3, <1>4, <2>1, <2>2, <2>3 DEF FlagInv, SerialsKnown
  <2>5. PackedLostFlag' /\ PackedWithoutFlag'
    BY <1>1, <1>2, <2>1, <2>3 DEF FlagInv, PackedLostFlag, PackedWithoutFlag, Lives
  <2>6. FlagReturned'
    BY <1>1, <2>1, <2>2 DEF FlagInv, FlagReturned
  <2> QED
    BY <2>4, <2>5, <2>6 DEF FlagInv
<1>7. ASSUME NEW e \in Entities, MarkForDelete(e)
      PROVE  FlagInv'
  <2>1. /\ serials' = serials /\ entity[e] \in Pawn
        /\ entity'[e] = [entity[e] EXCEPT !.deleting = TRUE]
        /\ \A d \in Entities \ {e} : entity'[d] = entity[d]
    BY <1>3, <1>7 DEF MarkForDelete, TypeOK
  <2>2. entity'[e].deleting /\ entity'[e].serial = entity[e].serial
    BY <2>1 DEF Pawn
  <2>3. entity[e] # NoPawn
    BY <2>1, NoPawnIsNoPawn
  <2>4. SerialsKnown'
    BY <1>1, <2>1, <2>2, <2>3 DEF FlagInv, SerialsKnown
  <2>5. PackedLostFlag' /\ PackedWithoutFlag'
    BY <1>1, <1>2, <2>1, <2>2 DEF FlagInv, PackedLostFlag, PackedWithoutFlag, Lives
  <2>6. FlagReturned'
    BY <1>1, <2>1, <2>2 DEF FlagInv, FlagReturned
  <2> QED
    BY <2>4, <2>5, <2>6 DEF FlagInv
<1>8. ASSUME NEW e \in Entities, Delete(e)
      PROVE  FlagInv'
  <2>1. /\ serials' = serials /\ entity'[e] = NoPawn
        /\ \A d \in Entities \ {e} : entity'[d] = entity[d]
    BY <1>8 DEF Delete, TypeOK
  <2> QED
    BY <1>1, <1>2, <2>1
       DEF FlagInv, SerialsKnown, PackedLostFlag, PackedWithoutFlag, FlagReturned, Lives
<1> QED
  BY <1>5, <1>6, <1>7, <1>8 DEF EngineStep, SetMode, Adopt, Release, SharePawn

\* Every step keeps the invariant of the flag.
LEMMA NextFlag == MutexInv /\ MutexInv' /\ FlagInv /\ [Next]_vars => FlagInv'
<1> SUFFICES ASSUME MutexInv, MutexInv', FlagInv, [Next]_vars PROVE FlagInv'
  OBVIOUS
<1>1. CASE UNCHANGED << entity, serials, packed, covered >>
  BY <1>1 DEF FlagInv, SerialsKnown, PackedLostFlag, PackedWithoutFlag, FlagReturned, Lives
<1>2. ASSUME NEW t \in Threads, PackPre(t) PROVE FlagInv'
  <2>1. CASE ~Packing(t) /\ IsDisguiseEnabled
    BY <1>2, <2>1, PackPreKeepsFlagInv
  <2> QED
    BY <1>1, <1>2, <2>1 DEF PackPre
<1>3. ASSUME NEW t \in Threads, PackPost(t) PROVE FlagInv'
  <2>1. CASE Outermost(t)
    BY <1>3, <2>1, PackPostKeepsFlagInv
  <2> QED
    BY <1>1, <1>3, <2>1 DEF PackPost
<1>4. ASSUME NEW t \in Threads, ScriptIsBotPre(t) \/ ScriptIsBotPost(t) PROVE FlagInv'
  BY <1>1, <1>4 DEF ScriptIsBotPre, ScriptIsBotPost, engineVars
<1>5. CASE EngineStep
  BY <1>5, EngineKeepsFlagInv
<1>6. CASE UNCHANGED vars
  BY <1>1, <1>6 DEF vars, engineVars
<1> QED
  BY <1>2, <1>3, <1>4, <1>5, <1>6 DEF Next, HookStep

\* The invariant of the flag holds in every reachable state.
THEOREM FlagAlwaysKept == Spec => []FlagInv
BY InitFlag, NextFlag, MutexAlwaysHeld, PTL DEF Spec

\* Whatever threads pack and whatever becomes of the pawns meanwhile, managed
\* bots are packed without FL_BOT.
THEOREM BotsArePackedWithoutFlag == Spec => []PackedWithoutFlag
<1>1. FlagInv => PackedWithoutFlag
  BY DEF FlagInv
<1> QED
  BY <1>1, FlagAlwaysKept, PTL

\* No pawn loses or gains FL_BOT for longer than a call of PackEntities.
THEOREM FlagAlwaysReturned == Spec => []FlagReturned
<1>1. FlagInv => FlagReturned
  BY DEF FlagInv
<1> QED
  BY <1>1, FlagAlwaysKept, PTL
===============================================================================
