---------------------------- MODULE Presentation ----------------------------
(***************************************************************************)
(* The C# provider: it shows every managed bot's name, SteamID, crosshair, *)
(* scoreboard flair and clan on the bot's controller, at once when the API *)
(* sets one (a write queued for the next frame) and again by a             *)
(* reconciliation every two seconds and at rounds, spawns and deaths.      *)
(*                                                                         *)
(* The fields do not depend on one another: a behaviour follows one of     *)
(* them, field.  A controller's field has a value the server sees (shown)  *)
(* and the value the players were last told (published): a write may fail  *)
(* before it sets the field or before it tells the players.                *)
(* Everything runs on the game thread.                                     *)
(***************************************************************************)
EXTENDS Integers, Sequences

CONSTANTS Slots,
          Fields,      \* the fields followed
          Values,      \* values an identity, the API or the engine gives a field
          NoValue,     \* null; for a clan also: the identity has none
          NoSnap,      \* the snapshot of a slot that is not managed
          NoController,
          NoClan,      \* no ClanPresentationState
          MaxLives,    \* bound: clients the engine creates in one behaviour
          MaxQueue     \* bound: writes queued for the next frame

VARIABLES field,   \* the field this behaviour follows
          who,     \* engine: user ID of the client in the slot, 0 when none
          lives,   \* clients created so far
          map,     \* engine: a map is running
          snap,    \* native snapshot: incarnation and wanted value
          ctl,     \* engine: the slot's controller
          client,  \* _client: the provider is loaded and connected
          view,    \* the provider's caches
          queue    \* writes for the next frame

engineVars == << who, lives, map, snap >>
vars == << field, engineVars, ctl, client, view, queue >>

(***************************************************************************)
(* life is a controller's handle, own the value it would show without the  *)
(* provider; forgotten records that a write failed and that the provider   *)
(* no longer knows.  pending, applied and observed are the _pending...,    *)
(* _applied... and _observedIncarnations arrays; clan is the presenter's   *)
(* state for the slot.  current of a queued write: neither the client nor  *)
(* the generation has changed since it was queued.                         *)
(***************************************************************************)
Value == Values \cup {NoValue}
Lives == 1 .. MaxLives
Snap == [inc : Lives, wanted : Value]
Controller == [life : Lives, own : Value, shown : Value, published : Value, forgotten : BOOLEAN]
ClanState == [life : Lives, user : Lives, base : Value, pending : BOOLEAN]
View == [observed : 0 .. MaxLives, pending : BOOLEAN, applied : Value,
         clan : ClanState \cup {NoClan}]
QueuedWrite == [slot : Slots, inc : Lives, value : Value, current : BOOLEAN]

ASSUME PresentationAssumption ==
  /\ Fields \subseteq {"name", "sid", "crosshair", "flair", "clan"}
  /\ MaxLives \in Nat /\ MaxQueue \in Nat
  /\ NoSnap \notin Snap /\ NoController \notin Controller /\ NoClan \notin ClanState

TypeOK ==
  /\ field \in Fields
  /\ who \in [Slots -> 0 .. MaxLives] /\ lives \in 0 .. MaxLives
  /\ map \in BOOLEAN /\ client \in BOOLEAN
  /\ snap \in [Slots -> Snap \cup {NoSnap}]
  /\ ctl \in [Slots -> Controller \cup {NoController}]
  /\ view \in [Slots -> View]
  /\ queue \in Seq(QueuedWrite) /\ Len(queue) <= MaxQueue

NoView == [observed |-> 0, pending |-> FALSE, applied |-> NoValue, clan |-> NoClan]
Managed(s) == snap[s] # NoSnap
Present(s) == ctl[s] # NoController
Cached == field \in {"crosshair", "flair"}

(***************************************************************************)
(* Writing a field.  r is a view with its controller; fail says where a    *)
(* write throws: nowhere, before the field is set, before the players are  *)
(* told, or there is no inventory (flair only).                            *)
(***************************************************************************)
Fails == {"no", "set", "notify", "absent"}

Put(c, value, fail) ==
  CASE fail = "no" -> [c EXCEPT !.shown = value, !.published = value,
                                !.forgotten = @ /\ field = "clan"]
    [] fail = "notify" -> [c EXCEPT !.shown = value]
    [] OTHER -> c

Forgets(r) == [r EXCEPT !.c = IF @ = NoController THEN @ ELSE [@ EXCEPT !.forgotten = TRUE]]

\* WriteVisibleName, WriteVisibleSid, WriteVisibleCrosshair: the first two
\* raise a flag until the players were told, the crosshair has none.
WriteVisible_NoPending(r, value, fail) ==
  [v |-> [r.v EXCEPT !.applied = IF fail = "no" /\ Cached THEN value ELSE @],
   c |-> Put(r.c, value, fail)]
WriteVisible(r, value, fail) ==
  LET q == [v |-> [r.v EXCEPT !.pending = fail # "no" /\ field # "crosshair",
                              !.applied = IF fail = "no" /\ Cached THEN value ELSE @],
            c |-> Put(r.c, value, fail)]
  IN  IF field = "crosshair" /\ fail = "notify" /\ r.v.applied = value THEN Forgets(q) ELSE q

\* TryApplyScoreboardFlair, and what its callers remember.
TryApplyScoreboardFlair(r, value, fail) ==
  CASE fail = "absent" -> r
    [] fail # "absent" /\ r.c.shown = value /\ ~r.v.pending -> [r EXCEPT !.v.applied = value]
    [] OTHER -> WriteVisible(r, value, fail)

Written(r, value, fail) ==
  IF field = "flair" THEN TryApplyScoreboardFlair(r, value, fail)
                     ELSE WriteVisible(r, value, fail)

NeedsWrite(r, value) ==
  r.v.pending \/ r.c.shown # value \/ (Cached /\ r.v.applied # value)

(***************************************************************************)
(* The clan: ClanPresentationState.Apply, ClanTagPresenter.                *)
(***************************************************************************)
ClanApply_ByValue(r, base, target, fail) ==
  IF r.c.shown # target
    THEN [v |-> [r.v EXCEPT !.clan.base = base, !.clan.pending = fail # "no"],
          c |-> Put(r.c, target, fail)]
    ELSE [r EXCEPT !.v.clan.base = base, !.v.clan.pending = FALSE]
ClanApply(r, base, target, fail) ==
  IF r.c.shown # target \/ r.v.clan.pending
    THEN [v |-> [r.v EXCEPT !.clan.base = base, !.clan.pending = fail # "no"],
          c |-> Put(r.c, target, fail)]
    ELSE [r EXCEPT !.v.clan.base = base]

\* The controller and the user ID the state was made for.
SameOwner(s, r) ==
  r.c # NoController /\ r.v.clan.life = r.c.life /\ r.v.clan.user = who[s]

\* A restore that throws keeps the state for the next attempt; a state whose
\* controller has another user by now is dropped.
Restore(s, r, fail) ==
  LET dropped == [r EXCEPT !.v.clan = NoClan]
      back == ClanApply(r, r.v.clan.base, r.v.clan.base, fail)
  IN  CASE r.v.clan = NoClan -> r
        [] r.v.clan # NoClan /\ SameOwner(s, r) ->
             IF back.v.clan.pending THEN back ELSE [back EXCEPT !.v.clan = NoClan]
        [] OTHER -> IF r.c # NoController /\ r.c.life = r.v.clan.life
                      THEN Forgets(dropped) ELSE dropped

Apply_SaveAgain(s, r, value, fail) ==
  LET held == [life |-> r.c.life, user |-> who[s], base |-> r.c.shown, pending |-> FALSE]
  IN  IF value = NoValue THEN Restore(s, r, fail)
      ELSE ClanApply([r EXCEPT !.v.clan = held], held.base, value, fail)
Apply(s, r, value, fail) ==
  LET kept == IF r.v.clan = NoClan \/ SameOwner(s, r) THEN r ELSE Restore(s, r, fail)
      held == IF kept.v.clan # NoClan THEN kept.v.clan
              ELSE [life |-> r.c.life, user |-> who[s], base |-> r.c.shown, pending |-> FALSE]
  IN  IF value = NoValue THEN Restore(s, r, fail)
      ELSE ClanApply([kept EXCEPT !.v.clan = held], held.base, value, fail)

(***************************************************************************)
(* Resetting and reconciling a slot.                                       *)
(***************************************************************************)
\* ResetAppliedSlot: a write that had to be repeated is forgotten.
ResetAppliedSlot(s, r, inc, fail) ==
  LET q == Restore(s, r, fail)
      clean == [q EXCEPT !.v.observed = inc, !.v.pending = FALSE, !.v.applied = NoValue]
  IN  IF q.v.pending THEN Forgets(clean) ELSE clean

Observed(s, r, fail) ==
  IF r.v.observed # snap[s].inc THEN ResetAppliedSlot(s, r, snap[s].inc, fail) ELSE r

Slot(s) == [v |-> view[s], c |-> ctl[s]]

\* ApplyManagedSlot; failRestore for the reset, fail for the write.
Reconciled(s, before, failRestore, fail) ==
  LET r == Observed(s, before, failRestore)
      wanted == snap[s].wanted
  IN  CASE ~Managed(s) -> ResetAppliedSlot(s, before, 0, failRestore)
        [] Managed(s) /\ r.c = NoController -> r
        [] Managed(s) /\ r.c # NoController /\ field = "clan" -> Apply(s, r, wanted, fail)
        [] OTHER -> IF NeedsWrite(r, wanted) THEN Written(r, wanted, fail) ELSE r

AllBecome(R(_)) ==
  /\ view' = [s \in Slots |-> R(s).v]
  /\ ctl' = [s \in Slots |-> R(s).c]
Becomes(s, r) ==
  /\ view' = [view EXCEPT ![s] = r.v]
  /\ ctl' = [ctl EXCEPT ![s] = r.c]

\* ApplyManagedSlots: every two seconds and at round start.
ApplyManagedSlots(failRestore, fail) ==
  /\ client /\ map
  /\ AllBecome(LAMBDA s : Reconciled(s, Slot(s), failRestore, fail))
  /\ UNCHANGED << field, engineVars, client, queue >>

\* OnPlayerConnectFull, OnPlayerSpawn, OnPlayerDeath.
ApplyManagedSlot(s, failRestore, fail) ==
  /\ client /\ map /\ Present(s)
  /\ Becomes(s, Reconciled(s, Slot(s), failRestore, fail))
  /\ UNCHANGED << field, engineVars, client, queue >>

(***************************************************************************)
(* Writes queued for the next frame.                                       *)
(***************************************************************************)
\* BH_SetName, BH_SetSteamId, BH_SetCrosshair, BH_SetFlair, then
\* QueueVisibleWrite.  A clan cannot be set.
SetField(s, value) ==
  /\ client /\ field # "clan" /\ Managed(s) /\ Len(queue) < MaxQueue
  /\ snap' = [snap EXCEPT ![s].wanted = value]
  /\ queue' = Append(queue,
       [slot |-> s, inc |-> snap[s].inc, value |-> value, current |-> TRUE])
  /\ UNCHANGED << field, who, lives, map, ctl, client, view >>

WriteIsValid_AnyBot(w) == w.current /\ Managed(w.slot)
WriteIsValid(w) == w.current /\ Managed(w.slot) /\ snap[w.slot].inc = w.inc

RunQueuedWrite(failRestore, fail) ==
  LET w == Head(queue)
      r == Observed(w.slot, Slot(w.slot), failRestore)
      value == IF field = "sid" THEN snap[w.slot].wanted ELSE w.value
      skip == r.c = NoController \/ (field = "sid" /\ ~NeedsWrite(r, value))
  IN  /\ queue # << >>
      /\ queue' = Tail(queue)
      /\ IF WriteIsValid(w)
           THEN Becomes(w.slot, IF skip THEN r ELSE Written(r, value, fail))
           ELSE UNCHANGED << view, ctl >>
      /\ UNCHANGED << field, engineVars, client >>

(***************************************************************************)
(* Load, unload, maps and disconnects.                                     *)
(***************************************************************************)
Outdated == [i \in DOMAIN queue |-> [queue[i] EXCEPT !.current = FALSE]]

\* Unload drops the provider's state with the provider.
Unloaded(r) ==
  [v |-> NoView, c |-> IF r.v.clan = NoClan THEN r.c ELSE Forgets(r).c]

\* Load ends with ApplyManagedSlots.  It may throw before ("early") and after
\* that ("late"): Unload follows.
Load(outcome, failRestore, fail) ==
  LET Loaded(s) == Reconciled(s, [v |-> NoView, c |-> ctl[s]], "no", fail)
      Undone(s) == Unloaded(ResetAppliedSlot(s, Loaded(s), 0, failRestore))
  IN  /\ ~client
      /\ client' = (outcome = "loaded")
      /\ CASE outcome = "loaded" -> AllBecome(Loaded)
           [] outcome = "late" -> AllBecome(Undone)
           [] OTHER -> UNCHANGED << view, ctl >>
      /\ UNCHANGED << field, engineVars, queue >>

Unload(fail) ==
  /\ client /\ client' = FALSE
  /\ queue' = Outdated
  /\ AllBecome(LAMBDA s : Unloaded(ResetAppliedSlot(s, Slot(s), 0, fail)))
  /\ UNCHANGED << field, engineVars >>

\* ResetAppliedState; the native plugin gives every slot back (LevelLifecycle).
OnMapEnd(fail) ==
  /\ map /\ map' = FALSE
  /\ snap' = [s \in Slots |-> NoSnap]
  /\ queue' = IF client THEN Outdated ELSE queue
  /\ IF client THEN AllBecome(LAMBDA s : ResetAppliedSlot(s, Slot(s), 0, fail))
               ELSE UNCHANGED << view, ctl >>
  /\ UNCHANGED << field, who, lives, client >>

\* A map starts without controllers: ResetAppliedState, and nothing to apply.
OnMapStart ==
  /\ ~map /\ map' = TRUE
  /\ \A s \in Slots : ~Present(s)
  /\ queue' = IF client THEN Outdated ELSE queue
  /\ view' = [s \in Slots |-> NoView]
  /\ UNCHANGED << field, who, lives, snap, ctl, client >>

\* The native hook gives the slot back, the listener resets it.
OnClientDisconnect(s, fail) ==
  /\ who[s] # 0
  /\ who' = [who EXCEPT ![s] = 0]
  /\ snap' = [snap EXCEPT ![s] = NoSnap]
  /\ IF client THEN Becomes(s, ResetAppliedSlot(s, Slot(s), 0, fail))
               ELSE UNCHANGED << view, ctl >>
  /\ UNCHANGED << field, lives, map, client, queue >>

(***************************************************************************)
(* The engine and the native plugin.                                       *)
(***************************************************************************)
\* A client connects and is adopted or not; the last client's controller may
\* still be there and then becomes its own.
Connect(s, adopted, value) ==
  /\ map /\ who[s] = 0 /\ lives < MaxLives
  /\ lives' = lives + 1
  /\ who' = [who EXCEPT ![s] = lives + 1]
  /\ snap' = [snap EXCEPT ![s] = IF adopted THEN [inc |-> lives + 1, wanted |-> value] ELSE NoSnap]
  /\ UNCHANGED << field, map, ctl, client, view, queue >>

CreateController(s, value) ==
  /\ map /\ who[s] # 0 /\ ~Present(s)
  /\ ctl' = [ctl EXCEPT ![s] = [life |-> who[s], own |-> value, shown |-> value,
                                published |-> value, forgotten |-> FALSE]]
  /\ UNCHANGED << field, engineVars, client, view, queue >>

\* Of a client that left, or with the map.
RemoveController(s) ==
  /\ Present(s) /\ (who[s] = 0 \/ ~map)
  /\ ctl' = [ctl EXCEPT ![s] = NoController]
  /\ UNCHANGED << field, engineVars, client, view, queue >>

\* SourceTV, or a SteamID clash: the slot is given back, the client stays.
ReleaseSlot(s) ==
  /\ Managed(s)
  /\ snap' = [snap EXCEPT ![s] = NoSnap]
  /\ UNCHANGED << field, who, lives, map, ctl, client, view, queue >>

\* The engine writes the field itself, a bot's clan excepted.
EngineWrites(s, value) ==
  /\ Present(s) /\ field # "clan" /\ ctl[s].shown # value
  /\ ctl' = [ctl EXCEPT ![s] = Put(@, value, "no")]
  /\ UNCHANGED << field, engineVars, client, view, queue >>

Init ==
  /\ field \in Fields
  /\ who = [s \in Slots |-> 0] /\ lives = 0
  /\ map = TRUE
  /\ snap = [s \in Slots |-> NoSnap]
  /\ ctl = [s \in Slots |-> NoController]
  /\ client = FALSE
  /\ view = [s \in Slots |-> NoView]
  /\ queue = << >>

ProviderStep ==
  \E failRestore, fail \in Fails :
    \/ ApplyManagedSlots(failRestore, fail)
    \/ \E s \in Slots : ApplyManagedSlot(s, failRestore, fail)
    \/ RunQueuedWrite(failRestore, fail)
    \/ \E outcome \in {"loaded", "early", "late"} : Load(outcome, failRestore, fail)
    \/ Unload(fail)
    \/ OnMapEnd(fail)
    \/ \E s \in Slots : OnClientDisconnect(s, fail)

EngineStep ==
  \/ OnMapStart
  \/ \E s \in Slots :
       \/ \E value \in Values :
            SetField(s, value) \/ CreateController(s, value) \/ EngineWrites(s, value)
       \/ \E adopted \in BOOLEAN, value \in Value : Connect(s, adopted, value)
       \/ RemoveController(s)
       \/ ReleaseSlot(s)

Next == ProviderStep \/ EngineStep

\* The reconciliation runs every two seconds; its writes do not fail for ever.
Fairness == WF_vars(ApplyManagedSlots("no", "no"))

Spec == Init /\ [][Next]_vars /\ Fairness

-------------------------------------------------------------------------------
\* The value saved as the controller's own is not one the provider wrote, and
\* without a saved value the controller shows its own, whatever writes failed
\* and whoever used the slot in between (unless a restore was given up).
ClanIsGivenBack ==
  field = "clan" => \A s \in Slots : Present(s) /\ ~ctl[s].forgotten =>
    IF view[s].clan # NoClan /\ view[s].clan.life = ctl[s].life
      THEN view[s].clan.base = ctl[s].own
      ELSE ctl[s].shown = ctl[s].own

\* A write queued before another bot took the slot, a newer value was set or
\* the map ended never has the last word: it leaves the wanted value, or a
\* later write for the same bot is still queued.
NoStaleWriteLast ==
  [][ \A s \in Slots :
        /\ queue # << >> /\ queue' = Tail(queue)
        /\ Present(s) /\ ctl[s].shown # ctl'[s].shown
        => \/ ctl'[s].shown = snap[s].wanted
           \/ \E i \in DOMAIN queue' : queue'[i].slot = s /\ queue'[i].inc = snap[s].inc ]_vars

\* The players are told the wanted value in the end, however often writes fail,
\* bots change and the provider is loaded anew: no failed write is lost but the
\* ones counted as forgotten.
WantedIsPublished ==
  \A s \in Slots :
    []<>(\/ ~client \/ ~map \/ ~Managed(s) \/ ~Present(s)
         \/ ctl[s].forgotten
         \/ ctl[s].published = snap[s].wanted
         \/ field = "clan" /\ snap[s].wanted = NoValue)

\* A bot that is no longer managed, or whose identity has no clan, is shown
\* with its own clan again in the end.
ClanReturns ==
  field = "clan" => \A s \in Slots :
    []<>(\/ ~client \/ ~map \/ ~Present(s) \/ ctl[s].forgotten
         \/ Managed(s) /\ snap[s].wanted # NoValue
         \/ ctl[s].published = ctl[s].own)
===============================================================================
