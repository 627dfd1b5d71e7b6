-------------------------- MODULE PresentationProofs --------------------------
(***************************************************************************)
(* Proofs about Presentation: a controller's own clan is never lost, and   *)
(* a queued write never has the last word over a newer value, for any      *)
(* number of slots, clients, values and queued writes, whatever writes     *)
(* fail and whenever the provider is unloaded.                             *)
(***************************************************************************)
EXTENDS Presentation, SequenceTheorems, TLAPS

-------------------------------------------------------------------------------
\* A slot's caches with its controller.
SlotRec == [v : View, c : Controller \cup {NoController}]

\* What holds of them: only the clan has a state of its own, made for a
\* controller that existed; while it is kept, it holds the controller's own
\* clan, and without it the controller shows that clan.
KeepsOwn(r) ==
  r.c # NoController /\ ~r.c.forgotten =>
    IF r.v.clan # NoClan /\ r.v.clan.life = r.c.life
      THEN r.v.clan.base = r.c.own
      ELSE r.c.shown = r.c.own

SlotType(r) ==
  /\ r \in SlotRec
  /\ r.v.clan # NoClan => field = "clan" /\ r.v.clan.life <= lives
  /\ r.c # NoController => r.c.life <= lives

SlotOK(r) == SlotType(r) /\ (field = "clan" => KeepsOwn(r))

SlotsOK == \A s \in Slots : SlotOK(Slot(s))

\* User IDs and incarnations were given out; a managed slot has a client.
WhoOK ==
  \A s \in Slots :
    /\ who[s] <= lives
    /\ Managed(s) => who[s] # 0 /\ snap[s].inc <= lives

\* A clan state left by a client of the past is not taken for the next one's.
NoStateInAdvance ==
  map => \A s \in Slots :
    ~Present(s) /\ view[s].clan # NoClan => view[s].clan.life # who[s]

\* Without the provider there are no caches.
UnloadedIsBlank == ~client => \A s \in Slots : view[s] = NoView

\* A queued write that counts has the wanted value, or a later one follows it;
\* none counts once the provider is unloaded.
QueueOK ==
  /\ field = "clan" => queue = << >>
  /\ \A i \in 1 .. Len(queue) :
       /\ queue[i].inc <= lives
       /\ queue[i].current => client
       /\ Managed(queue[i].slot) /\ snap[queue[i].slot].inc = queue[i].inc =>
            \/ ~queue[i].current
            \/ queue[i].value = snap[queue[i].slot].wanted
            \/ \E j \in i + 1 .. Len(queue) :
                 queue[j].slot = queue[i].slot /\ queue[j].inc = queue[i].inc

IndInv ==
  /\ TypeOK
  /\ SlotsOK
  /\ WhoOK
  /\ NoStateInAdvance
  /\ UnloadedIsBlank
  /\ QueueOK

-------------------------------------------------------------------------------
\* What every operation of the provider on a slot keeps: the controller is
\* there or not as before, and a clan state belongs to it or was there before.
Keeps(r, q) ==
  /\ q \in SlotRec
  /\ q.c = NoController <=> r.c = NoController
  /\ r.c # NoController => q.c.life = r.c.life
  /\ q.v.clan # NoClan =>
       /\ field = "clan"
       /\ \/ r.v.clan # NoClan /\ q.v.clan.life = r.v.clan.life
          \/ r.c # NoController /\ q.v.clan.life = r.c.life
  /\ field = "clan" => KeepsOwn(q)

\* Other fields than the clan: nothing is shown but what was shown or value.
ShowsOnly(r, q, value) ==
  field # "clan" /\ r.c # NoController => q.c.shown \in {r.c.shown, value}
SameShown(r, q) ==
  field # "clan" /\ r.c # NoController => q.c.shown = r.c.shown

LEMMA KeepsIsOK ==
  ASSUME NEW r, NEW q, SlotOK(r), Keeps(r, q), lives \in Nat
  PROVE  SlotOK(q)
<1>1. q.v.clan # NoClan => q.v.clan.life <= lives
  BY DEF SlotOK, SlotType, Keeps
<1>2. q.c # NoController => q.c.life <= lives
  BY DEF SlotOK, SlotType, Keeps
<1> QED  BY <1>1, <1>2 DEF SlotOK, SlotType, Keeps

LEMMA KeepsItself ==
  ASSUME NEW r, SlotOK(r)
  PROVE  Keeps(r, r) /\ SameShown(r, r)
BY DEF SlotOK, SlotType, Keeps, SameShown

LEMMA KeepsAgain ==
  ASSUME NEW r, NEW q, NEW p, Keeps(r, q), Keeps(q, p)
  PROVE  Keeps(r, p)
BY DEF Keeps

-------------------------------------------------------------------------------
(***************************************************************************)
(* Writing a field.                                                        *)
(***************************************************************************)
LEMMA PutEffect ==
  ASSUME NEW c \in Controller, NEW value \in Value, NEW fail \in Fails
  PROVE  LET p == Put(c, value, fail) IN
         /\ p \in Controller
         /\ p.life = c.life /\ p.own = c.own
         /\ p.shown \in {c.shown, value}
         /\ fail = "no" => p.shown = value
         /\ field = "clan" => p.forgotten = c.forgotten
<1>1. CASE fail = "no"  BY <1>1 DEF Put, Controller
<1>2. CASE fail = "notify"  BY <1>2 DEF Put, Controller
<1>3. CASE fail \in {"set", "absent"}  BY <1>3 DEF Put
<1> QED  BY <1>1, <1>2, <1>3 DEF Fails

LEMMA ForgetsEffect ==
  ASSUME NEW r \in SlotRec
  PROVE  LET q == Forgets(r) IN
         /\ q \in SlotRec /\ q.v = r.v
         /\ q.c = NoController <=> r.c = NoController
         /\ r.c # NoController =>
              q.c.life = r.c.life /\ q.c.own = r.c.own /\ q.c.shown = r.c.shown /\ q.c.forgotten
<1>1. CASE r.c = NoController  BY <1>1 DEF Forgets, SlotRec
<1>2. CASE r.c # NoController
  <2> DEFINE c == [r.c EXCEPT !.forgotten = TRUE]
  <2>1. r.c \in Controller  BY <1>2 DEF SlotRec
  <2>2. /\ c \in Controller /\ c.life = r.c.life /\ c.own = r.c.own
        /\ c.shown = r.c.shown /\ c.forgotten
    BY <2>1 DEF Controller
  <2>3. c # NoController  BY <2>2, PresentationAssumption
  <2>4. Forgets(r) = [r EXCEPT !.c = c]  BY <1>2 DEF Forgets, SlotRec
  <2> HIDE DEF c
  <2> QED  BY <1>2, <2>2, <2>3, <2>4 DEF SlotRec
<1> QED  BY <1>1, <1>2

LEMMA WriteVisibleEffect ==
  ASSUME NEW r, SlotOK(r), r.c # NoController, field # "clan",
         NEW value \in Value, NEW fail \in Fails
  PROVE  /\ Keeps(r, WriteVisible(r, value, fail))
         /\ ShowsOnly(r, WriteVisible(r, value, fail), value)
<1> DEFINE v == [r.v EXCEPT !.pending = fail # "no" /\ field # "crosshair",
                            !.applied = IF fail = "no" /\ Cached THEN value ELSE @]
           c == Put(r.c, value, fail)
           q == [v |-> v, c |-> c]
<1>1. r \in SlotRec /\ r.v \in View /\ r.c \in Controller /\ r.v.clan = NoClan
  BY DEF SlotOK, SlotType, SlotRec
<1>2. v \in View /\ v.clan = r.v.clan
  BY <1>1 DEF View
<1>3. c \in Controller /\ c.life = r.c.life /\ c.shown \in {r.c.shown, value}
  BY <1>1, PutEffect
<1>4. WriteVisible(r, value, fail) \in {q, Forgets(q)}
  BY DEF WriteVisible
<1> HIDE DEF v, c
<1>5. q \in SlotRec /\ q.c # NoController
  BY <1>2, <1>3, PresentationAssumption DEF SlotRec
<1>6. Keeps(r, q) /\ ShowsOnly(r, q, value)
  BY <1>1, <1>2, <1>3, <1>5 DEF Keeps, ShowsOnly
<1> HIDE DEF q
<1>7. Keeps(r, Forgets(q)) /\ ShowsOnly(r, Forgets(q), value)
  BY <1>1, <1>5, <1>6, ForgetsEffect DEF Keeps, ShowsOnly
<1> QED  BY <1>4, <1>6, <1>7

LEMMA WrittenEffect ==
  ASSUME NEW r, SlotOK(r), r.c # NoController, field # "clan",
         NEW value \in Value, NEW fail \in Fails
  PROVE  /\ Keeps(r, Written(r, value, fail))
         /\ ShowsOnly(r, Written(r, value, fail), value)
<1> DEFINE q == [r EXCEPT !.v.applied = value]
<1>1. r \in SlotRec /\ r.v \in View /\ r.v.clan = NoClan
  BY DEF SlotOK, SlotType, SlotRec
<1>2. Written(r, value, fail) \in {r, q, WriteVisible(r, value, fail)}
  BY DEF Written, TryApplyScoreboardFlair
<1>3. q.v \in View /\ q.v.clan = NoClan /\ q.c = r.c /\ q \in SlotRec
  <2>1. q = [v |-> [r.v EXCEPT !.applied = value], c |-> r.c]
    BY <1>1 DEF SlotRec
  <2>2. [r.v EXCEPT !.applied = value] \in View /\ [r.v EXCEPT !.applied = value].clan = r.v.clan
    BY <1>1 DEF View
  <2> HIDE DEF q
  <2> QED  BY <1>1, <2>1, <2>2 DEF SlotRec
<1> HIDE DEF q
<1>4. Keeps(r, q) /\ ShowsOnly(r, q, value)
  BY <1>1, <1>3 DEF Keeps, ShowsOnly
<1>5. Keeps(r, r) /\ ShowsOnly(r, r, value)
  BY KeepsItself DEF ShowsOnly
<1> QED  BY <1>2, <1>4, <1>5, WriteVisibleEffect

-------------------------------------------------------------------------------
(***************************************************************************)
(* The clan.                                                               *)
(***************************************************************************)
\* A slot whose clan state is replaced or dropped.
LEMMA WithClan ==
  ASSUME NEW r \in SlotRec, NEW clan \in ClanState \cup {NoClan}
  PROVE  LET q == [r EXCEPT !.v.clan = clan] IN
         /\ q \in SlotRec /\ q.c = r.c /\ q.v.clan = clan
         /\ q.v.observed = r.v.observed /\ q.v.pending = r.v.pending /\ q.v.applied = r.v.applied
<1>1. r.v \in View  BY DEF SlotRec
<1> DEFINE w == [r.v EXCEPT !.clan = clan]
<1>2. w \in View /\ w.clan = clan /\ w.observed = r.v.observed
      /\ w.pending = r.v.pending /\ w.applied = r.v.applied
  BY <1>1 DEF View
<1>3. [r EXCEPT !.v.clan = clan] = [v |-> w, c |-> r.c]
  BY DEF SlotRec
<1> HIDE DEF w
<1> QED  BY <1>2, <1>3 DEF SlotRec

LEMMA ClanApplyEffect ==
  ASSUME NEW r \in SlotRec, r.c # NoController, r.v.clan # NoClan,
         NEW base \in Value, NEW target \in Value, NEW fail \in Fails
  PROVE  LET q == ClanApply(r, base, target, fail) IN
         /\ q \in SlotRec /\ q.c \in Controller
         /\ q.c.life = r.c.life /\ q.c.own = r.c.own
         /\ field = "clan" => q.c.forgotten = r.c.forgotten
         /\ q.v.clan \in ClanState /\ q.v.clan.life = r.v.clan.life /\ q.v.clan.base = base
         /\ q.v.pending = r.v.pending
         /\ ~q.v.clan.pending => q.c.shown = target
<1>1. r.v \in View /\ r.v.clan \in ClanState /\ r.c \in Controller
  BY DEF SlotRec, View
<1> DEFINE k(p) == [r.v.clan EXCEPT !.base = base, !.pending = p]
           v(p) == [r.v EXCEPT !.clan = k(p)]
<1>2. ASSUME NEW p \in BOOLEAN
      PROVE  /\ k(p) \in ClanState /\ k(p).life = r.v.clan.life
             /\ k(p).base = base /\ k(p).pending = p
  BY <1>1 DEF ClanState
<1> HIDE DEF k
<1>3. ASSUME NEW p \in BOOLEAN
      PROVE  v(p) \in View /\ v(p).clan = k(p) /\ v(p).pending = r.v.pending
  BY <1>1, <1>2 DEF View
<1>4. CASE r.c.shown # target \/ r.v.clan.pending
  <2> DEFINE p == fail # "no"
  <2>1. ClanApply(r, base, target, fail) = [v |-> v(p), c |-> Put(r.c, target, fail)]
    BY <1>1, <1>4 DEF ClanApply, k, View, ClanState
  <2>2. p \in BOOLEAN  OBVIOUS
  <2>3. ~p => Put(r.c, target, fail).shown = target
    BY <1>1, PutEffect
  <2> HIDE DEF v, p
  <2> QED  BY <1>1, <1>2, <1>3, <2>1, <2>2, <2>3, PutEffect DEF SlotRec
<1>5. CASE ~(r.c.shown # target \/ r.v.clan.pending)
  <2> DEFINE p == r.v.clan.pending
  <2>1. ClanApply(r, base, target, fail) = [v |-> v(p), c |-> r.c]
    BY <1>1, <1>5 DEF ClanApply, k, View, ClanState, SlotRec
  <2>2. p \in BOOLEAN  BY <1>1 DEF ClanState
  <2> HIDE DEF v
  <2> QED  BY <1>1, <1>2, <1>3, <1>5, <2>1, <2>2 DEF SlotRec
<1> QED  BY <1>4, <1>5

\* A restore gives the controller its own clan back, or keeps the state.
LEMMA RestoreEffect ==
  ASSUME NEW s, NEW r, SlotOK(r), NEW fail \in Fails
  PROVE  LET q == Restore(s, r, fail) IN
         /\ Keeps(r, q) /\ SameShown(r, q)
         /\ ~SameOwner(s, r) =>
              q.v.clan = NoClan /\ (r.c # NoController => q.c.shown = r.c.shown)
<1>1. r \in SlotRec /\ r.v \in View
  BY DEF SlotOK, SlotType, SlotRec
<1>2. CASE r.v.clan = NoClan
  BY <1>2, KeepsItself DEF Restore
<1>3. CASE r.v.clan # NoClan /\ SameOwner(s, r)
  <2> DEFINE base == r.v.clan.base
             back == ClanApply(r, base, base, fail)
             q == [back EXCEPT !.v.clan = NoClan]
  <2>1. /\ field = "clan" /\ r.v.clan \in ClanState /\ base \in Value
        /\ r.c # NoController /\ r.c \in Controller
        /\ r.v.clan.life = r.c.life
    BY <1>1, <1>3 DEF SlotOK, SlotType, SlotRec, View, ClanState, SameOwner
  <2>2. ~r.c.forgotten => base = r.c.own
    BY <1>3, <2>1 DEF SlotOK, KeepsOwn
  <2>3. /\ back \in SlotRec /\ back.c \in Controller
        /\ back.c.life = r.c.life /\ back.c.own = r.c.own
        /\ back.c.forgotten = r.c.forgotten
        /\ back.v.clan \in ClanState /\ back.v.clan.life = r.v.clan.life /\ back.v.clan.base = base
        /\ ~back.v.clan.pending => back.c.shown = base
    BY <1>1, <1>3, <2>1, ClanApplyEffect
  <2>4. Restore(s, r, fail) = IF back.v.clan.pending THEN back ELSE q
    BY <1>3 DEF Restore
  <2> HIDE DEF back
  <2>5. q \in SlotRec /\ q.c = back.c /\ q.v.clan = NoClan
    BY <2>3, WithClan
  <2> HIDE DEF q, base
  <2>6. back.c # NoController /\ back.v.clan # NoClan
    BY <2>3, PresentationAssumption
  <2>7. back.v.clan.pending => Keeps(r, back)
    BY <1>3, <2>1, <2>2, <2>3, <2>6 DEF Keeps, KeepsOwn
  <2>8. ~back.v.clan.pending => Keeps(r, q)
    BY <1>3, <2>1, <2>2, <2>3, <2>5, <2>6 DEF Keeps, KeepsOwn
  <2> QED  BY <1>3, <2>1, <2>4, <2>7, <2>8 DEF SameShown
<1>4. CASE r.v.clan # NoClan /\ ~SameOwner(s, r)
  <2> DEFINE dropped == [r EXCEPT !.v.clan = NoClan]
  <2>1. dropped \in SlotRec /\ dropped.c = r.c /\ dropped.v.clan = NoClan
    BY <1>1, WithClan
  <2>2. Restore(s, r, fail) = IF r.c # NoController /\ r.c.life = r.v.clan.life
                                THEN Forgets(dropped) ELSE dropped
    BY <1>4 DEF Restore
  <2>3. field = "clan"
    BY <1>4 DEF SlotOK, SlotType
  <2> HIDE DEF dropped
  <2>4. CASE r.c # NoController /\ r.c.life = r.v.clan.life
    BY <1>1, <2>1, <2>2, <2>3, <2>4, ForgetsEffect DEF Keeps, KeepsOwn, SameShown
  <2>5. CASE ~(r.c # NoController /\ r.c.life = r.v.clan.life)
    BY <1>1, <1>4, <2>1, <2>2, <2>3, <2>5 DEF Keeps, KeepsOwn, SameShown, SlotOK
  <2> QED  BY <2>4, <2>5
<1> QED  BY <1>2, <1>3, <1>4

\* A clan is shown only once the controller's own is kept in the state.
LEMMA ApplyEffect ==
  ASSUME NEW s, NEW r, SlotOK(r), r.c # NoController, field = "clan", who[s] \in Lives,
         lives \in Nat, NEW value \in Value, NEW fail \in Fails
  PROVE  Keeps(r, Apply(s, r, value, fail))
<1> DEFINE kept == IF r.v.clan = NoClan \/ SameOwner(s, r) THEN r ELSE Restore(s, r, fail)
           held == IF kept.v.clan # NoClan THEN kept.v.clan
                   ELSE [life |-> r.c.life, user |-> who[s], base |-> r.c.shown, pending |-> FALSE]
           p == [kept EXCEPT !.v.clan = held]
           q == ClanApply(p, held.base, value, fail)
<1>1. Apply(s, r, value, fail) = IF value = NoValue THEN Restore(s, r, fail) ELSE q
  BY DEF Apply
<1>2. /\ Keeps(r, kept)
      /\ kept.v.clan # NoClan => kept.v.clan.life = r.c.life
  BY KeepsItself, RestoreEffect DEF SameOwner
<1>3. /\ kept \in SlotRec /\ kept.c # NoController /\ kept.c \in Controller
      /\ kept.c.life = r.c.life
  BY <1>2 DEF Keeps, SlotRec
<1>4. kept.v.clan = NoClan => kept.c.shown = r.c.shown
  BY RestoreEffect
<1>5. kept.v.clan = NoClan /\ ~kept.c.forgotten => r.c.shown = kept.c.own
  BY <1>2, <1>3, <1>4 DEF Keeps, KeepsOwn
<1>6. kept.v.clan # NoClan /\ ~kept.c.forgotten => kept.v.clan.base = kept.c.own
  BY <1>2, <1>3 DEF Keeps, KeepsOwn
<1> HIDE DEF kept
<1>7. /\ held \in ClanState /\ held.life = r.c.life
      /\ ~kept.c.forgotten => held.base = kept.c.own
  <2>1. r.c.life \in Lives /\ r.c.shown \in Value
    BY DEF SlotOK, SlotType, SlotRec, Controller
  <2>2. CASE kept.v.clan # NoClan
    BY <1>2, <1>3, <1>6, <2>2 DEF SlotRec, View
  <2>3. CASE kept.v.clan = NoClan
    BY <1>5, <2>1, <2>3 DEF ClanState
  <2> QED  BY <2>2, <2>3
<1> HIDE DEF held
<1>8. p \in SlotRec /\ p.c = kept.c /\ p.v.clan = held
  BY <1>3, <1>7, WithClan
<1>9. held # NoClan /\ held.base \in Value
  BY <1>7, PresentationAssumption DEF ClanState
<1> HIDE DEF p
<1>10. /\ q \in SlotRec /\ q.c \in Controller
       /\ q.c.life = kept.c.life /\ q.c.own = kept.c.own
       /\ q.c.forgotten = kept.c.forgotten
       /\ q.v.clan \in ClanState /\ q.v.clan.life = held.life /\ q.v.clan.base = held.base
  BY <1>3, <1>8, <1>9, ClanApplyEffect
<1> HIDE DEF q
<1>11. Keeps(r, q)
  <2>1. q.c # NoController /\ q.v.clan # NoClan
    BY <1>10, PresentationAssumption
  <2> QED  BY <1>3, <1>7, <1>10, <2>1 DEF Keeps, KeepsOwn
<1> QED  BY <1>1, <1>11, RestoreEffect

-------------------------------------------------------------------------------
(***************************************************************************)
(* Resetting and reconciling a slot.                                       *)
(***************************************************************************)
LEMMA CleanView ==
  ASSUME NEW p \in SlotRec, NEW inc \in 0 .. MaxLives
  PROVE  LET clean == [p EXCEPT !.v.observed = inc, !.v.pending = FALSE, !.v.applied = NoValue]
         IN  clean \in SlotRec /\ clean.v.clan = p.v.clan /\ clean.c = p.c
<1> DEFINE o == [p EXCEPT !.v.observed = inc]
           n == [o EXCEPT !.v.pending = FALSE]
           a == [n EXCEPT !.v.applied = NoValue]
           clean == [p EXCEPT !.v.observed = inc, !.v.pending = FALSE, !.v.applied = NoValue]
<1>1. o \in SlotRec /\ o.v.clan = p.v.clan /\ o.c = p.c
  BY DEF SlotRec, View
<1>2. clean = [n EXCEPT !.v.applied = NoValue]
  OBVIOUS
<1> HIDE DEF o
<1>3. n \in SlotRec /\ n.v.clan = o.v.clan /\ n.c = o.c
  BY <1>1 DEF SlotRec, View
<1> HIDE DEF n
<1>4. a \in SlotRec /\ a.v.clan = n.v.clan /\ a.c = n.c
  BY <1>3 DEF SlotRec, View, Value
<1> QED  BY <1>1, <1>2, <1>3, <1>4

LEMMA ResetEffect ==
  ASSUME NEW s, NEW r, SlotOK(r), NEW inc \in 0 .. MaxLives, NEW fail \in Fails
  PROVE  LET q == ResetAppliedSlot(s, r, inc, fail) IN
         Keeps(r, q) /\ SameShown(r, q)
<1> DEFINE p == Restore(s, r, fail)
           clean == [p EXCEPT !.v.observed = inc, !.v.pending = FALSE, !.v.applied = NoValue]
<1>1. Keeps(r, p) /\ SameShown(r, p)
  BY RestoreEffect
<1>2. ResetAppliedSlot(s, r, inc, fail) \in {clean, Forgets(clean)}
  BY DEF ResetAppliedSlot
<1>3. p \in SlotRec
  BY <1>1 DEF Keeps
<1> HIDE DEF p
<1>6. clean \in SlotRec /\ clean.v.clan = p.v.clan /\ clean.c = p.c
  BY <1>3, CleanView
<1> HIDE DEF clean
<1>7. Keeps(r, clean) /\ SameShown(r, clean)
  BY <1>1, <1>6 DEF Keeps, KeepsOwn, SameShown
<1>8. Keeps(r, Forgets(clean)) /\ SameShown(r, Forgets(clean))
  BY <1>6, <1>7, ForgetsEffect DEF Keeps, KeepsOwn, SameShown
<1> QED  BY <1>2, <1>7, <1>8

LEMMA ObservedEffect ==
  ASSUME NEW s, NEW r, SlotOK(r), snap[s] \in Snap, NEW fail \in Fails, MaxLives \in Nat
  PROVE  Keeps(r, Observed(s, r, fail)) /\ SameShown(r, Observed(s, r, fail))
<1>1. snap[s].inc \in 0 .. MaxLives
  BY DEF Snap, Lives
<1> QED  BY <1>1, ResetEffect, KeepsItself DEF Observed

LEMMA ReconciledEffect ==
  ASSUME NEW s, NEW r, SlotOK(r), snap[s] \in Snap \cup {NoSnap},
         Managed(s) => who[s] \in Lives, lives \in Nat,
         NEW failRestore \in Fails, NEW fail \in Fails
  PROVE  Keeps(r, Reconciled(s, r, failRestore, fail))
<1> DEFINE o == Observed(s, r, failRestore)
           wanted == snap[s].wanted
           q == Reconciled(s, r, failRestore, fail)
<1>1. CASE ~Managed(s)
  <2>1. q = ResetAppliedSlot(s, r, 0, failRestore)
    BY <1>1 DEF Reconciled
  <2>2. 0 \in 0 .. MaxLives  BY PresentationAssumption
  <2> QED  BY <2>1, <2>2, ResetEffect
<1>2. CASE Managed(s)
  <2>1. snap[s] \in Snap /\ wanted \in Value
    BY <1>2 DEF Managed, Snap
  <2>2. Keeps(r, o) /\ SlotOK(o)
    BY <2>1, ObservedEffect, KeepsIsOK, PresentationAssumption
  <2>3. q \in {o, Apply(s, o, wanted, fail), Written(o, wanted, fail)}
    BY <1>2 DEF Reconciled
  <2>4. CASE o.c = NoController
    <3>1. q = o  BY <1>2, <2>4 DEF Reconciled
    <3> QED  BY <2>2, <3>1
  <2>5. CASE o.c # NoController /\ field = "clan"
    <3>1. q = Apply(s, o, wanted, fail)  BY <1>2, <2>5 DEF Reconciled
    <3>2. Keeps(o, Apply(s, o, wanted, fail))
      BY <1>2, <2>1, <2>2, <2>5, ApplyEffect
    <3> QED  BY <2>2, <3>1, <3>2, KeepsAgain
  <2>6. CASE o.c # NoController /\ field # "clan"
    <3>1. q \in {o, Written(o, wanted, fail)}  BY <1>2, <2>6 DEF Reconciled
    <3>2. Keeps(o, Written(o, wanted, fail))
      BY <2>1, <2>2, <2>6, WrittenEffect
    <3> QED  BY <2>2, <3>1, <3>2, KeepsAgain
  <2> QED  BY <2>4, <2>5, <2>6
<1> QED  BY <1>1, <1>2

\* Unload gives up the states with the provider.
LEMMA UnloadedEffect ==
  ASSUME NEW r, SlotOK(r)
  PROVE  Keeps(r, Unloaded(r)) /\ Unloaded(r).v = NoView
<1>1. NoView \in View /\ NoView.clan = NoClan
  BY PresentationAssumption DEF NoView, View, Value
<1>2. r \in SlotRec
  BY DEF SlotOK, SlotType
<1>3. CASE r.v.clan = NoClan
  <2>1. Unloaded(r) = [v |-> NoView, c |-> r.c]
    BY <1>3 DEF Unloaded
  <2> QED  BY <1>1, <1>2, <1>3, <2>1 DEF Keeps, KeepsOwn, SlotOK, SlotRec
<1>4. CASE r.v.clan # NoClan
  <2> DEFINE f == Forgets(r)
  <2>1. Unloaded(r) = [v |-> NoView, c |-> f.c]
    BY <1>4 DEF Unloaded
  <2>2. /\ f \in SlotRec /\ (f.c = NoController <=> r.c = NoController)
        /\ r.c # NoController => f.c.life = r.c.life /\ f.c.forgotten
    BY <1>2, ForgetsEffect
  <2> HIDE DEF f
  <2> QED  BY <1>1, <2>1, <2>2 DEF Keeps, KeepsOwn, SlotRec
<1> QED  BY <1>3, <1>4

-------------------------------------------------------------------------------
(***************************************************************************)
(* The queue of writes.                                                    *)
(***************************************************************************)
LEMMA QueueElements ==
  ASSUME TypeOK
  PROVE  /\ Len(queue) \in Nat
         /\ \A i \in 1 .. Len(queue) :
              /\ queue[i] \in QueuedWrite
              /\ queue[i].slot \in Slots /\ queue[i].inc \in Lives
              /\ queue[i].value \in Value /\ queue[i].current \in BOOLEAN
<1> DEFINE S == QueuedWrite
<1>1. queue \in Seq(S)  BY DEF TypeOK
<1> HIDE DEF S
<1>2. Len(queue) \in Nat /\ \A i \in 1 .. Len(queue) : queue[i] \in S
  BY <1>1
<1> QED  BY <1>2 DEF S, QueuedWrite

LEMMA OutdatedEffect ==
  ASSUME TypeOK
  PROVE  /\ Outdated \in Seq(QueuedWrite) /\ Len(Outdated) = Len(queue)
         /\ \A i \in 1 .. Len(queue) :
              ~Outdated[i].current /\ Outdated[i].inc = queue[i].inc
<1>1. queue \in Seq(QueuedWrite)  BY DEF TypeOK
<1>2. DOMAIN queue = 1 .. Len(queue) /\ Len(queue) \in Nat
  BY <1>1
<1>3. Outdated = [i \in 1 .. Len(queue) |-> [queue[i] EXCEPT !.current = FALSE]]
  BY <1>2 DEF Outdated
<1>4. \A i \in 1 .. Len(queue) :
        LET w == [queue[i] EXCEPT !.current = FALSE] IN
        w \in QueuedWrite /\ ~w.current /\ w.inc = queue[i].inc
  BY QueueElements DEF QueuedWrite
<1>5. Outdated \in [1 .. Len(queue) -> QueuedWrite]
  BY <1>3, <1>4
<1>6. Outdated \in Seq(QueuedWrite) /\ Len(Outdated) = Len(queue)
  BY <1>2, <1>5, SeqDef, LenProperties
<1> QED  BY <1>3, <1>4, <1>6

\* QueueOK with the queue and the snapshots of the next state.
LEMMA SameQueue ==
  ASSUME TypeOK, QueueOK, queue' = queue, UNCHANGED << field, client >>,
         lives' \in Nat, lives <= lives',
         \A s \in Slots : \/ snap'[s] = snap[s]
                          \/ snap'[s] = NoSnap
                          \/ snap'[s].inc > lives
  PROVE  QueueOK'
<1> SUFFICES ASSUME NEW i \in 1 .. Len(queue)
             PROVE  /\ queue[i].inc <= lives'
                    /\ queue[i].current => client'
                    /\ snap'[queue[i].slot] # NoSnap /\ snap'[queue[i].slot].inc = queue[i].inc =>
                         \/ ~queue[i].current
                         \/ queue[i].value = snap'[queue[i].slot].wanted
                         \/ \E j \in i + 1 .. Len(queue) :
                              queue[j].slot = queue[i].slot /\ queue[j].inc = queue[i].inc
  BY DEF QueueOK, Managed
<1>1. queue[i].slot \in Slots /\ queue[i].inc \in Lives /\ queue[i].inc \in Nat
  BY QueueElements DEF Lives
<1>2. queue[i].inc <= lives /\ (queue[i].current => client) /\ lives \in Nat
  BY DEF QueueOK, TypeOK
<1>3. snap'[queue[i].slot] # NoSnap /\ snap'[queue[i].slot].inc = queue[i].inc
        => snap'[queue[i].slot] = snap[queue[i].slot]
  BY <1>1, <1>2
<1> QED  BY <1>1, <1>2, <1>3 DEF QueueOK, Managed

LEMMA OutdatedQueue ==
  ASSUME TypeOK, QueueOK, queue' = Outdated, UNCHANGED << field, lives >>
  PROVE  QueueOK'
<1>1. field = "clan" => queue' = << >>
  BY OutdatedEffect, EmptySeq DEF QueueOK
<1> QED  BY <1>1, OutdatedEffect DEF QueueOK

LEMMA TailQueue ==
  ASSUME TypeOK, QueueOK, queue # << >>, queue' = Tail(queue),
         UNCHANGED << field, lives, snap, client >>
  PROVE  QueueOK'
<1>1. queue \in Seq(QueuedWrite)  BY DEF TypeOK
<1>2. /\ Len(queue) \in Nat \ {0} /\ Len(queue') = Len(queue) - 1
      /\ \A i \in 1 .. Len(queue) - 1 : queue'[i] = queue[i + 1]
  BY <1>1, HeadTailProperties, EmptySeq
<1>3. field # "clan"
  BY DEF QueueOK
<1> SUFFICES ASSUME NEW i \in 1 .. Len(queue')
             PROVE  /\ queue'[i].inc <= lives
                    /\ queue'[i].current => client
                    /\ snap[queue'[i].slot] # NoSnap /\ snap[queue'[i].slot].inc = queue'[i].inc =>
                         \/ ~queue'[i].current
                         \/ queue'[i].value = snap[queue'[i].slot].wanted
                         \/ \E j \in i + 1 .. Len(queue') :
                              queue'[j].slot = queue'[i].slot /\ queue'[j].inc = queue'[i].inc
  BY <1>3 DEF QueueOK, Managed
<1>4. i + 1 \in 1 .. Len(queue) /\ queue'[i] = queue[i + 1]
  BY <1>2
<1> DEFINE w == queue[i + 1]
<1>5. /\ w.inc <= lives
      /\ w.current => client
      /\ snap[w.slot] # NoSnap /\ snap[w.slot].inc = w.inc =>
           \/ ~w.current
           \/ w.value = snap[w.slot].wanted
           \/ \E j \in (i + 1) + 1 .. Len(queue) : queue[j].slot = w.slot /\ queue[j].inc = w.inc
  BY <1>4 DEF QueueOK, Managed
<1>6. ASSUME NEW j \in (i + 1) + 1 .. Len(queue)
      PROVE  j - 1 \in i + 1 .. Len(queue') /\ queue'[j - 1] = queue[j]
  BY <1>2, <1>4
<1> HIDE DEF w
<1>7. queue'[i] = w  BY <1>4 DEF w
<1>8. (\E j \in (i + 1) + 1 .. Len(queue) : queue[j].slot = w.slot /\ queue[j].inc = w.inc)
        => \E j \in i + 1 .. Len(queue') : queue'[j].slot = w.slot /\ queue'[j].inc = w.inc
  <2> SUFFICES ASSUME NEW j \in (i + 1) + 1 .. Len(queue),
                      queue[j].slot = w.slot, queue[j].inc = w.inc
               PROVE  \E k \in i + 1 .. Len(queue') : queue'[k].slot = w.slot /\ queue'[k].inc = w.inc
    OBVIOUS
  <2>1. j - 1 \in i + 1 .. Len(queue') /\ queue'[j - 1] = queue[j]
    BY <1>6
  <2> QED  BY <2>1
<1> QED  BY <1>5, <1>7, <1>8

LEMMA AppendQueue ==
  ASSUME TypeOK, QueueOK, WhoOK, NEW s \in Slots, NEW value \in Value,
         client, field # "clan", Managed(s),
         snap' = [snap EXCEPT ![s].wanted = value],
         queue' = Append(queue, [slot |-> s, inc |-> snap[s].inc, value |-> value, current |-> TRUE]),
         UNCHANGED << field, lives, client >>
  PROVE  QueueOK'
<1> DEFINE w == [slot |-> s, inc |-> snap[s].inc, value |-> value, current |-> TRUE]
           n == Len(queue)
<1>1. snap[s] \in Snap /\ snap[s] # NoSnap /\ snap[s].inc \in Lives
  BY DEF TypeOK, Managed, Snap
<1>2. w \in QueuedWrite
  BY <1>1 DEF QueuedWrite
<1>3. queue \in Seq(QueuedWrite) /\ n \in Nat
  BY QueueElements DEF TypeOK
<1>4. w.slot = s /\ w.inc = snap[s].inc /\ w.value = value /\ w.current
  OBVIOUS
<1> HIDE DEF w
<1>5. queue' = Append(queue, w)
  BY DEF w
<1>6. /\ Len(queue') = n + 1 /\ queue'[n + 1] = w
      /\ \A i \in 1 .. n : queue'[i] = queue[i]
  BY <1>2, <1>3, <1>5, AppendProperties
<1>7. /\ snap'[s].inc = snap[s].inc /\ snap'[s].wanted = value
      /\ \A t \in Slots : t # s => snap'[t] = snap[t]
  BY <1>1 DEF TypeOK, Snap
<1> SUFFICES ASSUME NEW i \in 1 .. n + 1
             PROVE  /\ queue'[i].inc <= lives
                    /\ queue'[i].current => client
                    /\ snap'[queue'[i].slot] # NoSnap /\ snap'[queue'[i].slot].inc = queue'[i].inc =>
                         \/ ~queue'[i].current
                         \/ queue'[i].value = snap'[queue'[i].slot].wanted
                         \/ \E j \in i + 1 .. n + 1 :
                              queue'[j].slot = queue'[i].slot /\ queue'[j].inc = queue'[i].inc
  BY <1>6 DEF QueueOK, Managed
<1>8. CASE i = n + 1
  BY <1>4, <1>6, <1>7, <1>8 DEF WhoOK
<1>9. CASE i \in 1 .. n
  <2>1. /\ queue'[i] = queue[i] /\ queue[i].slot \in Slots
        /\ queue[i].inc <= lives /\ (queue[i].current => client)
    BY <1>6, <1>9, QueueElements DEF QueueOK
  <2>2. CASE queue[i].slot = s /\ queue[i].inc = snap[s].inc
    <3>1. n + 1 \in i + 1 .. n + 1  BY <1>3, <1>9
    <3> QED  BY <1>4, <1>6, <2>1, <2>2, <3>1
  <2>3. CASE queue[i].slot = s /\ queue[i].inc # snap[s].inc
    BY <1>7, <2>1, <2>3
  <2>4. CASE queue[i].slot # s
    <3>1. snap'[queue[i].slot] = snap[queue[i].slot]
      BY <1>7, <2>1, <2>4
    <3>2. snap[queue[i].slot] # NoSnap /\ snap[queue[i].slot].inc = queue[i].inc =>
            \/ ~queue[i].current
            \/ queue[i].value = snap[queue[i].slot].wanted
            \/ \E j \in i + 1 .. n :
                 queue[j].slot = queue[i].slot /\ queue[j].inc = queue[i].inc
      BY <1>9 DEF QueueOK, Managed
    <3>3. \A j \in i + 1 .. n : j \in i + 1 .. n + 1 /\ queue'[j] = queue[j]
      BY <1>3, <1>6, <1>9
    <3>4. (\E j \in i + 1 .. n : queue[j].slot = queue[i].slot /\ queue[j].inc = queue[i].inc)
            => \E j \in i + 1 .. n + 1 :
                 queue'[j].slot = queue[i].slot /\ queue'[j].inc = queue[i].inc
      BY <3>3, Zenon
    <3>5. /\ queue'[i].slot = queue[i].slot /\ queue'[i].inc = queue[i].inc
          /\ queue'[i].value = queue[i].value /\ queue'[i].current = queue[i].current
          /\ queue[i].inc <= lives /\ (queue[i].current => client)
      BY <2>1
    <3> QED  BY <3>1, <3>2, <3>4, <3>5, Zenon
  <2> QED  BY <2>2, <2>3, <2>4
<1> QED  BY <1>3, <1>8, <1>9

-------------------------------------------------------------------------------
(***************************************************************************)
(* What a step of the provider does to the slots.                          *)
(***************************************************************************)
AllKept ==
  /\ view' \in [Slots -> View]
  /\ ctl' \in [Slots -> Controller \cup {NoController}]
  /\ \A s \in Slots : Keeps(Slot(s), Slot(s)')

LEMMA NothingKept ==
  ASSUME IndInv, UNCHANGED << view, ctl >>
  PROVE  AllKept
<1>1. \A s \in Slots : SlotOK(Slot(s)) /\ Slot(s)' = Slot(s)
  BY DEF IndInv, SlotsOK, Slot
<1> QED  BY <1>1, KeepsItself DEF AllKept, IndInv, TypeOK

LEMMA BecomesKept ==
  ASSUME IndInv, NEW s \in Slots, NEW r, Keeps(Slot(s), r), Becomes(s, r)
  PROVE  AllKept
<1>1. r.v \in View /\ r.c \in Controller \cup {NoController} /\ r \in SlotRec
  BY DEF Keeps, SlotRec
<1>2. /\ view' \in [Slots -> View]
      /\ ctl' \in [Slots -> Controller \cup {NoController}]
  BY <1>1 DEF Becomes, IndInv, TypeOK
<1>3. ASSUME NEW t \in Slots
      PROVE  Keeps(Slot(t), Slot(t)')
  <2>1. CASE t = s
    <3>1. Slot(s)' = [v |-> r.v, c |-> r.c]
      BY DEF Slot, Becomes, IndInv, TypeOK
    <3>2. Slot(s)' = r
      BY <1>1, <3>1 DEF SlotRec
    <3> QED  BY <2>1, <3>2
  <2>2. CASE t # s
    <3>1. Slot(t)' = Slot(t)
      BY <2>2 DEF Slot, Becomes, IndInv, TypeOK
    <3>2. SlotOK(Slot(t))
      BY DEF IndInv, SlotsOK
    <3> QED  BY <3>1, <3>2, KeepsItself
  <2> QED  BY <2>1, <2>2
<1> QED  BY <1>2, <1>3 DEF AllKept

\* f gives every slot what it becomes.
LEMMA AllBecomeKept ==
  ASSUME NEW f, \A s \in Slots : Keeps(Slot(s), f[s]),
         view' = [s \in Slots |-> f[s].v], ctl' = [s \in Slots |-> f[s].c]
  PROVE  AllKept
<1>1. \A s \in Slots :
        f[s] \in SlotRec /\ f[s].v \in View /\ f[s].c \in Controller \cup {NoController}
  BY DEF Keeps, SlotRec
<1>2. /\ view' \in [Slots -> View]
      /\ ctl' \in [Slots -> Controller \cup {NoController}]
  BY <1>1
<1>3. ASSUME NEW s \in Slots
      PROVE  Slot(s)' = f[s]
  <2>1. Slot(s)' = [v |-> f[s].v, c |-> f[s].c]
    BY DEF Slot
  <2> QED  BY <1>1, <2>1 DEF SlotRec
<1> QED  BY <1>2, <1>3 DEF AllKept

LEMMA KeptSlots ==
  ASSUME IndInv, AllKept, UNCHANGED << field, lives >>
  PROVE  SlotsOK'
<1> SUFFICES ASSUME NEW s \in Slots
             PROVE  SlotOK(Slot(s))'
  BY DEF SlotsOK
<1>1. SlotOK(Slot(s)) /\ Keeps(Slot(s), Slot(s)') /\ lives \in Nat
  BY DEF IndInv, SlotsOK, TypeOK, AllKept
<1> DEFINE q == Slot(s)'
<1>2. SlotOK(q)
  BY <1>1, KeepsIsOK
<1> QED  BY <1>2 DEF SlotOK, SlotType, KeepsOwn

LEMMA KeptInAdvance ==
  ASSUME IndInv, AllKept, map' => map,
         \A s \in Slots : who'[s] \in {who[s], 0}
  PROVE  NoStateInAdvance'
<1> SUFFICES ASSUME map, NEW s \in Slots, ctl'[s] = NoController, view'[s].clan # NoClan
             PROVE  view'[s].clan.life # who'[s]
  BY DEF NoStateInAdvance, Present
<1>1. Keeps(Slot(s), Slot(s)') /\ Slot(s).v = view[s] /\ Slot(s).c = ctl[s]
      /\ Slot(s)'.v = view'[s] /\ Slot(s)'.c = ctl'[s]
  BY DEF AllKept, Slot
<1>2. ctl[s] = NoController /\ view[s].clan # NoClan /\ view'[s].clan.life = view[s].clan.life
  BY <1>1 DEF Keeps
<1>3. view[s].clan.life # who[s]
  BY <1>2 DEF IndInv, NoStateInAdvance, Present
<1>4. view[s].clan.life \in Lives
  BY <1>2 DEF IndInv, TypeOK, View, ClanState
<1>5. view[s].clan.life # 0
  BY <1>4 DEF Lives
<1> QED  BY <1>2, <1>3, <1>5

LEMMA SlotFacts ==
  ASSUME IndInv, NEW s \in Slots
  PROVE  /\ SlotOK(Slot(s)) /\ Slot(s).v = view[s] /\ Slot(s).c = ctl[s]
         /\ snap[s] \in Snap \cup {NoSnap}
         /\ Managed(s) => who[s] \in Lives /\ snap[s] \in Snap
         /\ lives \in Nat /\ MaxLives \in Nat
<1>1. who[s] \in 0 .. MaxLives
  BY DEF IndInv, TypeOK
<1>2. Managed(s) => who[s] # 0 /\ snap[s] \in Snap
  BY DEF IndInv, WhoOK, Managed, TypeOK
<1> QED  BY <1>1, <1>2, PresentationAssumption DEF IndInv, SlotsOK, Slot, TypeOK, Lives

\* The parts that a step of the provider leaves alone or that follow from AllKept.
LEMMA ProviderKeeps ==
  ASSUME IndInv, AllKept, UNCHANGED << field, lives >>,
         map' \in BOOLEAN, map' => map, client' \in BOOLEAN,
         who' \in [Slots -> 0 .. MaxLives],
         \A s \in Slots : who'[s] = who[s] \/ (who'[s] = 0 /\ snap'[s] = NoSnap),
         snap' \in [Slots -> Snap \cup {NoSnap}],
         \A s \in Slots : snap'[s] \in {snap[s], NoSnap},
         queue' \in Seq(QueuedWrite), Len(queue') <= MaxQueue,
         QueueOK', UnloadedIsBlank'
  PROVE  IndInv'
<1>1. TypeOK'
  BY DEF IndInv, TypeOK, AllKept
<1>2. SlotsOK'
  BY KeptSlots
<1>3. WhoOK'
  <2> SUFFICES ASSUME NEW s \in Slots
               PROVE  /\ who'[s] <= lives
                      /\ snap'[s] # NoSnap => who'[s] # 0 /\ snap'[s].inc <= lives
    BY DEF WhoOK, Managed
  <2>1. lives \in Nat /\ who[s] \in Nat
    BY DEF IndInv, TypeOK
  <2> QED  BY <2>1 DEF IndInv, WhoOK, Managed
<1>4. NoStateInAdvance'
  BY KeptInAdvance
<1> QED  BY <1>1, <1>2, <1>3, <1>4 DEF IndInv

-------------------------------------------------------------------------------
(***************************************************************************)
(* The steps of the provider.                                              *)
(***************************************************************************)
LEMMA ApplyManagedSlotsKeeps ==
  ASSUME IndInv, NEW failRestore \in Fails, NEW fail \in Fails,
         ApplyManagedSlots(failRestore, fail)
  PROVE  IndInv'
<1> DEFINE f == [s \in Slots |-> Reconciled(s, Slot(s), failRestore, fail)]
<1>1. /\ client /\ view' = [s \in Slots |-> f[s].v] /\ ctl' = [s \in Slots |-> f[s].c]
      /\ UNCHANGED << field, who, lives, map, snap, client, queue >>
  BY DEF ApplyManagedSlots, AllBecome, engineVars
<1>2. \A s \in Slots : Keeps(Slot(s), Reconciled(s, Slot(s), failRestore, fail))
  BY SlotFacts, ReconciledEffect
<1>3. \A s \in Slots : Keeps(Slot(s), f[s])
  BY <1>2
<1> HIDE DEF f
<1>4. AllKept
  BY <1>1, <1>3, AllBecomeKept
<1>5. QueueOK' /\ UnloadedIsBlank'
  BY <1>1, SameQueue DEF UnloadedIsBlank, IndInv, TypeOK
<1> QED  BY <1>1, <1>4, <1>5, ProviderKeeps DEF IndInv, TypeOK

LEMMA ApplyManagedSlotKeeps ==
  ASSUME IndInv, NEW s \in Slots, NEW failRestore \in Fails, NEW fail \in Fails,
         ApplyManagedSlot(s, failRestore, fail)
  PROVE  IndInv'
<1>1. /\ client /\ Becomes(s, Reconciled(s, Slot(s), failRestore, fail))
      /\ UNCHANGED << field, who, lives, map, snap, client, queue >>
  BY DEF ApplyManagedSlot, engineVars
<1>2. Keeps(Slot(s), Reconciled(s, Slot(s), failRestore, fail))
  BY SlotFacts, ReconciledEffect
<1>3. AllKept
  BY <1>1, <1>2, BecomesKept
<1>4. QueueOK' /\ UnloadedIsBlank'
  BY <1>1, SameQueue DEF UnloadedIsBlank, IndInv, TypeOK
<1> QED  BY <1>1, <1>3, <1>4, ProviderKeeps DEF IndInv, TypeOK

\* What a queued write that is still valid makes of its slot.
ValueToWrite(w) == IF field = "sid" THEN snap[w.slot].wanted ELSE w.value

AfterWrite(w, failRestore, fail) ==
  LET r == Observed(w.slot, Slot(w.slot), failRestore)
      skip == r.c = NoController \/ (field = "sid" /\ ~NeedsWrite(r, ValueToWrite(w)))
  IN  IF skip THEN r ELSE Written(r, ValueToWrite(w), fail)

LEMMA QueuedWriteEffect ==
  ASSUME IndInv, queue # << >>, NEW failRestore \in Fails, NEW fail \in Fails,
         NEW w, w = Head(queue), Managed(w.slot), field # "clan"
  PROVE  LET q == AfterWrite(w, failRestore, fail) IN
         /\ w.slot \in Slots /\ Keeps(Slot(w.slot), q)
         /\ ctl[w.slot] # NoController => q.c.shown \in {ctl[w.slot].shown, ValueToWrite(w)}
<1> DEFINE value == ValueToWrite(w)
           r == Observed(w.slot, Slot(w.slot), failRestore)
           skip == r.c = NoController \/ (field = "sid" /\ ~NeedsWrite(r, value))
           q == AfterWrite(w, failRestore, fail)
<1>0. q = IF skip THEN r ELSE Written(r, value, fail)
  BY DEF AfterWrite
<1>1. w = queue[1] /\ 1 \in 1 .. Len(queue)
  BY EmptySeq DEF IndInv, TypeOK
<1>2. w.slot \in Slots /\ w.value \in Value
  BY <1>1, QueueElements DEF IndInv
<1>3. /\ SlotOK(Slot(w.slot)) /\ Slot(w.slot).c = ctl[w.slot] /\ lives \in Nat
      /\ snap[w.slot] \in Snap /\ MaxLives \in Nat
  BY <1>2, SlotFacts
<1>4. value \in Value
  BY <1>2, <1>3 DEF Snap, ValueToWrite
<1>5. Keeps(Slot(w.slot), r) /\ SameShown(Slot(w.slot), r)
  BY <1>3, ObservedEffect
<1>6. SlotOK(r)
  BY <1>3, <1>5, KeepsIsOK
<1> HIDE DEF value, q
<1>7. CASE skip
  BY <1>0, <1>2, <1>3, <1>5, <1>7 DEF SameShown, q, value
<1>8. CASE ~skip
  <2>0. q = Written(r, value, fail) /\ r.c # NoController
    BY <1>0, <1>8
  <2>1. Keeps(r, q) /\ ShowsOnly(r, q, value)
    BY <1>4, <1>6, <2>0, WrittenEffect
  <2>2. Keeps(Slot(w.slot), q)
    BY <1>5, <2>1, KeepsAgain
  <2>3. ctl[w.slot] # NoController =>
          r.c.shown = ctl[w.slot].shown /\ q.c.shown \in {r.c.shown, value}
    BY <1>2, <1>3, <1>5, <2>0, <2>1 DEF SameShown, ShowsOnly
  <2> QED  BY <1>2, <2>2, <2>3 DEF q, value
<1> QED  BY <1>7, <1>8

LEMMA RunQueuedWriteKeeps ==
  ASSUME IndInv, NEW failRestore \in Fails, NEW fail \in Fails,
         RunQueuedWrite(failRestore, fail)
  PROVE  IndInv'
<1> DEFINE w == Head(queue)
           q == AfterWrite(w, failRestore, fail)
<1>1. /\ queue # << >> /\ queue' = Tail(queue)
      /\ IF WriteIsValid(w) THEN Becomes(w.slot, q) ELSE UNCHANGED << view, ctl >>
      /\ UNCHANGED << field, who, lives, map, snap, client >>
  BY DEF RunQueuedWrite, AfterWrite, ValueToWrite, engineVars
<1>2. queue \in Seq(QueuedWrite) /\ field # "clan"
  BY <1>1 DEF IndInv, TypeOK, QueueOK
<1>3. /\ queue' \in Seq(QueuedWrite) /\ Len(queue) \in Nat \ {0} /\ Len(queue') = Len(queue) - 1
      /\ w = queue[1]
  BY <1>1, <1>2, HeadTailProperties, EmptySeq
<1>4. WriteIsValid(w) => client
  BY <1>3 DEF IndInv, QueueOK, WriteIsValid
<1>5. AllKept
  <2>1. CASE WriteIsValid(w)
    <3>1. Managed(w.slot)  BY <2>1 DEF WriteIsValid
    <3>2. w.slot \in Slots /\ Keeps(Slot(w.slot), q)
      BY <1>1, <1>2, <3>1, QueuedWriteEffect
    <3> QED  BY <1>1, <2>1, <3>2, BecomesKept
  <2>2. CASE ~WriteIsValid(w)
    BY <1>1, <2>2, NothingKept
  <2> QED  BY <2>1, <2>2
<1>6. QueueOK'
  BY <1>1, TailQueue DEF IndInv
<1>7. UnloadedIsBlank'
  BY <1>1, <1>4 DEF IndInv, UnloadedIsBlank
<1>8. Len(queue') <= MaxQueue
  BY <1>3, PresentationAssumption DEF IndInv, TypeOK
<1> QED  BY <1>1, <1>3, <1>5, <1>6, <1>7, <1>8, ProviderKeeps DEF IndInv, TypeOK

\* A slot that Load applied or gave up again.
LEMMA LoadedEffect ==
  ASSUME IndInv, ~client, NEW s \in Slots, NEW failRestore \in Fails, NEW fail \in Fails,
         NEW r, r = Reconciled(s, [v |-> NoView, c |-> ctl[s]], "no", fail),
         NEW u, u = Unloaded(ResetAppliedSlot(s, r, 0, failRestore))
  PROVE  Keeps(Slot(s), r) /\ Keeps(Slot(s), u) /\ u.v = NoView
<1>1. Slot(s) = [v |-> NoView, c |-> ctl[s]]
  BY DEF IndInv, UnloadedIsBlank, Slot
<1>2. "no" \in Fails /\ 0 \in 0 .. MaxLives
  BY PresentationAssumption DEF Fails
<1>3. Keeps(Slot(s), r)
  BY <1>1, <1>2, SlotFacts, ReconciledEffect
<1>4. SlotOK(r)
  BY <1>3, SlotFacts, KeepsIsOK
<1> DEFINE p == ResetAppliedSlot(s, r, 0, failRestore)
<1>5. Keeps(r, p)
  BY <1>2, <1>4, ResetEffect
<1>6. SlotOK(p)
  BY <1>4, <1>5, SlotFacts, KeepsIsOK
<1>7. Keeps(p, u) /\ u.v = NoView
  BY <1>6, UnloadedEffect
<1> HIDE DEF p
<1> QED  BY <1>3, <1>5, <1>7, KeepsAgain

LEMMA LoadKeeps ==
  ASSUME IndInv, NEW outcome \in {"loaded", "early", "late"},
         NEW failRestore \in Fails, NEW fail \in Fails,
         Load(outcome, failRestore, fail)
  PROVE  IndInv'
<1> DEFINE R(s) == Reconciled(s, [v |-> NoView, c |-> ctl[s]], "no", fail)
           U(s) == Unloaded(ResetAppliedSlot(s, R(s), 0, failRestore))
           f == [s \in Slots |-> R(s)]
           g == [s \in Slots |-> U(s)]
<1>1. /\ ~client /\ client' = (outcome = "loaded")
      /\ UNCHANGED << field, who, lives, map, snap, queue >>
  BY DEF Load, engineVars
<1>2. /\ outcome = "loaded" =>
           view' = [s \in Slots |-> f[s].v] /\ ctl' = [s \in Slots |-> f[s].c]
      /\ outcome = "late" =>
           view' = [s \in Slots |-> g[s].v] /\ ctl' = [s \in Slots |-> g[s].c]
      /\ outcome = "early" => UNCHANGED << view, ctl >>
  BY DEF Load, AllBecome
<1>3. \A s \in Slots : Keeps(Slot(s), R(s)) /\ Keeps(Slot(s), U(s)) /\ U(s).v = NoView
  BY <1>1, LoadedEffect
<1>4. \A s \in Slots : Keeps(Slot(s), f[s]) /\ Keeps(Slot(s), g[s]) /\ g[s].v = NoView
  BY <1>3
<1> HIDE DEF f, g
<1>5. AllKept
  <2>1. CASE outcome = "loaded"  BY <1>2, <1>4, <2>1, AllBecomeKept
  <2>2. CASE outcome = "late"  BY <1>2, <1>4, <2>2, AllBecomeKept
  <2>3. CASE outcome = "early"  BY <1>2, <2>3, NothingKept
  <2> QED  BY <2>1, <2>2, <2>3
<1>6. UnloadedIsBlank'
  BY <1>1, <1>2, <1>4 DEF IndInv, UnloadedIsBlank
<1>7. QueueOK'
  <2>1. \A i \in 1 .. Len(queue) : ~queue[i].current
    BY <1>1 DEF IndInv, QueueOK
  <2> QED  BY <1>1, <2>1 DEF IndInv, QueueOK
<1> QED  BY <1>1, <1>5, <1>6, <1>7, ProviderKeeps DEF IndInv, TypeOK

LEMMA SlotReset ==
  ASSUME IndInv, NEW s \in Slots, NEW fail \in Fails
  PROVE  LET r == ResetAppliedSlot(s, Slot(s), 0, fail) IN
         /\ Keeps(Slot(s), r)
         /\ Keeps(Slot(s), Unloaded(r)) /\ Unloaded(r).v = NoView
<1> DEFINE r == ResetAppliedSlot(s, Slot(s), 0, fail)
<1>1. 0 \in 0 .. MaxLives  BY PresentationAssumption
<1>2. Keeps(Slot(s), r)
  BY <1>1, SlotFacts, ResetEffect
<1>3. SlotOK(r)
  BY <1>2, SlotFacts, KeepsIsOK
<1>4. Keeps(r, Unloaded(r)) /\ Unloaded(r).v = NoView
  BY <1>3, UnloadedEffect
<1> HIDE DEF r
<1>5. Keeps(Slot(s), Unloaded(r))
  BY <1>2, <1>4, KeepsAgain
<1> QED  BY <1>2, <1>4, <1>5 DEF r

LEMMA UnloadKeeps ==
  ASSUME IndInv, NEW fail \in Fails, Unload(fail)
  PROVE  IndInv'
<1> DEFINE f == [s \in Slots |-> Unloaded(ResetAppliedSlot(s, Slot(s), 0, fail))]
<1>1. /\ client' = FALSE /\ queue' = Outdated
      /\ view' = [s \in Slots |-> f[s].v] /\ ctl' = [s \in Slots |-> f[s].c]
      /\ UNCHANGED << field, who, lives, map, snap >>
  BY DEF Unload, AllBecome, engineVars
<1>2. \A s \in Slots : Keeps(Slot(s), f[s]) /\ f[s].v = NoView
  BY SlotReset
<1> HIDE DEF f
<1>3. AllKept
  BY <1>1, <1>2, AllBecomeKept
<1>4. QueueOK' /\ UnloadedIsBlank'
  BY <1>1, <1>2, OutdatedQueue DEF UnloadedIsBlank, IndInv
<1>5. queue' \in Seq(QueuedWrite) /\ Len(queue') <= MaxQueue
  BY <1>1, OutdatedEffect DEF IndInv, TypeOK
<1> QED  BY <1>1, <1>3, <1>4, <1>5, ProviderKeeps DEF IndInv, TypeOK

LEMMA OnMapEndKeeps ==
  ASSUME IndInv, NEW fail \in Fails, OnMapEnd(fail)
  PROVE  IndInv'
<1> DEFINE f == [s \in Slots |-> ResetAppliedSlot(s, Slot(s), 0, fail)]
<1>1. /\ map' = FALSE /\ snap' = [s \in Slots |-> NoSnap]
      /\ queue' = IF client THEN Outdated ELSE queue
      /\ IF client THEN view' = [s \in Slots |-> f[s].v] /\ ctl' = [s \in Slots |-> f[s].c]
                   ELSE UNCHANGED << view, ctl >>
      /\ UNCHANGED << field, who, lives, client >>
  BY DEF OnMapEnd, AllBecome
<1>2. \A s \in Slots : Keeps(Slot(s), f[s])
  BY SlotReset
<1> HIDE DEF f
<1>3. AllKept
  BY <1>1, <1>2, AllBecomeKept, NothingKept
<1>4. QueueOK'
  <2>1. CASE client  BY <1>1, <2>1, OutdatedQueue DEF IndInv
  <2>2. CASE ~client
    BY <1>1, <2>2, SameQueue DEF IndInv, TypeOK
  <2> QED  BY <2>1, <2>2
<1>5. UnloadedIsBlank'
  BY <1>1 DEF IndInv, UnloadedIsBlank
<1>6. queue' \in Seq(QueuedWrite) /\ Len(queue') <= MaxQueue
  BY <1>1, OutdatedEffect DEF IndInv, TypeOK
<1> QED  BY <1>1, <1>3, <1>4, <1>5, <1>6, ProviderKeeps DEF IndInv, TypeOK

LEMMA OnClientDisconnectKeeps ==
  ASSUME IndInv, NEW s \in Slots, NEW fail \in Fails, OnClientDisconnect(s, fail)
  PROVE  IndInv'
<1>1. /\ who' = [who EXCEPT ![s] = 0] /\ snap' = [snap EXCEPT ![s] = NoSnap]
      /\ IF client THEN Becomes(s, ResetAppliedSlot(s, Slot(s), 0, fail))
                   ELSE UNCHANGED << view, ctl >>
      /\ UNCHANGED << field, lives, map, client, queue >>
  BY DEF OnClientDisconnect
<1>2. AllKept
  BY <1>1, SlotReset, BecomesKept, NothingKept
<1>3. /\ snap' \in [Slots -> Snap \cup {NoSnap}] /\ who' \in [Slots -> 0 .. MaxLives]
      /\ \A t \in Slots : \/ who'[t] = who[t] /\ snap'[t] = snap[t]
                          \/ who'[t] = 0 /\ snap'[t] = NoSnap
  BY <1>1, PresentationAssumption DEF IndInv, TypeOK
<1>4. QueueOK'
  BY <1>1, <1>3, SameQueue DEF IndInv, TypeOK
<1>5. UnloadedIsBlank'
  BY <1>1 DEF IndInv, UnloadedIsBlank
<1> QED  BY <1>1, <1>2, <1>3, <1>4, <1>5, ProviderKeeps DEF IndInv, TypeOK

-------------------------------------------------------------------------------
(***************************************************************************)
(* The steps of the engine and of the native plugin.                       *)
(***************************************************************************)
LEMMA OnMapStartKeeps ==
  ASSUME IndInv, OnMapStart
  PROVE  IndInv'
<1>1. /\ map' = TRUE /\ \A s \in Slots : ctl[s] = NoController
      /\ queue' = IF client THEN Outdated ELSE queue
      /\ view' = [s \in Slots |-> NoView]
      /\ UNCHANGED << field, who, lives, snap, ctl, client >>
  BY DEF OnMapStart, Present
<1>2. NoView \in View /\ NoView.clan = NoClan
  BY PresentationAssumption DEF NoView, View, Value
<1>3. queue' \in Seq(QueuedWrite) /\ Len(queue') <= MaxQueue
  BY <1>1, OutdatedEffect DEF IndInv, TypeOK
<1>4. TypeOK'
  BY <1>1, <1>2, <1>3 DEF IndInv, TypeOK
<1>5. SlotsOK'
  <2> SUFFICES ASSUME NEW s \in Slots
               PROVE  SlotOK(Slot(s))'
    BY DEF SlotsOK
  <2>1. Slot(s)' = [v |-> NoView, c |-> NoController]
    BY <1>1 DEF Slot
  <2> QED  BY <1>2, <2>1 DEF SlotOK, SlotType, SlotRec, KeepsOwn
<1>6. QueueOK'
  <2>1. CASE client  BY <1>1, <2>1, OutdatedQueue DEF IndInv
  <2>2. CASE ~client
    BY <1>1, <2>2, SameQueue DEF IndInv, TypeOK
  <2> QED  BY <2>1, <2>2
<1> QED
  BY <1>1, <1>2, <1>4, <1>5, <1>6
  DEF IndInv, WhoOK, Managed, NoStateInAdvance, UnloadedIsBlank, Present

LEMMA SetFieldKeeps ==
  ASSUME IndInv, NEW s \in Slots, NEW value \in Values, SetField(s, value)
  PROVE  IndInv'
<1> DEFINE w == [slot |-> s, inc |-> snap[s].inc, value |-> value, current |-> TRUE]
<1>1. /\ client /\ field # "clan" /\ Managed(s) /\ Len(queue) < MaxQueue
      /\ snap' = [snap EXCEPT ![s].wanted = value]
      /\ queue' = Append(queue, w)
      /\ UNCHANGED << field, who, lives, map, ctl, client, view >>
  BY DEF SetField
<1>2. value \in Value  BY DEF Value
<1>3. snap[s] \in Snap /\ snap[s] # NoSnap
  BY <1>1 DEF IndInv, TypeOK, Managed
<1>4. [snap[s] EXCEPT !.wanted = value] \in Snap /\ [snap[s] EXCEPT !.wanted = value].inc = snap[s].inc
  BY <1>2, <1>3 DEF Snap
<1>5. /\ snap' \in [Slots -> Snap \cup {NoSnap}]
      /\ snap'[s].inc = snap[s].inc /\ snap'[s] # NoSnap
      /\ \A t \in Slots : t # s => snap'[t] = snap[t]
  BY <1>1, <1>4, PresentationAssumption DEF IndInv, TypeOK
<1>6. QueueOK'
  BY <1>1, <1>2, AppendQueue DEF IndInv
<1>7. w \in QueuedWrite
  BY <1>2, <1>3 DEF QueuedWrite, Snap
<1> HIDE DEF w
<1>8. queue' \in Seq(QueuedWrite) /\ Len(queue') <= MaxQueue
  <2>1. queue \in Seq(QueuedWrite) /\ Len(queue) \in Nat
    BY QueueElements DEF IndInv, TypeOK
  <2> QED  BY <1>1, <1>7, <2>1, AppendProperties, PresentationAssumption
<1>9. AllKept
  BY <1>1, NothingKept
<1>10. WhoOK'
  BY <1>1, <1>3, <1>5 DEF IndInv, WhoOK, Managed
<1>11. TypeOK'
  BY <1>1, <1>5, <1>8 DEF IndInv, TypeOK
<1>12. SlotsOK' /\ NoStateInAdvance'
  BY <1>1, <1>9, KeptSlots, KeptInAdvance
<1> QED  BY <1>1, <1>6, <1>10, <1>11, <1>12 DEF IndInv, UnloadedIsBlank

LEMMA ConnectKeeps ==
  ASSUME IndInv, NEW s \in Slots, NEW adopted \in BOOLEAN, NEW value \in Value,
         Connect(s, adopted, value)
  PROVE  IndInv'
<1> DEFINE given == IF adopted THEN [inc |-> lives + 1, wanted |-> value] ELSE NoSnap
<1>1. /\ map /\ who[s] = 0 /\ lives < MaxLives /\ lives' = lives + 1
      /\ who' = [who EXCEPT ![s] = lives + 1]
      /\ snap' = [snap EXCEPT ![s] = given]
      /\ UNCHANGED << field, map, ctl, client, view, queue >>
  BY DEF Connect
<1>2. lives \in Nat /\ lives + 1 \in Lives
  BY <1>1, PresentationAssumption DEF IndInv, TypeOK, Lives
<1>3. given = NoSnap \/ (given \in Snap /\ given.inc = lives + 1)
  BY <1>2 DEF Snap
<1> HIDE DEF given
<1>4. /\ snap' \in [Slots -> Snap \cup {NoSnap}] /\ snap'[s] = given
      /\ who' \in [Slots -> 0 .. MaxLives] /\ who'[s] = lives + 1
      /\ \A t \in Slots : t # s => snap'[t] = snap[t] /\ who'[t] = who[t]
  BY <1>1, <1>2, <1>3 DEF IndInv, TypeOK, Lives
<1>5. TypeOK'
  BY <1>1, <1>2, <1>4 DEF IndInv, TypeOK, Lives
<1>6. WhoOK'
  <2> SUFFICES ASSUME NEW t \in Slots
               PROVE  /\ who'[t] <= lives'
                      /\ snap'[t] # NoSnap => who'[t] # 0 /\ snap'[t].inc <= lives'
    BY DEF WhoOK, Managed
  <2>1. CASE t = s  BY <1>1, <1>2, <1>3, <1>4, <2>1
  <2>2. CASE t # s
    <3>1. who[t] <= lives /\ who[t] \in Nat
          /\ (snap[t] # NoSnap => who[t] # 0 /\ snap[t].inc <= lives /\ snap[t].inc \in Nat)
      BY DEF IndInv, WhoOK, Managed, TypeOK, Snap, Lives
    <3> QED  BY <1>1, <1>2, <1>4, <2>2, <3>1
  <2> QED  BY <2>1, <2>2
<1>7. \A t \in Slots : SlotOK(Slot(t)) /\ Slot(t)' = Slot(t)
                       /\ Slot(t).v = view[t] /\ Slot(t).c = ctl[t]
  BY <1>1 DEF IndInv, SlotsOK, Slot
<1>8. \A t \in Slots : view[t].clan # NoClan =>
        view[t].clan.life \in Nat /\ view[t].clan.life <= lives
  <2> SUFFICES ASSUME NEW t \in Slots, view[t].clan # NoClan
               PROVE  view[t].clan.life \in Nat /\ view[t].clan.life <= lives
    OBVIOUS
  <2>1. SlotType([v |-> view[t], c |-> ctl[t]])
    BY DEF IndInv, SlotsOK, SlotOK, Slot
  <2>2. view[t].clan \in ClanState
    BY DEF IndInv, TypeOK, View
  <2>3. view[t].clan.life \in Lives
    BY <2>2 DEF ClanState
  <2> QED  BY <2>1, <2>3 DEF SlotType, Lives
<1>9. \A t \in Slots : ctl[t] # NoController => ctl[t].life \in Nat /\ ctl[t].life <= lives
  BY <1>7 DEF IndInv, TypeOK, Controller, Lives, SlotOK, SlotType
<1>10. SlotsOK'
  <2> SUFFICES ASSUME NEW t \in Slots
               PROVE  SlotOK(Slot(t))'
    BY DEF SlotsOK
  <2>1. /\ view[t].clan # NoClan => view[t].clan.life <= lives'
        /\ ctl[t] # NoController => ctl[t].life <= lives'
    BY <1>1, <1>2, <1>8, <1>9
  <2>2. field' = field
    BY <1>1
  <2> QED  BY <1>7, <2>1, <2>2 DEF SlotOK, SlotType, KeepsOwn
<1>11. NoStateInAdvance'
  BY <1>1, <1>2, <1>4, <1>8 DEF IndInv, NoStateInAdvance, Present
<1>12. QueueOK'
  BY <1>1, <1>2, <1>3, <1>4, SameQueue DEF IndInv
<1> QED  BY <1>1, <1>5, <1>6, <1>10, <1>11, <1>12 DEF IndInv, UnloadedIsBlank

\* The engine touches the controller of one slot.
LEMMA EngineKeeps ==
  ASSUME IndInv, NEW s \in Slots, NEW c \in Controller \cup {NoController},
         ctl' = [ctl EXCEPT ![s] = c],
         UNCHANGED << field, engineVars, client, view, queue >>,
         SlotOK([v |-> view[s], c |-> c]),
         map /\ c = NoController /\ view[s].clan # NoClan => view[s].clan.life # who[s]
  PROVE  IndInv'
<1>1. UNCHANGED << field, who, lives, map, snap, client, view, queue >>
  BY DEF engineVars
<1>2. /\ ctl' \in [Slots -> Controller \cup {NoController}] /\ ctl'[s] = c
      /\ \A t \in Slots : t # s => ctl'[t] = ctl[t]
  BY DEF IndInv, TypeOK
<1>3. TypeOK'
  BY <1>1, <1>2 DEF IndInv, TypeOK
<1>4. SlotsOK'
  <2> SUFFICES ASSUME NEW t \in Slots
               PROVE  SlotOK(Slot(t))'
    BY DEF SlotsOK
  <2>1. CASE t = s
    <3>1. Slot(t)' = [v |-> view[s], c |-> c]
      BY <1>1, <1>2, <2>1 DEF Slot
    <3> QED  BY <1>1, <3>1 DEF SlotOK, SlotType, KeepsOwn
  <2>2. CASE t # s
    <3>1. Slot(t)' = Slot(t) /\ SlotOK(Slot(t))
      BY <1>1, <1>2, <2>2 DEF Slot, IndInv, SlotsOK
    <3> QED  BY <1>1, <3>1 DEF SlotOK, SlotType, KeepsOwn
  <2> QED  BY <2>1, <2>2
<1>5. NoStateInAdvance'
  BY <1>1, <1>2 DEF IndInv, NoStateInAdvance, Present
<1>6. WhoOK' /\ UnloadedIsBlank'
  BY <1>1 DEF IndInv, WhoOK, Managed, UnloadedIsBlank
<1>7. QueueOK'
  BY <1>1 DEF IndInv, QueueOK, Managed
<1> QED  BY <1>3, <1>4, <1>5, <1>6, <1>7 DEF IndInv

LEMMA CreateControllerKeeps ==
  ASSUME IndInv, NEW s \in Slots, NEW value \in Values, CreateController(s, value)
  PROVE  IndInv'
<1> DEFINE c == [life |-> who[s], own |-> value, shown |-> value,
                 published |-> value, forgotten |-> FALSE]
<1>1. /\ map /\ who[s] # 0 /\ ~Present(s) /\ ctl' = [ctl EXCEPT ![s] = c]
      /\ UNCHANGED << field, engineVars, client, view, queue >>
  BY DEF CreateController
<1>2. who[s] \in Lives /\ who[s] <= lives /\ value \in Value
  BY <1>1 DEF IndInv, TypeOK, WhoOK, Lives, Value
<1>3. c \in Controller /\ c.life = who[s] /\ c.own = value /\ c.shown = value
  BY <1>2 DEF Controller
<1> HIDE DEF c
<1>4. c # NoController
  BY <1>3, PresentationAssumption
<1>5. view[s].clan # NoClan => view[s].clan.life # who[s]
  BY <1>1 DEF IndInv, NoStateInAdvance
<1>6. SlotType(Slot(s)) /\ Slot(s).v = view[s]
  BY DEF IndInv, SlotsOK, SlotOK, Slot
<1> DEFINE r == [v |-> view[s], c |-> c]
<1>7. r.v = view[s] /\ r.c = c /\ r \in SlotRec
  BY <1>3, <1>6 DEF SlotType, SlotRec
<1> HIDE DEF r
<1>8. SlotOK(r)
  BY <1>2, <1>3, <1>5, <1>6, <1>7 DEF SlotOK, SlotType, KeepsOwn
<1> QED  BY <1>1, <1>3, <1>4, <1>8, EngineKeeps DEF r

LEMMA RemoveControllerKeeps ==
  ASSUME IndInv, NEW s \in Slots, RemoveController(s)
  PROVE  IndInv'
<1>1. /\ who[s] = 0 \/ ~map
      /\ ctl' = [ctl EXCEPT ![s] = NoController]
      /\ UNCHANGED << field, engineVars, client, view, queue >>
  BY DEF RemoveController
<1>2. SlotType(Slot(s)) /\ Slot(s).v = view[s]
  BY DEF IndInv, SlotsOK, SlotOK, Slot
<1> DEFINE r == [v |-> view[s], c |-> NoController]
<1>3. r.v = view[s] /\ r.c = NoController /\ r \in SlotRec
  BY <1>2 DEF SlotType, SlotRec
<1> HIDE DEF r
<1>4. SlotOK(r)
  BY <1>2, <1>3 DEF SlotOK, SlotType, KeepsOwn
<1>5. map /\ view[s].clan # NoClan => view[s].clan.life # who[s]
  <2>1. view[s].clan # NoClan => view[s].clan.life \in Lives
    BY DEF IndInv, TypeOK, View, ClanState
  <2> QED  BY <1>1, <2>1 DEF Lives
<1> QED  BY <1>1, <1>4, <1>5, EngineKeeps DEF r

LEMMA EngineWritesKeeps ==
  ASSUME IndInv, NEW s \in Slots, NEW value \in Values, EngineWrites(s, value)
  PROVE  IndInv'
<1> DEFINE c == Put(ctl[s], value, "no")
<1>1. /\ Present(s) /\ field # "clan" /\ ctl' = [ctl EXCEPT ![s] = c]
      /\ UNCHANGED << field, engineVars, client, view, queue >>
  BY DEF EngineWrites, IndInv, TypeOK
<1>2. ctl[s] \in Controller /\ value \in Value /\ "no" \in Fails
  BY <1>1 DEF IndInv, TypeOK, Present, Value, Fails
<1>3. c \in Controller /\ c.life = ctl[s].life
  BY <1>2, PutEffect
<1> HIDE DEF c
<1>4. c # NoController
  BY <1>3, PresentationAssumption
<1>5. SlotType(Slot(s)) /\ Slot(s).v = view[s] /\ Slot(s).c = ctl[s]
  BY DEF IndInv, SlotsOK, SlotOK, Slot
<1> DEFINE r == [v |-> view[s], c |-> c]
<1>6. r.v = view[s] /\ r.c = c /\ r \in SlotRec
  BY <1>3, <1>5 DEF SlotType, SlotRec
<1> HIDE DEF r
<1>7. SlotOK(r)
  BY <1>1, <1>3, <1>5, <1>6 DEF SlotOK, SlotType, Present
<1> QED  BY <1>1, <1>3, <1>4, <1>7, EngineKeeps DEF r

LEMMA ReleaseSlotKeeps ==
  ASSUME IndInv, NEW s \in Slots, ReleaseSlot(s)
  PROVE  IndInv'
<1>1. /\ snap' = [snap EXCEPT ![s] = NoSnap]
      /\ UNCHANGED << field, who, lives, map, ctl, client, view, queue >>
  BY DEF ReleaseSlot
<1>2. /\ snap' \in [Slots -> Snap \cup {NoSnap}]
      /\ \A t \in Slots : snap'[t] \in {snap[t], NoSnap}
  BY <1>1 DEF IndInv, TypeOK
<1>3. AllKept
  BY <1>1, NothingKept
<1>4. QueueOK'
  BY <1>1, <1>2, SameQueue DEF IndInv, TypeOK
<1>5. UnloadedIsBlank'
  BY <1>1 DEF IndInv, UnloadedIsBlank
<1> QED  BY <1>1, <1>2, <1>3, <1>4, <1>5, ProviderKeeps DEF IndInv, TypeOK

-------------------------------------------------------------------------------
(***************************************************************************)
(* The theorems.                                                           *)
(***************************************************************************)
LEMMA InitInv ==
  ASSUME Init
  PROVE  IndInv
<1>1. NoView \in View /\ NoView.clan = NoClan
  BY PresentationAssumption DEF NoView, View, Value
<1>2. << >> \in Seq(QueuedWrite) /\ Len(<< >>) = 0
  BY EmptySeq
<1>3. TypeOK
  <2>1. queue \in Seq(QueuedWrite) /\ Len(queue) <= MaxQueue
    BY <1>2, PresentationAssumption DEF Init
  <2>2. who \in [Slots -> 0 .. MaxLives] /\ lives \in 0 .. MaxLives
    BY PresentationAssumption DEF Init
  <2>3. view \in [Slots -> View] /\ ctl \in [Slots -> Controller \cup {NoController}]
        /\ snap \in [Slots -> Snap \cup {NoSnap}]
    BY <1>1 DEF Init
  <2>4. field \in Fields /\ map \in BOOLEAN /\ client \in BOOLEAN
    BY DEF Init
  <2> QED  BY <2>1, <2>2, <2>3, <2>4 DEF TypeOK
<1>4. SlotsOK
  BY <1>1 DEF Init, SlotsOK, SlotOK, SlotType, SlotRec, KeepsOwn, Slot
<1>5. WhoOK /\ NoStateInAdvance /\ UnloadedIsBlank
  BY <1>1 DEF Init, WhoOK, NoStateInAdvance, UnloadedIsBlank, Managed
<1>6. QueueOK
  BY <1>2 DEF Init, QueueOK
<1> QED  BY <1>3, <1>4, <1>5, <1>6 DEF IndInv

LEMMA NextInv ==
  ASSUME IndInv, Next
  PROVE  IndInv'
<1>1. CASE ProviderStep
  <2> SUFFICES ASSUME NEW failRestore \in Fails, NEW fail \in Fails,
                 \/ ApplyManagedSlots(failRestore, fail)
                 \/ \E s \in Slots : ApplyManagedSlot(s, failRestore, fail)
                 \/ RunQueuedWrite(failRestore, fail)
                 \/ \E outcome \in {"loaded", "early", "late"} : Load(outcome, failRestore, fail)
                 \/ Unload(fail)
                 \/ OnMapEnd(fail)
                 \/ \E s \in Slots : OnClientDisconnect(s, fail)
               PROVE  IndInv'
    BY <1>1 DEF ProviderStep
  <2> QED
    BY ApplyManagedSlotsKeeps, ApplyManagedSlotKeeps, RunQueuedWriteKeeps, LoadKeeps,
       UnloadKeeps, OnMapEndKeeps, OnClientDisconnectKeeps
<1>2. CASE EngineStep
  BY <1>2, OnMapStartKeeps, SetFieldKeeps, CreateControllerKeeps, EngineWritesKeeps,
     ConnectKeeps, RemoveControllerKeeps, ReleaseSlotKeeps DEF EngineStep
<1> QED  BY <1>1, <1>2 DEF Next

LEMMA StutterInv ==
  ASSUME IndInv, UNCHANGED vars
  PROVE  IndInv'
BY DEF vars, engineVars, IndInv, TypeOK, SlotsOK, SlotOK, SlotType, KeepsOwn, Slot, WhoOK,
       NoStateInAdvance, UnloadedIsBlank, QueueOK, Managed, Present

\* The inductive invariant holds in every behaviour of the provider.
THEOREM InvHolds == Spec => []IndInv
<1>1. IndInv /\ [Next]_vars => IndInv'
  BY NextInv, StutterInv
<1> QED  BY <1>1, InitInv, PTL DEF Spec

\* The provider's caches, the controllers and the queue keep their types.
THEOREM TypeCorrect == Spec => []TypeOK
<1>1. IndInv => TypeOK  BY DEF IndInv
<1> QED  BY <1>1, InvHolds, PTL

\* The presenter never takes a clan it wrote for the controller's own: the
\* saved one is the controller's, and without a saved one it is shown.
THEOREM ClanAlwaysGivenBack == Spec => []ClanIsGivenBack
<1>1. IndInv => ClanIsGivenBack
  BY DEF IndInv, SlotsOK, SlotOK, KeepsOwn, Slot, ClanIsGivenBack, Present
<1> QED  BY <1>1, InvHolds, PTL

\* The step that NoStaleWriteLast speaks of can only be a queued write's: no
\* other step takes the first write off the queue.
LastWord(s) ==
  /\ queue # << >> /\ queue' = Tail(queue)
  /\ Present(s) /\ ctl[s].shown # ctl'[s].shown
  => \/ ctl'[s].shown = snap[s].wanted
     \/ \E i \in DOMAIN queue' : queue'[i].slot = s /\ queue'[i].inc = snap[s].inc

LEMMA QueueTaken ==
  ASSUME IndInv, Next, queue # << >>, queue' = Tail(queue)
  PROVE  \E failRestore, fail \in Fails : RunQueuedWrite(failRestore, fail)
<1>1. queue \in Seq(QueuedWrite)
  BY DEF IndInv, TypeOK
<1>2. Len(queue) \in Nat \ {0} /\ Len(queue') = Len(queue) - 1
  BY <1>1, HeadTailProperties, EmptySeq
<1>3. queue' # queue /\ queue' # Outdated
  <2>1. Len(Outdated) = Len(queue)
    BY OutdatedEffect DEF IndInv
  <2>2. \A n \in Nat \ {0} : n - 1 # n
    OBVIOUS
  <2>3. Len(queue') # Len(queue)
    BY <1>2, <2>2, Zenon
  <2> QED  BY <2>1, <2>3
<1>4. ASSUME NEW s \in Slots, NEW value \in Values, SetField(s, value)
      PROVE  FALSE
  <2>1. snap[s] \in Snap  BY <1>4 DEF SetField, Managed, IndInv, TypeOK
  <2> DEFINE w == [slot |-> s, inc |-> snap[s].inc, value |-> value, current |-> TRUE]
  <2>2. w \in QueuedWrite  BY <2>1 DEF QueuedWrite, Snap, Value
  <2>3. queue' = Append(queue, w)  BY <1>4 DEF SetField
  <2> HIDE DEF w
  <2>4. Len(queue') = Len(queue) + 1
    BY <1>1, <2>2, <2>3, AppendProperties
  <2> QED  BY <1>2, <2>4
<1>5. ~EngineStep
  BY <1>3, <1>4 DEF EngineStep, OnMapStart, CreateController, EngineWrites, Connect,
                    RemoveController, ReleaseSlot
<1>6. ProviderStep
  BY <1>5 DEF Next
<1>7. ASSUME NEW failRestore \in Fails, NEW fail \in Fails
      PROVE  /\ ~ApplyManagedSlots(failRestore, fail) /\ ~Unload(fail) /\ ~OnMapEnd(fail)
             /\ \A s \in Slots : /\ ~ApplyManagedSlot(s, failRestore, fail)
                                 /\ ~OnClientDisconnect(s, fail)
             /\ \A outcome \in {"loaded", "early", "late"} : ~Load(outcome, failRestore, fail)
  BY <1>3 DEF ApplyManagedSlots, Unload, OnMapEnd, ApplyManagedSlot, OnClientDisconnect, Load
<1> QED  BY <1>6, <1>7 DEF ProviderStep

LEMMA RunHasNoLastWord ==
  ASSUME IndInv, NEW failRestore \in Fails, NEW fail \in Fails,
         RunQueuedWrite(failRestore, fail), NEW s \in Slots
  PROVE  LastWord(s)
<1> DEFINE w == Head(queue)
           q == AfterWrite(w, failRestore, fail)
<1> SUFFICES ASSUME queue # << >>, queue' = Tail(queue), ctl[s] # NoController,
                    ctl[s].shown # ctl'[s].shown
             PROVE  \/ ctl'[s].shown = snap[s].wanted
                    \/ \E i \in DOMAIN queue' : queue'[i].slot = s /\ queue'[i].inc = snap[s].inc
  BY DEF LastWord, Present
<1>1. queue \in Seq(QueuedWrite) /\ field # "clan"
  BY DEF IndInv, TypeOK, QueueOK
<1>2. /\ Len(queue) \in Nat \ {0} /\ Len(queue') = Len(queue) - 1
      /\ w = queue[1] /\ queue' \in Seq(QueuedWrite)
      /\ \A i \in 1 .. Len(queue') : queue'[i] = queue[i + 1]
  BY <1>1, HeadTailProperties, EmptySeq
<1>3. WriteIsValid(w) /\ Becomes(w.slot, q)
  BY DEF RunQueuedWrite, AfterWrite, ValueToWrite
<1>4. /\ w.current /\ Managed(w.slot) /\ snap[w.slot].inc = w.inc
  BY <1>3 DEF WriteIsValid
<1>5. /\ w.slot \in Slots
      /\ ctl[w.slot] # NoController => q.c.shown \in {ctl[w.slot].shown, ValueToWrite(w)}
  BY <1>1, <1>4, QueuedWriteEffect
<1> HIDE DEF q
<1>6. s = w.slot /\ ctl'[s] = q.c
  BY <1>3, <1>5 DEF Becomes, IndInv, TypeOK
<1>7. ctl'[s].shown = ValueToWrite(w)
  BY <1>5, <1>6
<1>8. \/ w.value = snap[w.slot].wanted
      \/ \E j \in 1 + 1 .. Len(queue) : queue[j].slot = w.slot /\ queue[j].inc = w.inc
  BY <1>2, <1>4 DEF IndInv, QueueOK
<1>9. CASE w.value = snap[w.slot].wanted
  BY <1>6, <1>7, <1>9 DEF ValueToWrite
<1>10. ASSUME NEW j \in 1 + 1 .. Len(queue), queue[j].slot = w.slot, queue[j].inc = w.inc
       PROVE  \E i \in DOMAIN queue' : queue'[i].slot = s /\ queue'[i].inc = snap[s].inc
  <2>1. j - 1 \in 1 .. Len(queue') /\ (j - 1) + 1 = j
    BY <1>2
  <2>2. DOMAIN queue' = 1 .. Len(queue')
    BY <1>2, LenProperties
  <2>3. queue'[j - 1] = queue[j]
    BY <1>2, <2>1
  <2> QED  BY <1>4, <1>6, <1>10, <2>1, <2>2, <2>3
<1> QED  BY <1>8, <1>9, <1>10

\* No queued write for an earlier bot, an older value or an earlier map has the
\* last word on a field.
THEOREM StaleWritesNeverLast == Spec => NoStaleWriteLast
<1>1. ASSUME IndInv, [Next]_vars, NEW s \in Slots
      PROVE  LastWord(s)
  <2>1. CASE UNCHANGED vars
    BY <2>1 DEF LastWord, vars
  <2>2. CASE Next
    <3>1. CASE queue # << >> /\ queue' = Tail(queue)
      BY <1>1, <2>2, <3>1, QueueTaken, RunHasNoLastWord
    <3>2. CASE ~(queue # << >> /\ queue' = Tail(queue))
      BY <3>2 DEF LastWord
    <3> QED  BY <3>1, <3>2
  <2> QED  BY <1>1, <2>1, <2>2
<1>2. IndInv /\ [Next]_vars =>
        [ \A s \in Slots :
            /\ queue # << >> /\ queue' = Tail(queue)
            /\ Present(s) /\ ctl[s].shown # ctl'[s].shown
            => \/ ctl'[s].shown = snap[s].wanted
               \/ \E i \in DOMAIN queue' : queue'[i].slot = s /\ queue'[i].inc = snap[s].inc ]_vars
  BY <1>1 DEF LastWord
<1> QED  BY <1>2, InvHolds, PTL DEF Spec, NoStaleWriteLast

================================================================================
