----------------------------- MODULE IdentityLease -----------------------------
(***************************************************************************)
(* What the identity pool promises, without saying how: every identity is  *)
(* held by one slot or by none, it is granted only while nobody holds it   *)
(* and to a slot that holds nothing, and it goes back only when its holder *)
(* gives it up.                                                            *)
(***************************************************************************)
CONSTANTS Entries, Slots, NoSlot

VARIABLE holder    \* slot that holds an identity

Holding == {holder[e] : e \in Entries} \ {NoSlot}

Init == holder = [e \in Entries |-> NoSlot]

Grant(e, s) ==
  /\ holder[e] = NoSlot
  /\ s \notin Holding
  /\ holder' = [holder EXCEPT ![e] = s]

\* The slots of S give up what they hold.
Return(S) ==
  holder' = [e \in Entries |-> IF holder[e] \in S THEN NoSlot ELSE holder[e]]

Next ==
  \/ \E e \in Entries, s \in Slots : Grant(e, s)
  \/ \E S \in SUBSET Slots : Return(S)

Spec == Init /\ [][Next]_holder
===============================================================================
