--------------------------- MODULE MCAvatarOverride ---------------------------
(* AvatarOverride on small constants; the SteamIDs are interchangeable. *)
EXTENDS AvatarOverride, TLC

CONSTANT Other   \* a key that is no bot's SteamID

\* Tables as the engine may hand them over: empty, or with rows that other code
\* put at index 0, with and without bytes.
MCTables ==
  {<< >>, << Row(Other, 0) >>, << Row(Other, 1) >>} \cup {<< Row(sid, 0) >> : sid \in Sids}
MCEmptyTable == {<< >>}

SidSymmetry == Permutations(Sids)
===============================================================================
