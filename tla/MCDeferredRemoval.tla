--------------------------- MODULE MCDeferredRemoval ---------------------------
(***************************************************************************)
(* Instance of DeferredRemoval for TLC: two names that fit the manager's   *)
(* field, and one that the engine can come to by making the first unique   *)
(* and of which the field holds just the first.                            *)
(***************************************************************************)
EXTENDS DeferredRemoval

CONSTANTS short, other, long

MCNames == {short, other, long}
MCCopyText == [n \in MCNames |-> IF n = long THEN short ELSE n]
================================================================================
