---------------------------- MODULE MCIdentityPool ----------------------------
(***************************************************************************)
(* IdentityPool on small constants: two pool entries, one SteamID that is  *)
(* in no entry, and an incarnation counter that wraps during the run.      *)
(***************************************************************************)
EXTENDS IdentityPool, TLC

CONSTANTS e1, e2, i1, i2, i3, n1, n2

MCSidOf == (e1 :> i1) @@ (e2 :> i2)
MCNameOf == (e1 :> n1) @@ (e2 :> n2)
===============================================================================
