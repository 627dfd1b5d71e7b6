----------------------------- MODULE MCPopulation -----------------------------
(* Population on small constants; the slots are interchangeable. *)
EXTENDS Population, TLC

SlotSymmetry == Permutations(Slots)
===============================================================================
