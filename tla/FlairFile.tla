------------------------------- MODULE FlairFile -------------------------------
(***************************************************************************)
(* What the flair generator promises of bot_info.json, without saying how: *)
(* the file is replaced as a whole, every save enters a bounded number of  *)
(* answers, each of them the coordinator's for its own entry, and an entry *)
(* that has a flair gets another one only in a run that may replace it.    *)
(***************************************************************************)
EXTENDS Naturals, FiniteSets

CONSTANTS Old,      \* the flairs of the file before the first run
          Answer,   \* the coordinator's answer for an entry with an account
          Batch     \* answers entered by one save, at most

VARIABLES file,
          replacing  \* the run may replace flairs

Init == file = Old /\ replacing \in BOOLEAN

Run == replacing' \in BOOLEAN /\ UNCHANGED file

Save(S) ==
  /\ \A k \in S : replacing \/ file[k] = 0
  /\ Cardinality(S) <= Batch
  /\ file' = [k \in DOMAIN Old |-> IF k \in S THEN Answer[k] ELSE file[k]]
  /\ UNCHANGED replacing

Next == Run \/ \E S \in SUBSET DOMAIN Answer : Save(S)

Spec == Init /\ [][Next]_<< file, replacing >>
================================================================================
