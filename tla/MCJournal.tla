------------------------------- MODULE MCJournal -------------------------------
(* Instances of Journal for TLC. *)
EXTENDS Journal, TLC

MCSymmetry ==
  Permutations(Calls) \cup Permutations(Images) \cup Permutations(LongTexts)
================================================================================
