----------------------------- MODULE MCCorrections -----------------------------
(* Instances of Corrections for TLC. *)
EXTENDS Corrections, TLC

MCVerified == [coords |-> TRUE, inBounds |-> TRUE, accuracy |-> 5,
               distance |-> 10, reason |-> FALSE]
MCNoFix == [coords |-> FALSE, inBounds |-> FALSE, accuracy |-> NULL,
            distance |-> 0, reason |-> FALSE]
MCGoodFix == {MCVerified}
MCFixes == {MCVerified, MCNoFix}

MCNoBreak == [type |-> "none", threshold |-> 0, deduction |-> 0]
MCLunch == [type |-> "fixed_after_threshold", threshold |-> 2, deduction |-> 1]
MCShort == [type |-> "fixed_after_threshold", threshold |-> 1, deduction |-> 1]
MCOneRule == {MCLunch}
MCRules == {MCNoBreak, MCShort}

MCSymmetry ==
  Permutations(Requests) \cup Permutations(Keys) \cup Permutations(Proposals)
================================================================================
