------------------------------ MODULE MCAttendance ------------------------------
(* Instances of Attendance for TLC. *)
EXTENDS Attendance, TLC

MCVerified == [coords |-> TRUE, inBounds |-> TRUE, accuracy |-> 5,
               distance |-> 10, reason |-> FALSE]
MCWeak == [MCVerified EXCEPT !.accuracy = 90, !.distance = 500]

\* A latitude that is NaN, and an accuracy that is negative.
MCNowhere == [MCVerified EXCEPT !.distance = NaN]
MCNegative == [MCVerified EXCEPT !.accuracy = -1]

MCGoodFix == {MCVerified}
MCOddFixes == {MCWeak, MCNowhere, MCNegative}

MCNoBreak == [type |-> "none", threshold |-> 0, deduction |-> 0]
MCLunch == [type |-> "fixed_after_threshold", threshold |-> 2, deduction |-> 1]
MCOneRule == {MCLunch}
MCRuleNone == {MCNoBreak}

MCSymmetry == Permutations(Requests) \cup Permutations(Keys) \cup Permutations(Trainees)
================================================================================
