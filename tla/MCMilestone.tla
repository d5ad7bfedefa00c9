------------------------------ MODULE MCMilestone ------------------------------
(* Attendance from the second day of a trainee who forgot to time out. *)
EXTENDS MCAttendance

CONSTANTS r1, r2, t1, k1, k2

\* The trainee t1 timed in on two days, under r1 at instant 0 and under r2 at
\* instant 2, and has timed out of neither: a start that Spec reaches.
OpenDay(at) ==
  [trainee |-> t1, date |-> LocalDate(at), status |-> "open", origIn |-> at,
   origOut |-> NULL, effIn |-> at, effOut |-> NULL, credited |-> NULL, flags |-> {}]
TimeInRow(s, k, at) ==
  [session |-> s, trainee |-> t1, action |-> "time_in", key |-> k, at |-> at,
   location |-> "verified", encodable |-> TRUE]
Created(s, k, at) ==
  [code |-> "created", action |-> "time_in", trainee |-> t1, key |-> k,
   session |-> s, at |-> at]
At(x, y) == [r \in Requests |-> IF r = r1 THEN x ELSE IF r = r2 THEN y ELSE NULL]
TwoOpenDays ==
  /\ clock = 2
  /\ assignment \in [Trainees -> Assignment]
  /\ sessions = At(OpenDay(0), OpenDay(2))
  /\ evidence = At(TimeInRow(r1, k1, 0), TimeInRow(r2, k2, 2))
  /\ journals = {}
  /\ announced = {}
  /\ locked = {}
  /\ call = [r \in Requests |-> NULL]
  /\ reply = At(Created(r1, k1, 0), Created(r2, k2, 2))

MilestoneSpec == TwoOpenDays /\ [][Next]_vars

\* The calls and client actions that are still to come.
MCLaterSymmetry ==
  Permutations(Requests \ {r1, r2}) \cup Permutations(Keys \ {k1, k2})
================================================================================
