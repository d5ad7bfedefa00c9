------------------------------- MODULE MCRules -------------------------------
(* Boundary values of the pure rules, and contents of the tables, for TLC.  *)
EXTENDS RulesCheck

CONSTANTS t1, t2, s1, s2

MCAccuracies == {-1, 0, 50, 51, NaN}
MCDistances == {0, 100, 101, NaN}

\* Today is day 2; the journals of day 1 were due.
MCNow == 8

Row(t, kind, site, status, end, weekdays) ==
  [id |-> <<t, kind>>, trainee |-> t, site |-> site, required |-> 2, start |-> 1,
   end |-> end, weekdays |-> weekdays, status |-> status]

\* An active assignment that covers today, or not, and expects it, or not.
Actives(t) ==
  {{}} \cup {{Row(t, "active", s1, "active", end, weekdays)} :
               end \in {NULL, 1}, weekdays \in {{}, {Weekday(2)}, {Weekday(1)}}}

\* An earlier one, at the same site or at another.
Earlier(t) == {{}} \cup {{Row(t, "earlier", site, "suspended", NULL, {Weekday(2)})} : site \in {s1, s2}}

Day(t, a, date, status, credited, flags, closed) ==
  [id |-> <<t, date>>, trainee |-> t, assignment |-> <<t, a>>, date |-> date,
   status |-> status, credited |-> credited, flags |-> flags, closed |-> closed]

\* Days as Attendance and Corrections leave them.
Days1(t, a) == {{}, {Day(t, a, 1, "valid", 1, {}, 5)}, {Day(t, a, 1, "corrected", 2, {}, 4)},
                {Day(t, a, 1, "open", NULL, {"low_accuracy"}, NULL)}}
Days2(t, a) == {{}, {Day(t, a, 2, "open", NULL, {}, NULL)},
                {Day(t, a, 2, "flagged", 1, {"outside_radius"}, 7)},
                {Day(t, a, 2, "corrected", NULL, {}, NULL)}}

\* A closed day with an effective time out has its journal.
Journals(S, status) ==
  {[session |-> s.id, trainee |-> s.trainee, status |-> status,
    submitted |-> IF status = "submitted" THEN s.closed ELSE NULL] :
     s \in {x \in S : x.closed # NULL}}

Asked(S, pending) ==
  {[id |-> <<s.id, "asked">>, session |-> s.id, trainee |-> s.trainee, status |-> pending,
    requested |-> s.date] : s \in {x \in S : x.date = 1 /\ pending # NULL}}

File(t, active, earlier, past, today, status, pending) ==
  [assignments |-> active \cup earlier, sessions |-> past \cup today,
   journals |-> Journals(past \cup today, status), corrections |-> Asked(past, pending)]

\* A session belongs to an assignment of the trainee.
Whole(file) == \A s \in file.sessions : \E a \in file.assignments : a.id = s.assignment

Files(t, statuses, pendings) ==
  {file \in UNION {UNION {{File(t, active, earlier, past, today, status, pending) :
       active \in Actives(t), earlier \in Earlier(t), past \in Days1(t, a), today \in Days2(t, b),
       status \in statuses, pending \in pendings} : b \in {"active", "earlier"}} :
         a \in {"active", "earlier"}} : Whole(file)}

\* One trainee of any kind, and another beside them.
Beside(t) ==
  {file \in Files(t, {"submitted"}, {"pending"}) :
     /\ \A a \in file.assignments : a.id = <<t, "active">> /\ a.end = NULL /\ a.weekdays = {Weekday(2)}
     /\ \A s \in file.sessions : s.status \in {"flagged", "valid"}}

MCContents ==
  {[trainees |-> {t1, t2}, assignments |-> x.assignments \cup y.assignments,
    sessions |-> x.sessions \cup y.sessions, journals |-> x.journals \cup y.journals,
    corrections |-> x.corrections \cup y.corrections, scopes |-> {"c"} \X scope] :
     x \in Files(t1, {"draft", "submitted", "reviewed"}, {NULL, "pending"}),
     y \in Beside(t2), scope \in {{}, {t1}, {t2}}}

MCActors == {[id |-> "c", role |-> "coordinator"], [id |-> "d", role |-> "admin"],
             [id |-> t1, role |-> "trainee"]}

NoFilter == [from |-> NULL, to |-> NULL, trainee |-> NULL, site |-> NULL, status |-> NULL]
MCFilters == {NoFilter, [NoFilter EXCEPT !.from = 2, !.site = s1],
              [NoFilter EXCEPT !.to = 1, !.trainee = t1], [NoFilter EXCEPT !.status = "corrected"]}
================================================================================
