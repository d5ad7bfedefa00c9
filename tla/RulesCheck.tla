------------------------------ MODULE RulesCheck ------------------------------
(***************************************************************************)
(* The pure rules of AttendanceRules against definitions written another   *)
(* way, and the queries of Reads against each other, over every input up   *)
(* to a bound.  A state is one input.                                      *)
(***************************************************************************)
EXTENDS Reads

CONSTANTS
  MaxInstant,    \* bound on instants
  MaxMinutes,    \* bound on thresholds, deductions and required minutes
  Accuracies,    \* reported accuracies
  Distances,     \* distances to the site
  Contents,      \* contents of the tables
  Actors,        \* users: id and role
  Filters,       \* query parameters
  Now            \* when the queries are made

ASSUME InputAssumption ==
  /\ MaxInstant \in Nat /\ MaxMinutes \in Nat
  /\ Accuracies \subseteq Int \cup {NaN} /\ Distances \subseteq Nat \cup {NaN}

\* What the schema and the services keep of the tables: finitely many rows, ids
\* that are one row's, at most one active assignment of a trainee, a row names
\* the trainee of the row it refers to, and a day that does not count yet has no
\* minutes.  No set of trainees is NULL.
Kept(db) ==
  /\ IsFiniteSet(db.assignments) /\ IsFiniteSet(db.sessions)
  /\ \A T \in SUBSET db.trainees : T # NULL
  /\ db.scopes \subseteq {pair[1] : pair \in db.scopes} \X db.trainees
  /\ \A a \in db.assignments :
       a.trainee \in db.trainees /\ a.required \in Nat \ {0} /\ a.start \in Int
  /\ \A a, b \in db.assignments :
       (\/ a.id = b.id
        \/ a.trainee = b.trainee /\ a.status = "active" /\ b.status = "active") => a = b
  /\ \A s \in db.sessions :
       /\ s # NULL /\ s.credited \in Nat \cup {NULL}
       /\ s.status \notin CountedStatuses => s.credited = NULL
       /\ \A r \in db.sessions : r.id = s.id => r = s
       /\ \E a \in db.assignments : a.id = s.assignment /\ a.trainee = s.trainee
  /\ \A row \in db.journals \cup db.corrections :
       \E s \in db.sessions : s.id = row.session /\ s.trainee = row.trainee

ASSUME ContentsAssumption == \A db \in Contents : Kept(db)

VARIABLE input

Hours == [kind : {"hours"}, tin : 0 .. MaxInstant, tout : 0 .. MaxInstant,
          rule : [type : BreakTypes, threshold : 0 .. MaxMinutes,
                  deduction : 0 .. MaxMinutes]]
Places == [kind : {"place"},
           fix : [coords : BOOLEAN, inBounds : BOOLEAN,
                  accuracy : Accuracies \cup {NULL}, distance : Distances,
                  reason : BOOLEAN]]
Tables == [kind : {"tables"}, db : Contents]

Start == [kind |-> "none"]
Init == input = Start

Pick == input = Start /\ input' \in Hours \cup Places \cup Tables

\* A user queries the tables.
Query ==
  /\ input.kind = "tables"
  /\ \E actor \in Actors : input' = [kind |-> "query", db |-> input.db, actor |-> actor]

Next == Pick \/ Query

Spec == Init /\ [][Next]_input

-------------------------------------------------------------------------------
\* Hours by counting: the elapsed minutes are the whole minutes that fit
\* between the two instants; of these, a break that applies from its threshold
\* on takes its deduction, as far as there are minutes to take.
CreditedCountsMinutes ==
  input.kind = "hours" =>
    LET fit == {m \in 1 .. MaxInstant :
                  input.tin + m * TicksPerMinute <= input.tout}
        rule == input.rule
        taken == {m \in fit : /\ rule.type = "fixed_after_threshold"
                              /\ rule.threshold \in 1 .. Cardinality(fit)
                              /\ m <= rule.deduction}
    IN  CreditedMinutes(input.tin, input.tout, rule) = Cardinality(fit \ taken)

\* What a verdict is worth: a fix is free of flags exactly when it is a point,
\* accurate enough and not known to be farther than the radius; a fix too weak
\* to trust is never used against the trainee as outside; and only a fix without
\* a point asks for a reason (geofence.go:35-46).  A point is what no comparison
\* with the bounds rules out, and a coordinate that is NaN passes them all: its
\* fix, though it is nowhere, is verified without a flag when it claims to be
\* accurate, and is the only one without a distance that is.
VerdictFollowsTheFix ==
  input.kind = "place" =>
    LET fix == input.fix
        point == fix.coords /\ fix.inBounds
        known == fix.distance # NaN
        accurate == /\ fix.accuracy # NULL /\ fix.accuracy # NaN
                    /\ fix.accuracy >= 0 /\ fix.accuracy <= LowAccuracyM
        status == EvaluateLocation(fix)
    IN  /\ flagsFor(status) = {} <=>
             point /\ accurate /\ (known => fix.distance <= RadiusM)
        /\ "outside_radius" \in flagsFor(status) <=>
             point /\ accurate /\ known /\ fix.distance > RadiusM
        /\ "low_accuracy" \in flagsFor(status) <=> point /\ ~accurate
        /\ ReasonMissing(fix) <=> ~point /\ ~fix.reason

-------------------------------------------------------------------------------
(* The queries.                                                            *)

\* The tables as if these were all the trainees there are.
Only(db, trainees) ==
  [trainees |-> db.trainees \cap trainees,
   assignments |-> {a \in db.assignments : a.trainee \in trainees},
   sessions |-> {s \in db.sessions : s.trainee \in trainees},
   journals |-> {j \in db.journals : j.trainee \in trainees},
   corrections |-> {c \in db.corrections : c.trainee \in trainees},
   scopes |-> db.scopes]

Lists(db, scope, f) ==
  <<ListTrainees(db, scope, f), ListAssignments(db, scope, f), AttendanceList(db, scope, f),
    ListQueue(db, scope, f), ListStaff(db, scope, f), [n \in Names |-> Rows(db, n, scope, f)]>>

\* Every list, count, queue and report shows a staff member what it would show
\* an admin if the trainees they may access were all there are: nobody more (a
\* coordinator without scope sees nobody, the nil filter is the admin's), nobody
\* less, and no total betrays the others; and a single record is found by whom
\* the lists show it (middleware.go, ScopedTraineeIDs and CanAccessTrainee).
ScopeSeesExactly ==
  input.kind = "query" =>
    LET db == input.db
        actor == input.actor
        scope == ScopedTraineeIDs(db, actor)
        own == Only(db, {t \in db.trainees : CanAccessTrainee(db, actor, t)})
    IN  /\ Dashboard(db, scope, Now) = Dashboard(own, NULL, Now)
        /\ \A f \in Filters : Lists(db, scope, f) = Lists(own, NULL, f)
        /\ \A s \in db.sessions :
             Detail(db, actor, s.id) # {}
               <=> s \in own.sessions \/ s.trainee = actor.id

\* The progress of an assignment is the same to the trainee, in the lists of
\* trainees and of assignments, on the staff's dashboard and in the reports,
\* although each computes it its own way: full progress, the percentage and the
\* end of the required hours cannot be told differently to two people
\* (monitoring.go:141 "same definition as progress").
ProgressAgrees ==
  input.kind = "query" =>
    LET db == input.db
        nofilter == [from |-> NULL, to |-> NULL, trainee |-> NULL, site |-> NULL, status |-> NULL]
        done == {r \in ListTrainees(db, NULL, nofilter) :
                   r.progress # NULL /\ r.progress = 100 * r.of}
        metrics == Metrics(db, NULL, Now)
    IN  /\ metrics.CompletedHours = Cardinality(done)
        /\ \A t \in db.trainees :
             LET seen == TraineeDashboard(db, t, Now).assignment
                 row == TraineeRow(db, t)
                 report == {r \in completion(db, NULL, nofilter) :
                              r.key = <<t, row.site, row.of, "active">>}
             IN seen # NULL =>
                  /\ [assignment |-> seen.id, completed |-> seen.completed]
                       \in ListAssignments(db, NULL, nofilter)
                  /\ row.assignment = seen.id /\ row.progress \div row.of = seen.percent
                  /\ seen.percent = 100 <=> row \in done
                  /\ seen.remaining = 0 <=> row \in done
                  /\ \A r \in report : r.completed = seen.completed /\ r.percent = seen.percent
                       /\ (r.state = "hours_complete" <=> row \in done)

\* Each trainee who is present today, or whose assignment expects them, is in
\* exactly one of the counts Present Today and No Attendance, on whichever
\* assignment they timed in (monitoring.go, Dashboard).
EveryoneExpectedIsCounted ==
  input.kind = "query" =>
    LET db == input.db
        today == LocalDate(Now)
        scope == ScopedTraineeIDs(db, input.actor)
        metrics == Metrics(db, scope, Now)
    IN  metrics.PresentToday + metrics.NoAttendance =
          Cardinality({t \in db.trainees :
            /\ InScope(scope, t)
            /\ \/ todayAttendance(db, t, today) # NULL
               \/ \E a \in db.assignments : a.trainee = t /\ Expected(a, today)})

\* The action the trainee is offered is one the server would accept now, and
\* "view summary" is offered only when nothing of today is left to do
\* (dashboard.go, nextAction; service.go; journals/service.go).
NextActionIsAccepted ==
  input.kind = "query" =>
    \A t \in input.db.trainees :
      LET d == TraineeDashboard(input.db, t, Now)
          mayTimeIn == activeSite(input.db, t, LocalDate(Now)) # NULL /\ d.session = NULL
          mayTimeOut == d.session # NULL /\ d.session.status = "open"
          mayWrite == d.journal # NULL /\ d.journal.status \in {"draft", "needs_revision"}
      IN  /\ d.next = "time_in" => mayTimeIn
          /\ d.next = "time_out" => mayTimeOut
          /\ d.next \in {"complete_journal", "revise_journal"} => mayWrite
          /\ d.next = "view_summary" => ~mayTimeIn /\ ~mayTimeOut /\ ~mayWrite
================================================================================
