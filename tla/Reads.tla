--------------------------------- MODULE Reads ---------------------------------
(***************************************************************************)
(* What the clients are shown: the staff's scope, the progress of a        *)
(* trainee, the two dashboards, the lists and the reports (internal/auth,  *)
(* trainees, assignments, attendance/read.go, monitoring, reports).        *)
(*                                                                         *)
(* The queries change nothing; each is an operator on the content db of    *)
(* the tables, a record of sets of rows (see MCRules):                     *)
(*   assignments  id, trainee, site, required, start, end, weekdays, status*)
(*   sessions     id, trainee, assignment, date, status, credited, flags,  *)
(*                closed (closed_at, or else the effective time out)       *)
(*   journals     session, trainee, status, submitted                      *)
(*   corrections  id, session, trainee, status, requested                  *)
(*   scopes       pairs of coordinator and trainee                         *)
(* A page of a list, names and formats are left out: rows carry their keys.*)
(***************************************************************************)
EXTENDS AttendanceRules, FiniteSetsExt

CONSTANTS
  CutoffTicks,     \* missing_journal_cutoff_hours
  NearPercent,     \* near_completion_percent
  QueueLimit       \* rows of an attention queue (10)

ASSUME ReadsAssumption ==
  CutoffTicks \in Nat /\ NearPercent \in 1 .. 100 /\ QueueLimit \in Nat \ {0}

CountedStatuses == {"valid", "flagged", "corrected"}
SessionOf(db, row) == CHOOSE s \in db.sessions : s.id = row.session
AssignmentOf(db, s) == CHOOSE a \in db.assignments : a.id = s.assignment
Weekday(date) == (date % 7) + 1

\* ($n IS NULL OR column = $n)
Matches(wanted, value) == wanted = NULL \/ wanted = value
From(first, date) == first = NULL \/ date >= first
To(last, date) == last = NULL \/ date <= last

-------------------------------------------------------------------------------
(* Who may see whom.                                                       *)

\* No filter (NULL) is not the empty filter.
ScopedTraineeIDs(db, actor) ==
  CASE actor.role = "admin" -> NULL
    [] actor.role = "coordinator" -> {p[2] : p \in {q \in db.scopes : q[1] = actor.id}}
    [] OTHER -> {}

CanAccessTrainee(db, actor, trainee) ==
  \/ actor.role = "admin"
  \/ actor.role = "coordinator" /\ <<actor.id, trainee>> \in db.scopes

\* A slip: a scope without rows is taken for no scope.
InScopeOrEmpty(scope, trainee) == scope \in {NULL, {}} \/ trainee \in scope

InScope(scope, trainee) == scope = NULL \/ trainee \in scope

\* Detail, EvidenceImage, journals' authorize: the owner, or staff in scope.
MaySee(db, actor, trainee) ==
  actor.id = trainee \/ CanAccessTrainee(db, actor, trainee)

-------------------------------------------------------------------------------
(* Progress: sum(credited_minutes), COALESCE 0.                            *)

Credit(S) == MapThenSumSet(LAMBDA s : IF s.credited = NULL THEN 0 ELSE s.credited, S)
SessionsOf(db, a) == {s \in db.sessions : s.assignment = a.id}
Counted(S) == {s \in S : s.status \in CountedStatuses}

\* A slip: a corrected day is forgotten.
CompletedUncorrected(db, a) ==
  Credit({s \in SessionsOf(db, a) : s.status \in {"valid", "flagged"}})

\* selectCols of assignments, traineeSelect, and the dashboard of the staff.
CompletedMinutes(db, a) == Credit(Counted(SessionsOf(db, a)))

\* A row of the trainee list: progress as a fraction of 100 * minutes.
TraineeRow(db, trainee) ==
  LET active == {a \in db.assignments : a.trainee = trainee /\ a.status = "active"} IN
    IF active = {} THEN [trainee |-> trainee, assignment |-> NULL, site |-> NULL,
                         progress |-> NULL, of |-> NULL]
    ELSE LET a == CHOOSE x \in active : TRUE  \* at most one: the index on active
             full == 100 * a.required
             done == 100 * CompletedMinutes(db, a)
         IN [trainee |-> trainee, assignment |-> a.id, site |-> a.site,
             progress |-> IF done < full THEN done ELSE full, of |-> a.required]

ListTrainees(db, scope, f) ==
  {r \in {TraineeRow(db, t) : t \in {u \in db.trainees : InScope(scope, u)}} :
     f.site = NULL \/ r.site = f.site}

ListAssignments(db, scope, f) ==
  {[assignment |-> a.id, completed |-> CompletedMinutes(db, a)] :
     a \in {x \in db.assignments : /\ InScope(scope, x.trainee)
                                   /\ Matches(f.trainee, x.trainee)
                                   /\ Matches(f.site, x.site)
                                   /\ Matches(f.status, x.status)}}

-------------------------------------------------------------------------------
(* The trainee's dashboard and history.                                    *)

CoversDay(a, date) == a.start <= date /\ (a.end = NULL \/ a.end >= date)

\* The active assignment that covers the day and starts last, NULL if none:
\* the same query here and in Time In.
activeSite(db, trainee, date) ==
  LET current == {a \in db.assignments :
        a.trainee = trainee /\ a.status = "active" /\ CoversDay(a, date)} IN
    IF current = {} THEN NULL
    ELSE CHOOSE a \in current : \A b \in current : b.start <= a.start

\* Minutes of any day that has some.
activeAssignment(db, trainee, date) ==
  LET a == activeSite(db, trainee, date) IN
    IF a = NULL THEN NULL
    ELSE LET completed == Credit(SessionsOf(db, a)) IN
      [id |-> a.id, completed |-> completed,
       remaining |-> IF completed < a.required THEN a.required - completed ELSE 0,
       percent |-> ProgressPercent(completed, a.required)]

\* The session of the day; also what Today answers.
todayAttendance(db, trainee, date) ==
  LET S == {s \in db.sessions : s.trainee = trainee /\ s.date = date} IN
    IF S = {} THEN NULL ELSE CHOOSE s \in S : TRUE

journalFor(db, s) ==
  LET J == {j \in db.journals : j.session = s.id} IN
    IF J = {} THEN NULL ELSE CHOOSE j \in J : TRUE

\* A slip: the journal is asked for before the day is over.
nextActionJournalFirst(assignment, session, journal) ==
  CASE assignment = NULL -> "contact_coordinator"
    [] assignment # NULL /\ session = NULL -> "time_in"
    [] OTHER -> IF journal = NULL \/ journal.status = "draft" THEN "complete_journal"
                ELSE "view_summary"

nextAction(assignment, session, journal) ==
  IF assignment = NULL THEN "contact_coordinator"
  ELSE IF session = NULL THEN "time_in"
  ELSE IF session.status = "open" THEN "time_out"
  ELSE IF journal = NULL THEN "view_summary"
  ELSE CASE journal.status = "needs_revision" -> "revise_journal"
         [] journal.status = "draft" -> "complete_journal"
         [] OTHER -> "view_summary"

TraineeDashboard(db, trainee, now) ==
  LET today == LocalDate(now)
      assignment == activeAssignment(db, trainee, today)
      session == todayAttendance(db, trainee, today)
      journal == IF session = NULL THEN NULL ELSE journalFor(db, session)
  IN [assignment |-> assignment, session |-> session, journal |-> journal,
      next |-> nextAction(assignment, session, journal)]

History(db, trainee, f) ==
  {s \in db.sessions : /\ s.trainee = trainee
                       /\ From(f.from, s.date) /\ To(f.to, s.date)
                       /\ Matches(f.status, s.status)}

\* A day with its corrections and its journal: none also for those who may not
\* see it.
Detail(db, actor, id) ==
  {[session |-> s, journal |-> journalFor(db, s),
    corrections |-> {c \in db.corrections : c.session = id}] :
     s \in {x \in db.sessions : x.id = id /\ MaySee(db, actor, x.trainee)}}

-------------------------------------------------------------------------------
(* The staff's dashboard (monitoring).                                     *)

\* A slip: a trainee is present only on the assignment that is active now.
AbsentByAssignment(db, a, today) ==
  ~\E s \in db.sessions : s.assignment = a.id /\ s.date = today

Absent(db, a, today) == ~\E s \in db.sessions : s.trainee = a.trainee /\ s.date = today

Expected(a, today) ==
  /\ a.status = "active" /\ Weekday(today) \in a.weekdays
  /\ CoversDay(a, today)

Missing(db, j, now) ==
  /\ j.status \in {"draft", "needs_revision"}
  /\ LET closed == SessionOf(db, j).closed IN
       closed # NULL /\ closed < now - CutoffTicks

Metrics(db, scope, now) ==
  LET today == LocalDate(now)
      active == {a \in db.assignments : a.status = "active" /\ InScope(scope, a.trainee)}
      todays == {s \in db.sessions : s.date = today /\ InScope(scope, s.trainee)}
      reached(a, percent) == 100 * CompletedMinutes(db, a) >= percent * a.required
  IN [ActiveTrainees |-> Cardinality({a.trainee : a \in active}),
      PresentToday |-> Cardinality({s.trainee : s \in todays}),
      FlaggedAttendance |-> Cardinality({s \in todays : s.status = "flagged"}),
      NoAttendance |->
        Cardinality({a \in active : Expected(a, today) /\ Absent(db, a, today)}),
      NoAttendanceConfigured |-> \E a \in active : a.weekdays # {},
      MissingJournals |->
        Cardinality({j \in db.journals : Missing(db, j, now) /\ InScope(scope, j.trainee)}),
      NearCompletion |->
        Cardinality({a \in active : reached(a, NearPercent) /\ ~reached(a, 100)}),
      CompletedHours |-> Cardinality({a \in active : reached(a, 100)})]

\* What ORDER BY rank LIMIT may answer: rows of one rank come in any order.
Queue(S, rank) ==
  {Q \in kSubset(IF Cardinality(S) < QueueLimit THEN Cardinality(S) ELSE QueueLimit, S) :
     \A x \in Q, y \in S \ Q : rank[x] <= rank[y]}

pendingCorrections(db, scope) ==
  LET S == {c \in db.corrections : c.status = "pending" /\ InScope(scope, c.trainee)}
  IN Queue(S, [c \in S |-> c.requested])

recentFlags(db, scope) ==
  LET S == {s \in db.sessions :
              s.status = "flagged" /\ s.flags # {} /\ InScope(scope, s.trainee)}
  IN Queue(S, [s \in S |-> 0 - s.date])

journalsAttention(db, scope) ==
  LET S == {j \in db.journals : j.status = "submitted" /\ InScope(scope, j.trainee)}
  IN Queue(S, [j \in S |-> j.submitted])

Dashboard(db, scope, now) ==
  [metrics |-> Metrics(db, scope, now),
   corrections |-> pendingCorrections(db, scope),
   flags |-> recentFlags(db, scope),
   journals |-> journalsAttention(db, scope)]

AttendanceList(db, scope, f) ==
  {[session |-> s, journal |-> journalFor(db, s)] :
     s \in {x \in db.sessions : /\ InScope(scope, x.trainee)
                                /\ From(f.from, x.date) /\ To(f.to, x.date)
                                /\ Matches(f.trainee, x.trainee)
                                /\ Matches(f.site, AssignmentOf(db, x).site)
                                /\ Matches(f.status, x.status)}}

\* The staff's queues of journals and of corrections.
ListQueue(db, scope, f) ==
  {j \in db.journals : InScope(scope, j.trainee) /\ Matches(f.status, j.status)}

ListStaff(db, scope, f) ==
  {c \in db.corrections : /\ InScope(scope, c.trainee)
                          /\ Matches(f.status, c.status) /\ Matches(f.trainee, c.trainee)
                          /\ From(f.from, SessionOf(db, c).date)
                          /\ To(f.to, SessionOf(db, c).date)}

-------------------------------------------------------------------------------
(* The reports.                                                            *)

Names == {"daily-attendance", "weekly-summary", "student-progress",
          "journal-completion", "exceptions", "completion"}

Week(date) == date \div 7

\* pred, with the site of the session's assignment.
Reported(db, scope, f, s) ==
  /\ InScope(scope, s.trainee)
  /\ From(f.from, s.date) /\ To(f.to, s.date)
  /\ Matches(f.trainee, s.trainee) /\ Matches(f.site, AssignmentOf(db, s).site)

ReportSessions(db, scope, f) ==
  {s \in db.sessions : Reported(db, scope, f, s) /\ Matches(f.status, s.status)}

weeklySummary(db, scope, f) ==
  LET S == ReportSessions(db, scope, f)
      key(s) == <<Week(s.date), s.trainee, AssignmentOf(db, s).site>>
      written(s) == journalFor(db, s) # NULL
                    /\ journalFor(db, s).status \in {"submitted", "reviewed"}
  IN {LET group == {s \in S : key(s) = k} IN
        [key |-> k, days |-> Cardinality({s \in group : s.status # "open"}),
         minutes |-> Credit(group), journals |-> Cardinality({s \in group : written(s)})] :
      k \in {key(s) : s \in S}}

\* GROUP BY trainee, site, required minutes and status, not by the assignment:
\* studentProgress and completion show two alike as one.
completion(db, scope, f) ==
  LET A == {a \in db.assignments :
              /\ InScope(scope, a.trainee)
              /\ Matches(f.trainee, a.trainee) /\ Matches(f.site, a.site)
              /\ Matches(f.status, a.status)}
      key(a) == <<a.trainee, a.site, a.required, a.status>>
      of(k) == UNION {SessionsOf(db, a) : a \in {x \in A : key(x) = k}}
      reviewed(s) == journalFor(db, s) # NULL /\ journalFor(db, s).status = "reviewed"
  IN {LET completed == Credit(Counted(of(k)))
          percent == ProgressPercent(completed, k[3]) IN
        [key |-> k, completed |-> completed, percent |-> percent,
         remaining |-> IF completed < k[3] THEN k[3] - completed ELSE 0,
         journals |-> Cardinality({s \in of(k) : reviewed(s)}),
         state |-> IF percent >= 100 THEN "hours_complete" ELSE "in_progress"] :
      k \in {key(a) : a \in A}}

journalCompletion(db, scope, f) ==
  {j \in db.journals : Reported(db, scope, f, SessionOf(db, j)) /\ Matches(f.status, j.status)}

exceptions(db, scope, f) ==
  {s \in ReportSessions(db, scope, f) : s.flags # {}}
    \cup {c \in db.corrections :
            Reported(db, scope, f, SessionOf(db, c)) /\ Matches(f.status, c.status)}

\* Run: the rows a report has if its statement is one that PostgreSQL prepares.
Rows(db, name, scope, f) ==
  CASE name = "daily-attendance" -> AttendanceList(db, scope, f)
    [] name = "weekly-summary" -> weeklySummary(db, scope, f)
    [] name \in {"student-progress", "completion"} -> completion(db, scope, f)
    [] name = "journal-completion" -> journalCompletion(db, scope, f)
    [] name = "exceptions" -> exceptions(db, scope, f)
================================================================================
