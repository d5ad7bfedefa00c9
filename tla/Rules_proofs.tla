------------------------------ MODULE Rules_proofs ------------------------------
(***************************************************************************)
(* Proofs about the pure rules and the queries, for any clock, thresholds, *)
(* users and contents of the tables.                                       *)
(***************************************************************************)
EXTENDS RulesCheck, FiniteSetTheorems, WellFoundedInduction, TLAPS

-------------------------------------------------------------------------------
(* The inputs.                                                             *)

Queries == [kind : {"query"}, db : Contents, actor : Actors]

InputOK == input \in {Start} \cup Hours \cup Places \cup Tables \cup Queries

\* A state is one input, or the choice of one.
LEMMA InputInvariance == Spec => []InputOK
<1>1. Init => InputOK
  BY DEF Init, InputOK
<1>2. InputOK /\ [Next]_input => InputOK'
  <2> SUFFICES ASSUME InputOK, [Next]_input
               PROVE  InputOK'
    OBVIOUS
  <2>1. CASE Pick
    BY <2>1 DEF Pick, InputOK
  <2>2. CASE Query
    <3>1. input \in Tables
      BY <2>2 DEF Query, InputOK, Start, Hours, Places, Queries
    <3> QED  BY <2>2, <3>1 DEF Query, InputOK, Tables, Queries
  <2>3. CASE UNCHANGED input
    BY <2>3 DEF InputOK
  <2> QED  BY <2>1, <2>2, <2>3 DEF Next
<1> QED  BY <1>1, <1>2, PTL DEF Spec

\* The kind of an input says what is in it.
LEMMA Kinds ==
  ASSUME InputOK
  PROVE  /\ input.kind = "hours" => input \in Hours
         /\ input.kind = "place" => input \in Places
         /\ input.kind = "query" => input \in Queries
  BY DEF InputOK, Start, Hours, Places, Tables, Queries

-------------------------------------------------------------------------------
(* The verdict on a location.                                              *)

\* The flag codes of a status.
LEMMA FlagsOfStatus ==
  /\ flagsFor("outside_radius") = {"outside_radius"}
  /\ flagsFor("low_accuracy") = {"low_accuracy"}
  /\ flagsFor("unavailable") = {"unavailable_location"}
  /\ flagsFor("verified") = {}
  BY Zenon DEF flagsFor

\* For every fix: flags and demanded reasons are what VerdictFollowsTheFix says.
LEMMA VerdictOfFix ==
  ASSUME InputOK
  PROVE  VerdictFollowsTheFix
<1> SUFFICES ASSUME input.kind = "place"
             PROVE  VerdictFollowsTheFix
  BY DEF VerdictFollowsTheFix
<1>1. PICK fix : fix = input.fix
  OBVIOUS
<1>2. /\ fix.coords \in BOOLEAN /\ fix.inBounds \in BOOLEAN /\ fix.reason \in BOOLEAN
      /\ fix.accuracy \in Int \cup {NULL, NaN} /\ fix.distance \in Nat \cup {NaN}
  BY <1>1, Kinds, InputAssumption DEF Places
<1>3. PICK status : status = EvaluateLocation(fix)
  OBVIOUS
<1> DEFINE point == fix.coords /\ fix.inBounds
           known == fix.distance # NaN
           accurate == /\ fix.accuracy # NULL /\ fix.accuracy # NaN
                       /\ fix.accuracy >= 0 /\ fix.accuracy <= LowAccuracyM
<1>4. AccuracyOK(fix) <=> accurate
  BY <1>2, NullAssumption, NaNAssumption, ThresholdAssumption DEF AccuracyOK
<1>5. /\ status = "unavailable" <=> ~point
      /\ status = "low_accuracy" <=> point /\ ~accurate
      /\ status = "outside_radius" <=> point /\ accurate /\ known /\ fix.distance > RadiusM
      /\ status \in {"unavailable", "low_accuracy", "outside_radius", "verified"}
  BY <1>2, <1>3, <1>4 DEF EvaluateLocation, Outside
<1>6. /\ flagsFor(status) = {} <=> status = "verified"
      /\ "outside_radius" \in flagsFor(status) <=> status = "outside_radius"
      /\ "low_accuracy" \in flagsFor(status) <=> status = "low_accuracy"
  BY <1>5, FlagsOfStatus
<1>7. ReasonMissing(fix) <=> ~point /\ ~fix.reason
  BY <1>2, <1>3, <1>5 DEF ReasonMissing
<1>8. status = "verified" <=> point /\ accurate /\ (known => fix.distance <= RadiusM)
  <2>1. known => fix.distance \in Nat
    BY <1>2
  <2> QED  BY <1>2, <1>5, <2>1, ThresholdAssumption
<1> QED  BY <1>1, <1>3, <1>5, <1>6, <1>7, <1>8 DEF VerdictFollowsTheFix

-------------------------------------------------------------------------------
(* Credited minutes.                                                       *)

\* A number of whole minutes fits into a number of ticks if it is at most the
\* quotient.
LEMMA FitsIntoQuotient ==
  ASSUME NEW d \in Nat, NEW T \in Nat \ {0}, NEW m \in Nat
  PROVE  /\ d \div T \in Nat /\ d \div T <= d
         /\ m * T <= d <=> m <= d \div T
<1> DEFINE q == d \div T
<1>1. q \in Int /\ d = q * T + (d % T) /\ d % T \in 0 .. T - 1
  OBVIOUS
<1> HIDE DEF q
<1>2. q * T <= d /\ d < (q + 1) * T
  BY <1>1
<1>3. q \in Nat
  <2>1. CASE q < 0
    <3>1. q + 1 <= 0
      BY <1>1, <2>1
    <3>2. PICK r \in Nat : q + 1 = 0 - r
      BY <1>1, <3>1
    <3>3. r * T >= 0 /\ (q + 1) * T = 0 - r * T
      BY <3>2
    <3> QED  BY <1>2, <3>3
  <2> QED  BY <1>1, <2>1
<1>4. q <= d
  <2>1. q <= q * T
    BY <1>3
  <2> QED  BY <1>2, <1>3, <2>1
<1>5. ASSUME m <= q PROVE m * T <= d
  <2>1. m * T <= q * T
    BY <1>3, <1>5
  <2> QED  BY <1>2, <1>3, <2>1
<1>6. ASSUME ~(m <= q) PROVE ~(m * T <= d)
  <2>1. q + 1 <= m
    BY <1>3, <1>6
  <2>2. (q + 1) * T <= m * T
    BY <1>3, <2>1
  <2> QED  BY <1>2, <1>3, <2>2
<1> QED  BY <1>3, <1>4, <1>5, <1>6 DEF q

\* Credited minutes are as many as are left by counting, for any two instants
\* and any break rule.
LEMMA MinutesAreCounted ==
  ASSUME InputOK
  PROVE  CreditedCountsMinutes
<1> SUFFICES ASSUME input.kind = "hours"
             PROVE  CreditedCountsMinutes
  BY DEF CreditedCountsMinutes
<1>1. PICK tin, tout, rule : tin = input.tin /\ tout = input.tout /\ rule = input.rule
  OBVIOUS
<1>2. /\ tin \in 0 .. MaxInstant /\ tout \in 0 .. MaxInstant
      /\ rule.threshold \in 0 .. MaxMinutes /\ rule.deduction \in 0 .. MaxMinutes
      /\ MaxInstant \in Nat /\ MaxMinutes \in Nat /\ TicksPerMinute \in Nat \ {0}
  BY <1>1, Kinds, InputAssumption, ClockAssumption DEF Hours
<1> DEFINE fit == {m \in 1 .. MaxInstant : tin + m * TicksPerMinute <= tout}
           taken(n) == {m \in fit : /\ rule.type = "fixed_after_threshold"
                                    /\ rule.threshold \in 1 .. n
                                    /\ m <= rule.deduction}
<1>3. PICK k : k = Elapsed(tin, tout)
  OBVIOUS
<1>4. k \in 0 .. MaxInstant /\ fit = 1 .. k
  <2>1. CASE tout < tin
    <3>1. k = 0
      BY <1>3, <2>1 DEF Elapsed
    <3>2. \A m \in Nat : m * TicksPerMinute >= 0
      BY <1>2
    <3>3. ASSUME NEW m \in 1 .. MaxInstant PROVE ~(tin + m * TicksPerMinute <= tout)
      <4>1. m * TicksPerMinute >= 0 /\ m * TicksPerMinute \in Nat
        BY <1>2, <3>2
      <4> QED  BY <1>2, <2>1, <4>1
    <3>4. fit = {}
      BY <3>3
    <3>5. 1 .. k = {}
      BY <3>1
    <3> HIDE DEF fit
    <3> QED  BY <1>2, <3>1, <3>4, <3>5
  <2>2. CASE ~(tout < tin)
    <3>1. PICK d \in Nat : d = tout - tin
      BY <1>2, <2>2
    <3>2. k = d \div TicksPerMinute
      BY <1>3, <2>2, <3>1 DEF Elapsed
    <3>3. k \in Nat /\ k <= d
      BY <1>2, <3>2, FitsIntoQuotient
    <3>4. ASSUME NEW m \in 1 .. MaxInstant
          PROVE  tin + m * TicksPerMinute <= tout <=> m <= k
      <4>1. m \in Nat /\ m * TicksPerMinute \in Nat
        BY <1>2
      <4>2. m * TicksPerMinute <= d <=> m <= k
        BY <1>2, <3>2, <4>1, FitsIntoQuotient
      <4> QED  BY <1>2, <3>1, <4>1, <4>2
    <3>5. k \in 0 .. MaxInstant
      BY <1>2, <3>1, <3>3
    <3> QED  BY <1>2, <3>4, <3>5
  <2> QED  BY <2>1, <2>2
<1>5. Cardinality(fit) = k
  <2>1. Cardinality(1 .. k) = IF 1 > k THEN 0 ELSE k - 1 + 1
    BY <1>2, <1>4, FS_Interval
  <2> HIDE DEF fit
  <2> QED  BY <1>2, <1>4, <2>1
<1>6. PICK b \in 0 .. k : b = Deducted(rule, k)
  BY <1>2, <1>4 DEF Deducted
<1>7. taken(k) = 1 .. b
  <2>1. CASE BreakApplies(rule, k)
    <3>1. b = IF rule.deduction < k THEN rule.deduction ELSE k
      BY <1>6, <2>1 DEF Deducted
    <3>2. rule.type = "fixed_after_threshold" /\ rule.threshold \in 1 .. k
      BY <1>2, <1>4, <2>1 DEF BreakApplies
    <3>3. ASSUME NEW m \in 1 .. k PROVE m <= rule.deduction <=> m <= b
      BY <1>2, <1>4, <3>1
    <3> HIDE DEF fit
    <3> QED  BY <1>2, <1>4, <1>6, <3>2, <3>3
  <2>2. CASE ~BreakApplies(rule, k)
    <3>1. b = 0
      BY <1>6, <2>2 DEF Deducted
    <3>2. ASSUME NEW m \in 1 .. k, rule.type = "fixed_after_threshold",
                 rule.threshold \in 1 .. k, m <= rule.deduction
          PROVE  FALSE
      BY <1>2, <1>4, <2>2, <3>2 DEF BreakApplies
    <3> HIDE DEF fit
    <3> QED  BY <1>4, <3>1, <3>2
  <2> QED  BY <2>1, <2>2
<1> HIDE DEF fit, taken
<1>8. fit \ taken(k) = (b + 1) .. k
  BY <1>4, <1>6, <1>7
<1>9. Cardinality(fit \ taken(k)) = k - b
  <2>1. k \in Nat /\ b \in Nat /\ b <= k
    BY <1>2, <1>4, <1>6
  <2>2. Cardinality((b + 1) .. k) = IF b + 1 > k THEN 0 ELSE k - (b + 1) + 1
    BY <2>1, FS_Interval
  <2>3. (IF b + 1 > k THEN 0 ELSE k - (b + 1) + 1) = k - b
    BY <2>1
  <2> QED  BY <1>8, <2>2, <2>3, Zenon
<1>10. CreditedMinutes(tin, tout, rule) = k - b
  BY <1>3, <1>6 DEF CreditedMinutes
<1> QED  BY <1>1, <1>5, <1>9, <1>10 DEF CreditedCountsMinutes, fit, taken

\* For every fix, a NaN coordinate or accuracy included, the verdict, its flags
\* and the reason it asks for are those of VerdictFollowsTheFix.
THEOREM VerdictsFollowTheFix == Spec => []VerdictFollowsTheFix
<1>1. InputOK => VerdictFollowsTheFix
  BY VerdictOfFix
<1> QED  BY InputInvariance, <1>1, PTL

\* For every two instants and every break rule, the credited minutes are those
\* that remain by counting (duration.go): CreditedCountsMinutes.
THEOREM HoursAreCounted == Spec => []CreditedCountsMinutes
<1>1. InputOK => CreditedCountsMinutes
  BY MinutesAreCounted
<1> QED  BY InputInvariance, <1>1, PTL

-------------------------------------------------------------------------------
(* The action a trainee is offered.                                        *)

\* nextAction, case by case.
LEMMA NextActions ==
  ASSUME NEW assignment, NEW session, NEW journal, NEW next,
         next = nextAction(assignment, session, journal)
  PROVE  /\ next = "time_in" => assignment # NULL /\ session = NULL
         /\ next = "time_out" => session # NULL /\ session.status = "open"
         /\ next \in {"complete_journal", "revise_journal"} =>
              journal # NULL /\ journal.status \in {"draft", "needs_revision"}
         /\ next = "view_summary" =>
              /\ session # NULL /\ session.status # "open"
              /\ journal # NULL => journal.status \notin {"draft", "needs_revision"}
<1>1. CASE assignment = NULL
  <2>1. next = "contact_coordinator"
    BY <1>1, Zenon DEF nextAction
  <2> QED  BY <2>1
<1>2. CASE assignment # NULL /\ session = NULL
  <2>1. next = "time_in"
    BY <1>2, Zenon DEF nextAction
  <2> QED  BY <1>2, <2>1
<1>3. CASE assignment # NULL /\ session # NULL /\ session.status = "open"
  <2>1. next = "time_out"
    BY <1>3, Zenon DEF nextAction
  <2> QED  BY <1>3, <2>1
<1>4. CASE assignment # NULL /\ session # NULL /\ session.status # "open" /\ journal = NULL
  <2>1. next = "view_summary"
    BY <1>4, Zenon DEF nextAction
  <2> QED  BY <1>4, <2>1
<1>5. CASE assignment # NULL /\ session # NULL /\ session.status # "open" /\ journal # NULL
  <2>1. CASE journal.status = "needs_revision"
    <3>1. "needs_revision" # "draft"
      OBVIOUS
    <3>2. next = "revise_journal"
      BY <1>5, <2>1, <3>1, Zenon DEF nextAction
    <3> QED  BY <1>5, <2>1, <3>2
  <2>2. CASE journal.status = "draft"
    <3>1. "draft" # "needs_revision"
      OBVIOUS
    <3>2. next = "complete_journal"
      BY <1>5, <2>2, <3>1, Zenon DEF nextAction
    <3> QED  BY <1>5, <2>2, <3>2
  <2>3. CASE journal.status \notin {"draft", "needs_revision"}
    <3>1. journal.status # "draft" /\ journal.status # "needs_revision"
      BY <2>3
    <3>2. next = "view_summary"
      BY <1>5, <3>1, Zenon DEF nextAction
    <3> QED  BY <1>5, <2>3, <3>2
  <2> QED  BY <2>1, <2>2, <2>3
<1> QED  BY <1>1, <1>2, <1>3, <1>4, <1>5

\* Whatever the tables hold, the action a trainee is offered is one the server
\* would accept now, and none is offered only when none is left
\* (dashboard.go, nextAction): NextActionIsAccepted.
THEOREM OffersAreAccepted == Spec => []NextActionIsAccepted
<1>1. InputOK => NextActionIsAccepted
  <2> SUFFICES ASSUME input.kind = "query", NEW t \in input.db.trainees
               PROVE  LET d == TraineeDashboard(input.db, t, Now)
                          mayTimeIn == activeSite(input.db, t, LocalDate(Now)) # NULL
                                       /\ d.session = NULL
                          mayTimeOut == d.session # NULL /\ d.session.status = "open"
                          mayWrite == d.journal # NULL
                                      /\ d.journal.status \in {"draft", "needs_revision"}
                      IN  /\ d.next = "time_in" => mayTimeIn
                          /\ d.next = "time_out" => mayTimeOut
                          /\ d.next \in {"complete_journal", "revise_journal"} => mayWrite
                          /\ d.next = "view_summary" => ~mayTimeIn /\ ~mayTimeOut /\ ~mayWrite
    BY DEF NextActionIsAccepted
  <2>1. PICK d : d = TraineeDashboard(input.db, t, Now)
    OBVIOUS
  <2>2. /\ d.next = nextAction(d.assignment, d.session, d.journal)
        /\ d.assignment = activeAssignment(input.db, t, LocalDate(Now))
    BY <2>1 DEF TraineeDashboard
  <2>3. d.assignment # NULL => activeSite(input.db, t, LocalDate(Now)) # NULL
    BY <2>2 DEF activeAssignment
  <2>4. /\ d.next = "time_in" => d.assignment # NULL /\ d.session = NULL
        /\ d.next = "time_out" => d.session # NULL /\ d.session.status = "open"
        /\ d.next \in {"complete_journal", "revise_journal"} =>
             d.journal # NULL /\ d.journal.status \in {"draft", "needs_revision"}
        /\ d.next = "view_summary" =>
             /\ d.session # NULL /\ d.session.status # "open"
             /\ d.journal # NULL => d.journal.status \notin {"draft", "needs_revision"}
    BY <2>2, NextActions
  <2> QED  BY <2>1, <2>3, <2>4
<1> QED  BY InputInvariance, <1>1, PTL

-------------------------------------------------------------------------------
(* The two counts of the day.                                              *)

\* The session of the day is found when there is one.
LEMMA FoundToday ==
  ASSUME NEW db, Kept(db), NEW t, NEW today
  PROVE  todayAttendance(db, t, today) # NULL
           <=> \E s \in db.sessions : s.trainee = t /\ s.date = today
<1> DEFINE S == {s \in db.sessions : s.trainee = t /\ s.date = today}
<1>1. CASE S = {}
  BY <1>1 DEF todayAttendance
<1>2. CASE S # {}
  <2>1. (CHOOSE s \in S : TRUE) \in S
    BY <1>2
  <2>2. todayAttendance(db, t, today) = CHOOSE s \in S : TRUE
    BY <1>2, Zenon DEF todayAttendance
  <2>3. \A s \in S : s # NULL
    BY DEF Kept
  <2> QED  BY <1>2, <2>1, <2>2, <2>3
<1> QED  BY <1>1, <1>2

\* The trainees of finitely many rows are finitely many, and as many as the rows
\* when no two rows are of one.
LEMMA TraineesOfRows ==
  ASSUME NEW A, IsFiniteSet(A)
  PROVE  /\ IsFiniteSet({a.trainee : a \in A})
         /\ (\A a, b \in A : a.trainee = b.trainee => a = b) =>
              Cardinality({a.trainee : a \in A}) = Cardinality(A)
<1> DEFINE T == {a.trainee : a \in A}
           f == [a \in A |-> a.trainee]
<1>1. f \in Surjection(A, T)
  BY DEF Surjection
<1>2. (\A a, b \in A : a.trainee = b.trainee => a = b) => f \in Injection(A, T)
  BY DEF Injection, IsInjective
<1> HIDE DEF T, f
<1>3. /\ IsFiniteSet(T)
      /\ Cardinality(T) = Cardinality(A) <=> f \in Injection(A, T)
  BY <1>1, FS_Surjection
<1> QED  BY <1>2, <1>3 DEF T

\* The trainees present today and those expected and absent are two disjoint
\* sets, and each count is of one of them.
LEMMA ExpectedAreCounted ==
  ASSUME NEW db, Kept(db), NEW scope, NEW now, NEW metrics, metrics = Metrics(db, scope, now)
  PROVE  metrics.PresentToday + metrics.NoAttendance =
           Cardinality({t \in db.trainees :
             /\ InScope(scope, t)
             /\ \/ todayAttendance(db, t, LocalDate(now)) # NULL
                \/ \E a \in db.assignments : a.trainee = t /\ Expected(a, LocalDate(now))})
<1>1. PICK today : today = LocalDate(now)
  OBVIOUS
<1> DEFINE S == {s \in db.sessions : s.date = today /\ InScope(scope, s.trainee)}
           A == {a \in db.assignments : a.status = "active" /\ InScope(scope, a.trainee)}
           N == {a \in A : Expected(a, today) /\ Absent(db, a, today)}
           P == {s.trainee : s \in S}
           Q == {a.trainee : a \in N}
           U == {t \in db.trainees :
                   /\ InScope(scope, t)
                   /\ \/ todayAttendance(db, t, today) # NULL
                      \/ \E a \in db.assignments : a.trainee = t /\ Expected(a, today)}
<1>2. metrics.PresentToday = Cardinality(P) /\ metrics.NoAttendance = Cardinality(N)
  BY <1>1 DEF Metrics
<1>3. IsFiniteSet(P)
  <2>1. IsFiniteSet(S)
    BY FS_Subset DEF Kept
  <2> HIDE DEF S
  <2> QED  BY <2>1, TraineesOfRows
<1>4. IsFiniteSet(Q) /\ Cardinality(Q) = Cardinality(N)
  <2>1. IsFiniteSet(N)
    BY FS_Subset DEF Kept
  <2>2. \A a, b \in N : a.trainee = b.trainee => a = b
    BY DEF Kept
  <2> HIDE DEF N
  <2> QED  BY <2>1, <2>2, TraineesOfRows
<1>5. P \cap Q = {}
  BY DEF Absent
<1>6. U = P \cup Q
  <2>1. ASSUME NEW t \in U PROVE t \in P \cup Q
    <3>1. CASE \E s \in db.sessions : s.trainee = t /\ s.date = today
      BY <2>1, <3>1
    <3>2. CASE ~\E s \in db.sessions : s.trainee = t /\ s.date = today
      <4>1. PICK a \in db.assignments : a.trainee = t /\ Expected(a, today)
        BY <2>1, <3>2, FoundToday
      <4>2. a \in N
        BY <2>1, <3>2, <4>1 DEF Absent, Expected
      <4> QED  BY <4>1, <4>2
    <3> QED  BY <3>1, <3>2
  <2>2. ASSUME NEW t \in P PROVE t \in U
    <3>1. PICK s \in S : s.trainee = t
      BY <2>2
    <3>2. t \in db.trainees
      BY <3>1 DEF Kept
    <3>3. todayAttendance(db, t, today) # NULL
      BY <3>1, FoundToday
    <3> QED  BY <3>1, <3>2, <3>3
  <2>3. ASSUME NEW t \in Q PROVE t \in U
    <3>1. PICK a \in N : a.trainee = t
      BY <2>3
    <3>2. t \in db.trainees
      BY <3>1 DEF Kept
    <3> QED  BY <3>1, <3>2
  <2> QED  BY <2>1, <2>2, <2>3
<1> HIDE DEF S, A, N, P, Q, U
<1>7. Cardinality(P \cup Q) = Cardinality(P) + Cardinality(Q) - Cardinality(P \cap Q)
  BY <1>3, <1>4, FS_Union
<1>8. Cardinality(P) \in Nat /\ Cardinality(Q) \in Nat /\ Cardinality(P \cap Q) = 0
  BY <1>3, <1>4, <1>5, FS_CardinalityType, FS_EmptySet
<1>9. metrics.PresentToday + metrics.NoAttendance = Cardinality(U)
  BY <1>2, <1>4, <1>6, <1>7, <1>8
<1> QED  BY <1>1, <1>9 DEF U

\* Whatever the tables hold, everyone present or expected is in exactly one of
\* the two counts (monitoring.go, Dashboard): EveryoneExpectedIsCounted.
THEOREM EveryoneIsCounted == Spec => []EveryoneExpectedIsCounted
<1>1. InputOK => EveryoneExpectedIsCounted
  <2> SUFFICES ASSUME InputOK, input.kind = "query"
               PROVE  EveryoneExpectedIsCounted
    BY DEF EveryoneExpectedIsCounted
  <2>1. Kept(input.db)
    BY Kinds, ContentsAssumption DEF Queries
  <2> QED  BY <2>1, ExpectedAreCounted DEF EveryoneExpectedIsCounted
<1> QED  BY InputInvariance, <1>1, PTL

-------------------------------------------------------------------------------
(* What a scope shows.                                                     *)

\* The filter of the queries is the access check of single records: NULL is an
\* admin's, and a coordinator without scope has the empty filter.
LEMMA FilterIsAccess ==
  ASSUME NEW db, Kept(db), NEW actor, NEW t \in db.trainees
  PROVE  InScope(ScopedTraineeIDs(db, actor), t) <=> CanAccessTrainee(db, actor, t)
<1>1. PICK scope : scope = ScopedTraineeIDs(db, actor)
  OBVIOUS
<1>2. CASE actor.role = "admin"
  <2>1. scope = NULL
    BY <1>1, <1>2, Zenon DEF ScopedTraineeIDs
  <2> QED  BY <1>1, <1>2, <2>1 DEF InScope, CanAccessTrainee
<1>3. CASE actor.role = "coordinator"
  <2>1. "coordinator" # "admin"
    OBVIOUS
  <2>2. scope = {p[2] : p \in {q \in db.scopes : q[1] = actor.id}}
    BY <1>1, <1>3, <2>1, Zenon DEF ScopedTraineeIDs
  <2>3. \A p \in db.scopes : p = <<p[1], p[2]>> /\ p[2] \in db.trainees
    BY DEF Kept
  <2>4. scope \in SUBSET db.trainees
    BY <2>2, <2>3
  <2>5. scope # NULL
    BY <2>4 DEF Kept
  <2>6. t \in scope <=> <<actor.id, t>> \in db.scopes
    BY <2>2, <2>3
  <2> QED  BY <1>1, <1>3, <2>1, <2>5, <2>6 DEF InScope, CanAccessTrainee
<1>4. CASE actor.role \notin {"admin", "coordinator"}
  <2>1. actor.role # "admin" /\ actor.role # "coordinator"
    BY <1>4
  <2>2. scope = {}
    BY <1>1, <2>1, Zenon DEF ScopedTraineeIDs
  <2>3. {} \in SUBSET db.trainees
    OBVIOUS
  <2>4. scope # NULL
    BY <2>2, <2>3 DEF Kept
  <2> QED  BY <1>1, <2>1, <2>2, <2>4 DEF InScope, CanAccessTrainee
<1> QED  BY <1>2, <1>3, <1>4

\* own is what a scope leaves of the tables: the rows of the trainees in it.
Leaves(db, scope, own) ==
  /\ Kept(db)
  /\ own.trainees = {t \in db.trainees : InScope(scope, t)}
  /\ own.assignments = {a \in db.assignments : InScope(scope, a.trainee)}
  /\ own.sessions = {s \in db.sessions : InScope(scope, s.trainee)}
  /\ own.journals = {j \in db.journals : InScope(scope, j.trainee)}
  /\ own.corrections = {c \in db.corrections : InScope(scope, c.trainee)}

\* The tables of the trainees an actor may access are what the filter leaves.
LEMMA OnlyLeaves ==
  ASSUME NEW db, Kept(db), NEW actor
  PROVE  Leaves(db, ScopedTraineeIDs(db, actor),
                Only(db, {t \in db.trainees : CanAccessTrainee(db, actor, t)}))
<1>1. PICK scope : scope = ScopedTraineeIDs(db, actor)
  OBVIOUS
<1> DEFINE T == {t \in db.trainees : CanAccessTrainee(db, actor, t)}
<1>2. \A t \in db.trainees : t \in T <=> InScope(scope, t)
  BY <1>1, FilterIsAccess
<1>3. T \subseteq db.trainees
  OBVIOUS
<1>4. /\ \A a \in db.assignments : a.trainee \in db.trainees
      /\ \A s \in db.sessions : s.trainee \in db.trainees
      /\ \A row \in db.journals \cup db.corrections : row.trainee \in db.trainees
  BY DEF Kept
<1> HIDE DEF T
<1>5. Leaves(db, scope, Only(db, T))
  BY <1>2, <1>3, <1>4 DEF Leaves, Only
<1> QED  BY <1>1, <1>5 DEF T

\* A row of what is left refers to rows of what is left, and to the same ones.
LEMMA LeftReferences ==
  ASSUME NEW db, NEW scope, NEW own, Leaves(db, scope, own)
  PROVE  /\ \A s \in own.sessions : /\ AssignmentOf(own, s) = AssignmentOf(db, s)
                                    /\ journalFor(own, s) = journalFor(db, s)
         /\ \A row \in own.journals \cup own.corrections :
              /\ SessionOf(own, row) = SessionOf(db, row)
              /\ SessionOf(db, row) \in own.sessions
              /\ SessionOf(db, row).trainee = row.trainee
         /\ \A a \in own.assignments : SessionsOf(own, a) = SessionsOf(db, a)
         /\ \A t \in own.trainees : TraineeRow(own, t) = TraineeRow(db, t)
<1>1. ASSUME NEW s \in own.sessions
      PROVE  /\ AssignmentOf(own, s) = AssignmentOf(db, s)
             /\ journalFor(own, s) = journalFor(db, s)
  <2>1. s \in db.sessions /\ InScope(scope, s.trainee)
    BY DEF Leaves
  <2>2. AssignmentOf(own, s) = AssignmentOf(db, s)
    <3>1. PICK a \in db.assignments : a.id = s.assignment /\ a.trainee = s.trainee
      BY <2>1 DEF Leaves, Kept
    <3>2. \A b \in db.assignments : b.id = s.assignment => b = a
      BY <3>1 DEF Leaves, Kept
    <3>3. a \in own.assignments /\ own.assignments \subseteq db.assignments
      BY <2>1, <3>1 DEF Leaves
    <3>4. AssignmentOf(own, s) = a
      BY <3>1, <3>2, <3>3 DEF AssignmentOf
    <3>5. AssignmentOf(db, s) = a
      BY <3>1, <3>2 DEF AssignmentOf
    <3> QED  BY <3>4, <3>5
  <2>3. {j \in own.journals : j.session = s.id} = {j \in db.journals : j.session = s.id}
    <3>1. ASSUME NEW j \in db.journals, j.session = s.id PROVE InScope(scope, j.trainee)
      <4>1. PICK r \in db.sessions : r.id = j.session /\ r.trainee = j.trainee
        BY <3>1 DEF Leaves, Kept
      <4>2. r = s
        BY <2>1, <3>1, <4>1 DEF Leaves, Kept
      <4> QED  BY <2>1, <4>1, <4>2
    <3> QED  BY <3>1 DEF Leaves
  <2>4. journalFor(own, s) = journalFor(db, s)
    <3>1. PICK J : J = {j \in own.journals : j.session = s.id}
      OBVIOUS
    <3>2. J = {j \in db.journals : j.session = s.id}
      BY <2>3, <3>1
    <3>3. journalFor(own, s) = IF J = {} THEN NULL ELSE CHOOSE j \in J : TRUE
      BY <3>1 DEF journalFor
    <3>4. journalFor(db, s) = IF J = {} THEN NULL ELSE CHOOSE j \in J : TRUE
      BY <3>2 DEF journalFor
    <3> QED  BY <3>3, <3>4
  <2> QED  BY <2>2, <2>4
<1>2. ASSUME NEW row \in own.journals \cup own.corrections
      PROVE  /\ SessionOf(own, row) = SessionOf(db, row)
             /\ SessionOf(db, row) \in own.sessions
             /\ SessionOf(db, row).trainee = row.trainee
  <2>1. row \in db.journals \cup db.corrections /\ InScope(scope, row.trainee)
    BY DEF Leaves
  <2>2. PICK s \in db.sessions : s.id = row.session /\ s.trainee = row.trainee
    BY <2>1 DEF Leaves, Kept
  <2>3. \A r \in db.sessions : r.id = row.session => r = s
    BY <2>2 DEF Leaves, Kept
  <2>4. s \in own.sessions /\ own.sessions \subseteq db.sessions
    BY <2>1, <2>2 DEF Leaves
  <2>5. SessionOf(own, row) = s
    BY <2>2, <2>3, <2>4 DEF SessionOf
  <2>6. SessionOf(db, row) = s
    BY <2>2, <2>3 DEF SessionOf
  <2> QED  BY <2>2, <2>4, <2>5, <2>6
<1>3. ASSUME NEW a \in own.assignments PROVE SessionsOf(own, a) = SessionsOf(db, a)
  <2>1. a \in db.assignments /\ InScope(scope, a.trainee)
    BY DEF Leaves
  <2>2. ASSUME NEW s \in db.sessions, s.assignment = a.id PROVE InScope(scope, s.trainee)
    <3>1. PICK b \in db.assignments : b.id = s.assignment /\ b.trainee = s.trainee
      BY DEF Leaves, Kept
    <3>2. b = a
      BY <2>1, <2>2, <3>1 DEF Leaves, Kept
    <3> QED  BY <2>1, <3>1, <3>2
  <2> QED  BY <2>2 DEF Leaves, SessionsOf
<1>4. ASSUME NEW t \in own.trainees PROVE TraineeRow(own, t) = TraineeRow(db, t)
  <2> DEFINE active(x) == {a \in x.assignments : a.trainee = t /\ a.status = "active"}
             a == CHOOSE x \in active(db) : TRUE
  <2>1. active(own) = active(db)
    BY DEF Leaves
  <2>2. CASE active(db) = {}
    BY <2>1, <2>2 DEF TraineeRow
  <2>3. CASE active(db) # {}
    <3>1. a \in own.assignments
      BY <2>1, <2>3
    <3>2. CompletedMinutes(own, a) = CompletedMinutes(db, a)
      BY <1>3, <3>1, Zenon DEF CompletedMinutes
    <3>3. (CHOOSE x \in active(own) : TRUE) = a
      BY <2>1, Zenon
    <3> HIDE DEF a, active
    <3>4. TraineeRow(db, t) = LET full == 100 * a.required
                                  done == 100 * CompletedMinutes(db, a)
                              IN  [trainee |-> t, assignment |-> a.id, site |-> a.site,
                                   progress |-> IF done < full THEN done ELSE full,
                                   of |-> a.required]
      BY <2>3, Zenon DEF TraineeRow, a, active
    <3>5. TraineeRow(own, t) = LET full == 100 * a.required
                                   done == 100 * CompletedMinutes(own, a)
                               IN  [trainee |-> t, assignment |-> a.id, site |-> a.site,
                                    progress |-> IF done < full THEN done ELSE full,
                                    of |-> a.required]
      BY <2>1, <2>3, <3>3, Zenon DEF TraineeRow, active
    <3> QED  BY <3>2, <3>4, <3>5
  <2> QED  BY <2>2, <2>3
<1> QED  BY <1>1, <1>2, <1>3, <1>4

\* No filter lets everyone through.
LEMMA NoFilterLetsAll ==
  \A t : InScope(NULL, t)
  BY DEF InScope

\* The lists of trainees, assignments, attendance, journals and corrections.
LEMMA ListsOfScope ==
  ASSUME NEW db, NEW scope, NEW own, Leaves(db, scope, own), NEW f
  PROVE  /\ ListTrainees(db, scope, f) = ListTrainees(own, NULL, f)
         /\ ListAssignments(db, scope, f) = ListAssignments(own, NULL, f)
         /\ AttendanceList(db, scope, f) = AttendanceList(own, NULL, f)
         /\ ListQueue(db, scope, f) = ListQueue(own, NULL, f)
         /\ ListStaff(db, scope, f) = ListStaff(own, NULL, f)
<1>1. ListTrainees(db, scope, f) = ListTrainees(own, NULL, f)
  <2>1. {u \in db.trainees : InScope(scope, u)} = own.trainees
    BY DEF Leaves
  <2>2. {u \in own.trainees : InScope(NULL, u)} = own.trainees
    BY NoFilterLetsAll
  <2>3. {TraineeRow(db, t) : t \in own.trainees} = {TraineeRow(own, t) : t \in own.trainees}
    <3>1. \A t \in own.trainees : TraineeRow(own, t) = TraineeRow(db, t)
      BY LeftReferences
    <3> QED  BY <3>1
  <2> QED  BY <2>1, <2>2, <2>3 DEF ListTrainees
<1>2. ListAssignments(db, scope, f) = ListAssignments(own, NULL, f)
  <2> DEFINE of(a) == /\ Matches(f.trainee, a.trainee) /\ Matches(f.site, a.site)
                      /\ Matches(f.status, a.status)
             A == {a \in own.assignments : of(a)}
  <2>1. {a \in db.assignments : InScope(scope, a.trainee) /\ of(a)} = A
    BY DEF Leaves
  <2>2. {a \in own.assignments : InScope(NULL, a.trainee) /\ of(a)} = A
    BY NoFilterLetsAll
  <2>3. ASSUME NEW a \in A PROVE CompletedMinutes(own, a) = CompletedMinutes(db, a)
    <3>1. SessionsOf(own, a) = SessionsOf(db, a)
      BY LeftReferences
    <3> QED  BY <3>1, Zenon DEF CompletedMinutes
  <2>4. ListAssignments(db, scope, f)
          = {[assignment |-> a.id, completed |-> CompletedMinutes(db, a)] : a \in A}
    BY <2>1 DEF ListAssignments
  <2>5. ListAssignments(own, NULL, f)
          = {[assignment |-> a.id, completed |-> CompletedMinutes(own, a)] : a \in A}
    BY <2>2 DEF ListAssignments
  <2> HIDE DEF A
  <2> QED  BY <2>3, <2>4, <2>5
<1>3. AttendanceList(db, scope, f) = AttendanceList(own, NULL, f)
  <2> DEFINE S == {s \in own.sessions : /\ From(f.from, s.date) /\ To(f.to, s.date)
                                        /\ Matches(f.trainee, s.trainee)
                                        /\ Matches(f.site, AssignmentOf(db, s).site)
                                        /\ Matches(f.status, s.status)}
  <2>1. \A s \in own.sessions : /\ AssignmentOf(own, s) = AssignmentOf(db, s)
                                /\ journalFor(own, s) = journalFor(db, s)
    BY LeftReferences
  <2>2. AttendanceList(db, scope, f) = {[session |-> s, journal |-> journalFor(db, s)] : s \in S}
    <3>1. {x \in db.sessions : /\ InScope(scope, x.trainee)
                               /\ From(f.from, x.date) /\ To(f.to, x.date)
                               /\ Matches(f.trainee, x.trainee)
                               /\ Matches(f.site, AssignmentOf(db, x).site)
                               /\ Matches(f.status, x.status)} = S
      BY DEF Leaves
    <3> QED  BY <3>1 DEF AttendanceList
  <2>3. AttendanceList(own, NULL, f) = {[session |-> s, journal |-> journalFor(own, s)] : s \in S}
    <3>1. {x \in own.sessions : /\ InScope(NULL, x.trainee)
                                /\ From(f.from, x.date) /\ To(f.to, x.date)
                                /\ Matches(f.trainee, x.trainee)
                                /\ Matches(f.site, AssignmentOf(own, x).site)
                                /\ Matches(f.status, x.status)} = S
      BY <2>1, NoFilterLetsAll
    <3> QED  BY <3>1 DEF AttendanceList
  <2>4. S \subseteq own.sessions
    OBVIOUS
  <2> HIDE DEF S
  <2> QED  BY <2>1, <2>2, <2>3, <2>4
<1>4. ListQueue(db, scope, f) = ListQueue(own, NULL, f)
  BY NoFilterLetsAll DEF ListQueue, Leaves
<1>5. ListStaff(db, scope, f) = ListStaff(own, NULL, f)
  <2>1. \A c \in own.corrections : SessionOf(own, c) = SessionOf(db, c)
    BY LeftReferences
  <2> QED  BY <2>1, NoFilterLetsAll DEF ListStaff, Leaves
<1> QED  BY <1>1, <1>2, <1>3, <1>4, <1>5

\* The staff's dashboard: its counts and its queues.
LEMMA DashboardOfScope ==
  ASSUME NEW db, NEW scope, NEW own, Leaves(db, scope, own), NEW now
  PROVE  Dashboard(db, scope, now) = Dashboard(own, NULL, now)
<1>1. Metrics(db, scope, now) = Metrics(own, NULL, now)
  <2>1. PICK today : today = LocalDate(now)
    OBVIOUS
  <2> DEFINE active == {a \in own.assignments : a.status = "active"}
             todays == {s \in own.sessions : s.date = today}
             reached(a, percent) == 100 * CompletedMinutes(db, a) >= percent * a.required
             view(N, J) ==
               [ActiveTrainees |-> Cardinality({a.trainee : a \in active}),
                PresentToday |-> Cardinality({s.trainee : s \in todays}),
                FlaggedAttendance |-> Cardinality({s \in todays : s.status = "flagged"}),
                NoAttendance |-> Cardinality(N),
                NoAttendanceConfigured |-> \E a \in active : a.weekdays # {},
                MissingJournals |-> Cardinality(J),
                NearCompletion |->
                  Cardinality({a \in active : reached(a, NearPercent) /\ ~reached(a, 100)}),
                CompletedHours |-> Cardinality({a \in active : reached(a, 100)})]
  <2>2. /\ {a \in db.assignments : a.status = "active" /\ InScope(scope, a.trainee)} = active
        /\ {a \in own.assignments : a.status = "active" /\ InScope(NULL, a.trainee)} = active
        /\ {s \in db.sessions : s.date = today /\ InScope(scope, s.trainee)} = todays
        /\ {s \in own.sessions : s.date = today /\ InScope(NULL, s.trainee)} = todays
    BY NoFilterLetsAll DEF Leaves
  <2>3. PICK N : N = {a \in active : Expected(a, today) /\ Absent(db, a, today)}
    OBVIOUS
  <2>4. N = {a \in active : Expected(a, today) /\ Absent(own, a, today)}
    <3>1. ASSUME NEW a \in active PROVE Absent(own, a, today) <=> Absent(db, a, today)
      <4>1. InScope(scope, a.trainee)
        BY DEF Leaves
      <4> QED  BY <4>1 DEF Absent, Leaves
    <3> HIDE DEF active
    <3> QED  BY <2>3, <3>1
  <2>5. PICK J : J = {j \in db.journals : Missing(db, j, now) /\ InScope(scope, j.trainee)}
    OBVIOUS
  <2>6. J = {j \in own.journals : Missing(own, j, now) /\ InScope(NULL, j.trainee)}
    <3>1. \A j \in own.journals : Missing(own, j, now) <=> Missing(db, j, now)
      BY LeftReferences DEF Missing
    <3> QED  BY <2>5, <3>1, NoFilterLetsAll DEF Leaves
  <2>7. \A a \in active : CompletedMinutes(own, a) = CompletedMinutes(db, a)
    <3>1. ASSUME NEW a \in active PROVE CompletedMinutes(own, a) = CompletedMinutes(db, a)
      <4>1. SessionsOf(own, a) = SessionsOf(db, a)
        BY LeftReferences
      <4> QED  BY <4>1, Zenon DEF CompletedMinutes
    <3> QED  BY <3>1
  <2>8. /\ {a \in active : reached(a, NearPercent) /\ ~reached(a, 100)}
             = {a \in active : /\ 100 * CompletedMinutes(own, a) >= NearPercent * a.required
                               /\ ~(100 * CompletedMinutes(own, a) >= 100 * a.required)}
        /\ {a \in active : reached(a, 100)}
             = {a \in active : 100 * CompletedMinutes(own, a) >= 100 * a.required}
    <3> HIDE DEF active
    <3> QED  BY <2>7
  <2>9. Metrics(db, scope, now) = view(N, J)
    BY <2>1, <2>2, <2>3, <2>5, Zenon DEF Metrics
  <2>10. Metrics(own, NULL, now) = view(N, J)
    BY <2>1, <2>2, <2>4, <2>6, <2>8, Zenon DEF Metrics
  <2> QED  BY <2>9, <2>10
<1>2. pendingCorrections(db, scope) = pendingCorrections(own, NULL)
  <2>1. {c \in db.corrections : c.status = "pending" /\ InScope(scope, c.trainee)}
          = {c \in own.corrections : c.status = "pending" /\ InScope(NULL, c.trainee)}
    BY NoFilterLetsAll DEF Leaves
  <2> QED  BY <2>1 DEF pendingCorrections
<1>3. recentFlags(db, scope) = recentFlags(own, NULL)
  <2>1. {s \in db.sessions : s.status = "flagged" /\ s.flags # {} /\ InScope(scope, s.trainee)}
          = {s \in own.sessions : s.status = "flagged" /\ s.flags # {} /\ InScope(NULL, s.trainee)}
    BY NoFilterLetsAll DEF Leaves
  <2> QED  BY <2>1 DEF recentFlags
<1>4. journalsAttention(db, scope) = journalsAttention(own, NULL)
  <2>1. {j \in db.journals : j.status = "submitted" /\ InScope(scope, j.trainee)}
          = {j \in own.journals : j.status = "submitted" /\ InScope(NULL, j.trainee)}
    BY NoFilterLetsAll DEF Leaves
  <2> QED  BY <2>1 DEF journalsAttention
<1> QED  BY <1>1, <1>2, <1>3, <1>4 DEF Dashboard

\* The sessions a report is about, with the site of each.
LEMMA ReportedOfScope ==
  ASSUME NEW db, NEW scope, NEW own, Leaves(db, scope, own), NEW f
  PROVE  /\ ReportSessions(db, scope, f) = ReportSessions(own, NULL, f)
         /\ ReportSessions(db, scope, f) \subseteq own.sessions
         /\ \A s \in own.sessions : Reported(db, scope, f, s) <=> Reported(own, NULL, f, s)
<1>1. \A s \in own.sessions : Reported(db, scope, f, s) <=> Reported(own, NULL, f, s)
  <2> SUFFICES ASSUME NEW s \in own.sessions
               PROVE  Reported(db, scope, f, s) <=> Reported(own, NULL, f, s)
    OBVIOUS
  <2>1. AssignmentOf(own, s) = AssignmentOf(db, s)
    BY LeftReferences
  <2>2. InScope(scope, s.trainee) /\ InScope(NULL, s.trainee)
    BY NoFilterLetsAll DEF Leaves
  <2> QED  BY <2>1, <2>2 DEF Reported
<1>2. own.sessions \subseteq db.sessions
  BY DEF Leaves
<1>3. \A s \in db.sessions : Reported(db, scope, f, s) => s \in own.sessions
  BY DEF Reported, Leaves
<1> QED  BY <1>1, <1>2, <1>3 DEF ReportSessions

\* The weekly summary.
LEMMA WeeksOfScope ==
  ASSUME NEW db, NEW scope, NEW own, Leaves(db, scope, own), NEW f
  PROVE  weeklySummary(db, scope, f) = weeklySummary(own, NULL, f)
<1>1. PICK S : S = ReportSessions(db, scope, f)
  OBVIOUS
<1>2. S = ReportSessions(own, NULL, f) /\ S \subseteq own.sessions
  BY <1>1, ReportedOfScope
<1> DEFINE key(x, s) == <<Week(s.date), s.trainee, AssignmentOf(x, s).site>>
           written(x, s) == journalFor(x, s) # NULL
                            /\ journalFor(x, s).status \in {"submitted", "reviewed"}
           row(x, k) == LET group == {s \in S : key(x, s) = k} IN
              [key |-> k, days |-> Cardinality({s \in group : s.status # "open"}),
               minutes |-> Credit(group), journals |-> Cardinality({s \in group : written(x, s)})]
<1>3. /\ weeklySummary(db, scope, f) = {row(db, k) : k \in {key(db, s) : s \in S}}
      /\ weeklySummary(own, NULL, f) = {row(own, k) : k \in {key(own, s) : s \in S}}
  BY <1>1, <1>2, Zenon DEF weeklySummary
<1>4. \A s \in S : key(own, s) = key(db, s) /\ (written(own, s) <=> written(db, s))
  <2>1. \A s \in S : /\ AssignmentOf(own, s) = AssignmentOf(db, s)
                     /\ journalFor(own, s) = journalFor(db, s)
    BY <1>2, LeftReferences
  <2> QED  BY <2>1
<1>5. ASSUME NEW k PROVE row(own, k) = row(db, k)
  <2>1. PICK group : group = {s \in S : key(db, s) = k}
    OBVIOUS
  <2>2. group = {s \in S : key(own, s) = k}
    BY <1>4, <2>1
  <2>3. {s \in group : written(own, s)} = {s \in group : written(db, s)}
    BY <1>4, <2>1
  <2> QED  BY <2>1, <2>2, <2>3
<1>6. {key(own, s) : s \in S} = {key(db, s) : s \in S}
  BY <1>4
<1> HIDE DEF key, row
<1> QED  BY <1>3, <1>5, <1>6

\* The statement of the reports on progress and completion, part by part.
AskedFor(db, scope, f) ==
  {a \in db.assignments : /\ InScope(scope, a.trainee)
                          /\ Matches(f.trainee, a.trainee) /\ Matches(f.site, a.site)
                          /\ Matches(f.status, a.status)}
GroupKey(a) == <<a.trainee, a.site, a.required, a.status>>
GroupSessions(db, A, k) == UNION {SessionsOf(db, a) : a \in {x \in A : GroupKey(x) = k}}
HasReview(db, s) == journalFor(db, s) # NULL /\ journalFor(db, s).status = "reviewed"
GroupRow(db, A, k) ==
  LET completed == Credit(Counted(GroupSessions(db, A, k)))
      percent == ProgressPercent(completed, k[3]) IN
    [key |-> k, completed |-> completed, percent |-> percent,
     remaining |-> IF completed < k[3] THEN k[3] - completed ELSE 0,
     journals |-> Cardinality({s \in GroupSessions(db, A, k) : HasReview(db, s)}),
     state |-> IF percent >= 100 THEN "hours_complete" ELSE "in_progress"]

LEMMA CompletionGroups ==
  ASSUME NEW db, NEW scope, NEW f
  PROVE  completion(db, scope, f) =
           LET A == AskedFor(db, scope, f) IN {GroupRow(db, A, k) : k \in {GroupKey(a) : a \in A}}
BY Zenon DEF completion, AskedFor, GroupKey, GroupSessions, HasReview, GroupRow

\* Progress and completion, grouped as the statement groups them.
LEMMA CompletionOfScope ==
  ASSUME NEW db, NEW scope, NEW own, Leaves(db, scope, own), NEW f
  PROVE  completion(db, scope, f) = completion(own, NULL, f)
<1> DEFINE asked(a) == /\ Matches(f.trainee, a.trainee) /\ Matches(f.site, a.site)
                       /\ Matches(f.status, a.status)
<1>1. PICK A : A = {a \in own.assignments : asked(a)}
  OBVIOUS
<1>2. AskedFor(db, scope, f) = A /\ AskedFor(own, NULL, f) = A
  BY <1>1, NoFilterLetsAll DEF Leaves, AskedFor
<1>3. /\ completion(db, scope, f) = {GroupRow(db, A, k) : k \in {GroupKey(a) : a \in A}}
      /\ completion(own, NULL, f) = {GroupRow(own, A, k) : k \in {GroupKey(a) : a \in A}}
  BY <1>2, CompletionGroups, Zenon
<1>4. \A a \in A : SessionsOf(own, a) = SessionsOf(db, a) /\ SessionsOf(own, a) \subseteq own.sessions
  BY <1>1, LeftReferences DEF SessionsOf
<1>5. ASSUME NEW k PROVE GroupRow(own, A, k) = GroupRow(db, A, k)
  <2>1. PICK B : B = {b \in A : GroupKey(b) = k}
    OBVIOUS
  <2>2. {SessionsOf(own, a) : a \in B} = {SessionsOf(db, a) : a \in B}
    BY <1>4, <2>1
  <2>3. PICK S : S = GroupSessions(db, A, k)
    OBVIOUS
  <2>4. S = GroupSessions(own, A, k)
    BY <2>1, <2>2, <2>3 DEF GroupSessions
  <2>5. S \subseteq own.sessions
    BY <1>4, <2>1, <2>4 DEF GroupSessions
  <2>6. {s \in S : HasReview(own, s)} = {s \in S : HasReview(db, s)}
    <3>1. \A s \in S : journalFor(own, s) = journalFor(db, s)
      BY <2>5, LeftReferences
    <3> QED  BY <3>1 DEF HasReview
  <2> QED  BY <2>3, <2>4, <2>6 DEF GroupRow
<1> QED  BY <1>3, <1>5

\* The reports on journals and on exceptions.
LEMMA JournalsAndExceptionsOfScope ==
  ASSUME NEW db, NEW scope, NEW own, Leaves(db, scope, own), NEW f
  PROVE  /\ journalCompletion(db, scope, f) = journalCompletion(own, NULL, f)
         /\ exceptions(db, scope, f) = exceptions(own, NULL, f)
<1> DEFINE reported(x, c, row) == Reported(x, c, f, SessionOf(x, row))
<1>1. ASSUME NEW row \in own.journals \cup own.corrections
      PROVE  reported(db, scope, row) <=> reported(own, NULL, row)
  <2>1. SessionOf(own, row) = SessionOf(db, row) /\ SessionOf(db, row) \in own.sessions
    BY LeftReferences
  <2> QED  BY <2>1, ReportedOfScope
<1>2. ASSUME NEW row \in db.journals \cup db.corrections, reported(db, scope, row)
      PROVE  InScope(scope, row.trainee)
  <2>1. PICK s \in db.sessions : s.id = row.session /\ s.trainee = row.trainee
    BY DEF Leaves, Kept
  <2>2. SessionOf(db, row) = s
    <3>1. \A r \in db.sessions : r.id = row.session => r = s
      BY <2>1 DEF Leaves, Kept
    <3> QED  BY <2>1, <3>1 DEF SessionOf
  <2> QED  BY <1>2, <2>1, <2>2 DEF Reported
<1>3. /\ \A j : j \in own.journals <=> j \in db.journals /\ InScope(scope, j.trainee)
      /\ \A c : c \in own.corrections <=> c \in db.corrections /\ InScope(scope, c.trainee)
  BY DEF Leaves
<1>4. journalCompletion(db, scope, f) = journalCompletion(own, NULL, f)
  <2>1. /\ journalCompletion(db, scope, f)
             = {j \in db.journals : reported(db, scope, j) /\ Matches(f.status, j.status)}
        /\ journalCompletion(own, NULL, f)
             = {j \in own.journals : reported(own, NULL, j) /\ Matches(f.status, j.status)}
    BY DEF journalCompletion
  <2> HIDE DEF reported
  <2> QED  BY <1>1, <1>2, <1>3, <2>1
<1>5. {c \in db.corrections : reported(db, scope, c) /\ Matches(f.status, c.status)}
        = {c \in own.corrections : reported(own, NULL, c) /\ Matches(f.status, c.status)}
  <2> HIDE DEF reported
  <2> QED  BY <1>1, <1>2, <1>3
<1>6. exceptions(db, scope, f) = exceptions(own, NULL, f)
  <2>1. ReportSessions(db, scope, f) = ReportSessions(own, NULL, f)
    BY ReportedOfScope
  <2> QED  BY <1>5, <2>1 DEF exceptions
<1> QED  BY <1>4, <1>6

\* Every report.
LEMMA RowsOfScope ==
  ASSUME NEW db, NEW scope, NEW own, Leaves(db, scope, own), NEW f, NEW name \in Names
  PROVE  Rows(db, name, scope, f) = Rows(own, name, NULL, f)
<1>1. CASE name = "daily-attendance"
  <2>1. /\ Rows(db, name, scope, f) = AttendanceList(db, scope, f)
        /\ Rows(own, name, NULL, f) = AttendanceList(own, NULL, f)
    BY <1>1, Zenon DEF Rows
  <2> QED  BY <2>1, ListsOfScope
<1>2. CASE name = "weekly-summary"
  <2>1. name # "daily-attendance"
    BY <1>2
  <2>2. /\ Rows(db, name, scope, f) = weeklySummary(db, scope, f)
        /\ Rows(own, name, NULL, f) = weeklySummary(own, NULL, f)
    BY <1>2, <2>1, Zenon DEF Rows
  <2> QED  BY <2>2, WeeksOfScope
<1>3. CASE name \in {"student-progress", "completion"}
  <2>1. name # "daily-attendance" /\ name # "weekly-summary"
    BY <1>3
  <2>2. /\ Rows(db, name, scope, f) = completion(db, scope, f)
        /\ Rows(own, name, NULL, f) = completion(own, NULL, f)
    BY <1>3, <2>1, Zenon DEF Rows
  <2> QED  BY <2>2, CompletionOfScope
<1>4. CASE name = "journal-completion"
  <2>1. /\ name # "daily-attendance" /\ name # "weekly-summary"
        /\ name \notin {"student-progress", "completion"}
    BY <1>4
  <2>2. /\ Rows(db, name, scope, f) = journalCompletion(db, scope, f)
        /\ Rows(own, name, NULL, f) = journalCompletion(own, NULL, f)
    BY <1>4, <2>1, Zenon DEF Rows
  <2> QED  BY <2>2, JournalsAndExceptionsOfScope
<1>5. CASE name = "exceptions"
  <2>1. /\ name # "daily-attendance" /\ name # "weekly-summary"
        /\ name \notin {"student-progress", "completion"} /\ name # "journal-completion"
    BY <1>5
  <2>2. /\ Rows(db, name, scope, f) = exceptions(db, scope, f)
        /\ Rows(own, name, NULL, f) = exceptions(own, NULL, f)
    BY <1>5, <2>1, Zenon DEF Rows
  <2> QED  BY <2>2, JournalsAndExceptionsOfScope
<1> QED  BY <1>1, <1>2, <1>3, <1>4, <1>5 DEF Names

\* Whatever the tables hold and whoever asks, every list, count, queue and
\* report shows exactly the trainees in scope, and a single record is found by
\* whom the lists show it (middleware.go, ScopedTraineeIDs and
\* CanAccessTrainee): ScopeSeesExactly.
THEOREM ScopeIsExact == Spec => []ScopeSeesExactly
<1>1. InputOK => ScopeSeesExactly
  <2> SUFFICES ASSUME InputOK, input.kind = "query"
               PROVE  ScopeSeesExactly
    BY DEF ScopeSeesExactly
  <2>1. PICK db, actor : db = input.db /\ actor = input.actor
    OBVIOUS
  <2>2. Kept(db)
    BY <2>1, Kinds, ContentsAssumption DEF Queries
  <2>3. PICK scope : scope = ScopedTraineeIDs(db, actor)
    OBVIOUS
  <2>4. PICK own : own = Only(db, {t \in db.trainees : CanAccessTrainee(db, actor, t)})
    OBVIOUS
  <2>5. Leaves(db, scope, own)
    BY <2>2, <2>3, <2>4, OnlyLeaves
  <2>6. Dashboard(db, scope, Now) = Dashboard(own, NULL, Now)
    BY <2>5, DashboardOfScope
  <2>7. ASSUME NEW f \in Filters PROVE Lists(db, scope, f) = Lists(own, NULL, f)
    <3>1. \A n \in Names : Rows(db, n, scope, f) = Rows(own, n, NULL, f)
      BY <2>5, RowsOfScope
    <3>2. [n \in Names |-> Rows(db, n, scope, f)] = [n \in Names |-> Rows(own, n, NULL, f)]
      BY <3>1
    <3> QED  BY <2>5, <3>2, ListsOfScope DEF Lists
  <2>8. ASSUME NEW s \in db.sessions
        PROVE  Detail(db, actor, s.id) # {} <=> s \in own.sessions \/ s.trainee = actor.id
    <3>1. \A x \in db.sessions : x.id = s.id => x = s
      BY <2>2 DEF Kept
    <3>2. Detail(db, actor, s.id) # {} <=> MaySee(db, actor, s.trainee)
      BY <3>1 DEF Detail
    <3>3. s.trainee \in db.trainees
      BY <2>2 DEF Kept
    <3>4. InScope(scope, s.trainee) <=> CanAccessTrainee(db, actor, s.trainee)
      BY <2>2, <2>3, <3>3, FilterIsAccess
    <3> QED  BY <2>5, <3>2, <3>4 DEF MaySee, Leaves
  <2> QED  BY <2>1, <2>3, <2>4, <2>6, <2>7, <2>8 DEF ScopeSeesExactly
<1> QED  BY InputInvariance, <1>1, PTL

-------------------------------------------------------------------------------
(* Sums of credited minutes.  The library's fold is a recursive function on *)
(* the parts of a set; what it computes follows from its equation, by least *)
(* counterexamples.                                                         *)

\* A set of numbers that is not empty has a least one.
LEMMA LeastNumber ==
  ASSUME NEW T \in SUBSET Nat, T # {}
  PROVE  \E n \in T : \A m \in T : n <= m
<1>1. PICK n \in T : \A m \in T : <<m, n>> \notin OpToRel(<, Nat)
  BY WFMin, NatLessThanWellFounded, Zenon
<1>2. \A m \in T : ~(m < n)
  BY <1>1, Zenon DEF OpToRel
<1> QED  BY <1>2

\* The minutes of a session, and the function that adds them up over the parts
\* of a set, one session after another.
Minutes(s) == IF s.credited = NULL THEN 0 ELSE s.credited
First(S) == CHOOSE s \in S : TRUE
Adding(S, g) == [s \in SUBSET S |-> IF s = {} THEN 0 ELSE Minutes(First(s)) + g[s \ {First(s)}]]
Total(S) == CHOOSE g : g = Adding(S, g)

\* The library's fold is that function.
LEMMA CreditIsSum ==
  ASSUME NEW S
  PROVE  Credit(S) = Total(S)[S]
  BY Zenon DEF Credit, MapThenSumSet, MapThenFoldSet, Total, Adding, Minutes, First

\* A set without one of its elements.
LEMMA OneLess ==
  ASSUME NEW s, IsFiniteSet(s), NEW x \in s
  PROVE  /\ IsFiniteSet(s \ {x})
         /\ Cardinality(s) \in Nat /\ Cardinality(s \ {x}) \in Nat
         /\ Cardinality(s) = Cardinality(s \ {x}) + 1
<1>1. IsFiniteSet(s \ {x}) /\ Cardinality(s \ {x}) = Cardinality(s) - 1
  BY FS_RemoveElement
<1>2. Cardinality(s) \in Nat /\ Cardinality(s \ {x}) \in Nat
  BY <1>1, FS_CardinalityType
<1> QED  BY <1>1, <1>2

\* There is such a function: it is found for the parts of at most n elements,
\* for one n after another.
LEMMA SumExists ==
  ASSUME NEW S, IsFiniteSet(S), \A s \in S : Minutes(s) \in Int
  PROVE  Total(S) = Adding(S, Total(S)) /\ Total(S) \in [SUBSET S -> Int]
<1> DEFINE adds(g, s) == g[s] = IF s = {} THEN 0 ELSE Minutes(First(s)) + g[s \ {First(s)}]
           found(n) == \E g \in [SUBSET S -> Int] :
                         \A s \in SUBSET S : Cardinality(s) <= n => adds(g, s)
<1>1. \A s \in SUBSET S : IsFiniteSet(s) /\ Cardinality(s) \in Nat
  BY FS_Subset, FS_CardinalityType
<1>2. \A s \in SUBSET S : s # {} => First(s) \in s /\ Minutes(First(s)) \in Int
  BY DEF First
<1>3. found(0)
  <2>1. \A s \in SUBSET S : Cardinality(s) <= 0 => s = {}
    BY <1>1, FS_EmptySet
  <2>2. [s \in SUBSET S |-> 0] \in [SUBSET S -> Int]
    OBVIOUS
  <2>3. \A s \in SUBSET S : Cardinality(s) <= 0 => adds([r \in SUBSET S |-> 0], s)
    BY <2>1
  <2> QED  BY <2>2, <2>3
<1>4. ASSUME NEW n \in Nat, found(n) PROVE found(n + 1)
  <2>1. PICK g \in [SUBSET S -> Int] :
               \A s \in SUBSET S : Cardinality(s) <= n => adds(g, s)
    BY <1>4
  <2> DEFINE h == [s \in SUBSET S |->
                     IF Cardinality(s) <= n THEN g[s]
                     ELSE IF s = {} THEN 0 ELSE Minutes(First(s)) + g[s \ {First(s)}]]
  <2>2. h \in [SUBSET S -> Int]
    <3>1. ASSUME NEW s \in SUBSET S PROVE h[s] \in Int
      <4>1. s \ {First(s)} \in SUBSET S
        OBVIOUS
      <4> QED  BY <1>2, <4>1
    <3> QED  BY <3>1
  <2>3. ASSUME NEW s \in SUBSET S, Cardinality(s) <= n + 1 PROVE adds(h, s)
    <3>1. CASE s = {}
      <4>1. Cardinality(s) <= n
        BY <3>1, FS_EmptySet
      <4>2. g[s] = 0
        BY <2>1, <3>1, <4>1
      <4> QED  BY <3>1, <4>1, <4>2
    <3>2. CASE s # {}
      <4>1. PICK r \in SUBSET S : r = s \ {First(s)}
        OBVIOUS
      <4>2. Cardinality(r) <= n
        BY <1>1, <1>2, <2>3, <3>2, <4>1, OneLess
      <4>3. h[r] = g[r]
        BY <4>2
      <4>4. h[s] = Minutes(First(s)) + g[r]
        <5>1. CASE Cardinality(s) <= n
          <6>1. h[s] = g[s]
            BY <5>1
          <6>2. adds(g, s)
            BY <2>1, <5>1
          <6> HIDE DEF h
          <6> QED  BY <3>2, <4>1, <6>1, <6>2
        <5>2. CASE ~(Cardinality(s) <= n)
          BY <3>2, <4>1, <5>2
        <5> QED  BY <5>1, <5>2
      <4> HIDE DEF h
      <4> QED  BY <3>2, <4>1, <4>3, <4>4
    <3> QED  BY <3>1, <3>2
  <2> HIDE DEF h, adds
  <2> QED  BY <2>2, <2>3
<1> HIDE DEF found
<1>5. \A n \in Nat : found(n)
  <2> SUFFICES ASSUME NEW m \in Nat, ~found(m) PROVE FALSE
    OBVIOUS
  <2> DEFINE T == {n \in Nat : ~found(n)}
  <2>1. PICK n \in T : \A k \in T : n <= k
    <3>1. T \in SUBSET Nat /\ T # {}
      OBVIOUS
    <3> HIDE DEF T
    <3> QED  BY <3>1, LeastNumber
  <2>2. n # 0
    BY <1>3, <2>1
  <2>3. n - 1 \in Nat /\ found(n - 1)
    BY <2>1, <2>2
  <2>4. found(n - 1 + 1)
    BY <1>4, <2>3
  <2> QED  BY <2>1, <2>4
<1>6. PICK g \in [SUBSET S -> Int] :
             \A s \in SUBSET S : Cardinality(s) <= Cardinality(S) => adds(g, s)
  <2>1. found(Cardinality(S))
    BY <1>1, <1>5
  <2> QED  BY <2>1 DEF found
<1>7. g = Adding(S, g)
  <2>1. ASSUME NEW s \in SUBSET S PROVE adds(g, s)
    <3>1. Cardinality(s) <= Cardinality(S)
      BY FS_Subset
    <3> QED  BY <1>6, <3>1
  <2> QED  BY <2>1 DEF Adding
<1>8. Total(S) = Adding(S, Total(S))
  BY <1>7 DEF Total
<1>9. Total(S) \in [SUBSET S -> Int]
  <2>0. PICK f1 : f1 = Total(S)
    OBVIOUS
  <2>1. DOMAIN f1 = SUBSET S /\ \A s \in SUBSET S : adds(f1, s)
    BY <1>8, <2>0 DEF Adding
  <2> DEFINE bad(n) == \E s \in SUBSET S : Cardinality(s) = n /\ f1[s] \notin Int
             T == {n \in Nat : bad(n)}
  <2>2. ASSUME NEW n \in T, \A k \in T : n <= k PROVE FALSE
    <3>1. PICK s \in SUBSET S : Cardinality(s) = n /\ f1[s] \notin Int
      OBVIOUS
    <3>2. s # {}
      <4>1. adds(f1, s)
        BY <2>1
      <4>2. s = {} => f1[s] = 0
        BY <4>1
      <4> QED  BY <3>1, <4>2
    <3>3. PICK r \in SUBSET S : r = s \ {First(s)}
      OBVIOUS
    <3>4. Cardinality(r) \in Nat /\ Cardinality(r) < n
      BY <1>1, <1>2, <3>1, <3>2, <3>3, OneLess
    <3>5. f1[r] \in Int
      BY <2>2, <3>4
    <3>6. f1[s] = Minutes(First(s)) + f1[r]
      BY <2>1, <3>2, <3>3
    <3> QED  BY <1>2, <3>1, <3>2, <3>5, <3>6
  <2>3. T = {}
    <3>1. T \in SUBSET Nat
      OBVIOUS
    <3> HIDE DEF T
    <3> QED  BY <2>2, <3>1, LeastNumber
  <2>4. \A s \in SUBSET S : f1[s] \in Int
    BY <1>1, <2>3
  <2>5. f1 = [s \in SUBSET S |-> f1[s]]
    BY <1>8, <2>0 DEF Adding
  <2> QED  BY <2>0, <2>4, <2>5
<1> QED  BY <1>8, <1>9

\* The order of adding does not matter: any element may come last.
LEMMA AnyOrder ==
  ASSUME NEW S, IsFiniteSet(S), \A s \in S : Minutes(s) \in Int
  PROVE  \A s \in SUBSET S : \A x \in s : Total(S)[s] = Minutes(x) + Total(S)[s \ {x}]
<1>0. PICK g : g = Total(S) /\ g = Adding(S, g) /\ g \in [SUBSET S -> Int]
  BY SumExists
<1> DEFINE late(s) == \A x \in s : g[s] = Minutes(x) + g[s \ {x}]
           T == {n \in Nat : \E s \in SUBSET S : Cardinality(s) = n /\ ~late(s)}
<1>1. \A s \in SUBSET S : IsFiniteSet(s) /\ Cardinality(s) \in Nat
  BY FS_Subset, FS_CardinalityType
<1>2. \A s \in SUBSET S : s # {} => g[s] = Minutes(First(s)) + g[s \ {First(s)}]
  BY <1>0 DEF Adding
<1>3. ASSUME NEW n \in T, \A k \in T : n <= k PROVE FALSE
  <2>1. PICK s \in SUBSET S : Cardinality(s) = n /\ ~late(s)
    OBVIOUS
  <2>2. PICK x \in s : g[s] # Minutes(x) + g[s \ {x}]
    BY <2>1
  <2>3. PICK c \in s : c = First(s)
    BY <2>2 DEF First
  <2>4. g[s] = Minutes(c) + g[s \ {c}]
    BY <1>2, <2>2, <2>3
  <2>5. c # x
    BY <2>2, <2>4
  <2>6. PICK r \in SUBSET S : r = s \ {c}
    OBVIOUS
  <2>7. PICK q \in SUBSET S : q = s \ {x}
    OBVIOUS
  <2>8. late(r) /\ late(q)
    <3>1. Cardinality(r) < n /\ Cardinality(q) < n /\ Cardinality(r) \in Nat /\ Cardinality(q) \in Nat
      BY <1>1, <2>1, <2>6, <2>7, OneLess
    <3> QED  BY <1>3, <3>1
  <2>9. g[r] = Minutes(x) + g[r \ {x}] /\ g[q] = Minutes(c) + g[q \ {c}]
    BY <2>5, <2>6, <2>7, <2>8
  <2>10. PICK p \in SUBSET S : p = r \ {x} /\ p = q \ {c}
    BY <2>6, <2>7
  <2>11. Minutes(x) \in Int /\ Minutes(c) \in Int /\ g[p] \in Int /\ g[r] \in Int /\ g[q] \in Int
    BY <1>0
  <2>12. g[s] = Minutes(c) + g[r] /\ g[r] = Minutes(x) + g[p] /\ g[q] = Minutes(c) + g[p]
    BY <2>4, <2>6, <2>9, <2>10
  <2>13. g[s] = Minutes(x) + g[q]
    BY <2>11, <2>12
  <2> QED  BY <2>2, <2>7, <2>13
<1>4. T = {}
  <2>1. T \in SUBSET Nat
    OBVIOUS
  <2> HIDE DEF T
  <2> QED  BY <1>3, <2>1, LeastNumber
<1> QED  BY <1>0, <1>1, <1>4

\* The sum of a set does not depend on the set it is a part of.
LEMMA SumsAgree ==
  ASSUME NEW S, IsFiniteSet(S), \A s \in S : Minutes(s) \in Int, NEW R \in SUBSET S
  PROVE  \A s \in SUBSET R : Total(R)[s] = Total(S)[s]
<1>1. PICK g : g = Total(S) /\ g = Adding(S, g)
  BY SumExists
<1>2. PICK h : h = Total(R) /\ h = Adding(R, h)
  <2>1. IsFiniteSet(R)
    BY FS_Subset
  <2> QED  BY <2>1, SumExists
<1> DEFINE T == {n \in Nat : \E s \in SUBSET R : Cardinality(s) = n /\ h[s] # g[s]}
<1>3. \A s \in SUBSET S : IsFiniteSet(s) /\ Cardinality(s) \in Nat
  BY FS_Subset, FS_CardinalityType
<1>4. ASSUME NEW n \in T, \A k \in T : n <= k PROVE FALSE
  <2>1. PICK s \in SUBSET R : Cardinality(s) = n /\ h[s] # g[s]
    OBVIOUS
  <2>2. s \in SUBSET S
    OBVIOUS
  <2>3. h[s] = IF s = {} THEN 0 ELSE Minutes(First(s)) + h[s \ {First(s)}]
    BY <1>2 DEF Adding
  <2>4. g[s] = IF s = {} THEN 0 ELSE Minutes(First(s)) + g[s \ {First(s)}]
    BY <1>1, <2>2 DEF Adding
  <2>5. s # {}
    BY <2>1, <2>3, <2>4
  <2>6. PICK r \in SUBSET R : r = s \ {First(s)}
    OBVIOUS
  <2>7. Cardinality(r) \in Nat /\ Cardinality(r) < n
    <3>1. First(s) \in s
      BY <2>5 DEF First
    <3> QED  BY <1>3, <2>1, <2>2, <2>6, <3>1, OneLess
  <2>8. h[r] = g[r]
    BY <1>4, <2>7
  <2> QED  BY <2>1, <2>3, <2>4, <2>5, <2>6, <2>8
<1>5. T = {}
  <2>1. T \in SUBSET Nat
    OBVIOUS
  <2> HIDE DEF T
  <2> QED  BY <1>4, <2>1, LeastNumber
<1> QED  BY <1>1, <1>2, <1>3, <1>5

\* Credit(S) adds up the credited minutes of S.
LEMMA CreditAdds ==
  ASSUME NEW S, IsFiniteSet(S), \A s \in S : Minutes(s) \in Int
  PROVE  /\ Credit(S) \in Int
         /\ S = {} => Credit(S) = 0
         /\ \A x \in S : Credit(S) = Minutes(x) + Credit(S \ {x})
<1>1. PICK g : g = Total(S) /\ g = Adding(S, g) /\ g \in [SUBSET S -> Int]
  BY SumExists
<1>2. Credit(S) = g[S]
  BY <1>1, CreditIsSum
<1>3. S = {} => g[S] = 0
  BY <1>1 DEF Adding
<1>4. ASSUME NEW x \in S PROVE Credit(S) = Minutes(x) + Credit(S \ {x})
  <2>1. PICK r \in SUBSET S : r = S \ {x}
    OBVIOUS
  <2>2. g[S] = Minutes(x) + g[r]
    <3>1. \A s \in SUBSET S : \A y \in s : Total(S)[s] = Minutes(y) + Total(S)[s \ {y}]
      BY AnyOrder
    <3>2. Total(S)[S] = Minutes(x) + Total(S)[S \ {x}]
      BY <3>1
    <3> QED  BY <1>1, <2>1, <3>2
  <2>3. Total(r)[r] = Total(S)[r]
    BY SumsAgree
  <2>4. Credit(r) = g[r]
    BY <1>1, <2>3, CreditIsSum
  <2> QED  BY <1>2, <2>1, <2>2, <2>4
<1> QED  BY <1>1, <1>2, <1>3, <1>4

\* It is no less than nothing, and sessions without minutes add none.
LEMMA CreditOfPart ==
  ASSUME NEW S, IsFiniteSet(S), \A s \in S : Minutes(s) \in Nat
  PROVE  /\ Credit(S) \in Nat
         /\ \A R \in SUBSET S : (\A s \in S \ R : Minutes(s) = 0) => Credit(S) = Credit(R)
<1> DEFINE plain(s) == /\ Credit(s) \in Nat
                       /\ \A R \in SUBSET s : (\A x \in s \ R : Minutes(x) = 0) => Credit(s) = Credit(R)
           T == {n \in Nat : \E s \in SUBSET S : Cardinality(s) = n /\ ~plain(s)}
<1>1. \A s \in SUBSET S : IsFiniteSet(s) /\ Cardinality(s) \in Nat
  BY FS_Subset, FS_CardinalityType
<1>2. ASSUME NEW n \in T, \A k \in T : n <= k PROVE FALSE
  <2>1. PICK s \in SUBSET S : Cardinality(s) = n /\ ~plain(s)
    OBVIOUS
  <2>2. /\ Credit(s) \in Int
        /\ s = {} => Credit(s) = 0
        /\ \A x \in s : Credit(s) = Minutes(x) + Credit(s \ {x})
    BY <1>1, CreditAdds
  <2>3. ASSUME NEW x \in s PROVE plain(s \ {x})
    <3>1. PICK r \in SUBSET S : r = s \ {x}
      OBVIOUS
    <3>2. Cardinality(r) \in Nat /\ Cardinality(r) < n
      BY <1>1, <2>1, <3>1, OneLess
    <3> QED  BY <1>2, <3>1, <3>2
  <2>4. Credit(s) \in Nat
    <3>1. CASE s = {}
      BY <2>2, <3>1
    <3>2. CASE s # {}
      <4>1. PICK x \in s : TRUE
        BY <3>2
      <4>2. Credit(s \ {x}) \in Nat
        BY <2>3, <4>1
      <4>3. Minutes(x) \in Nat
        BY <4>1
      <4> QED  BY <2>2, <4>1, <4>2, <4>3
    <3> QED  BY <3>1, <3>2
  <2>5. ASSUME NEW R \in SUBSET s, \A x \in s \ R : Minutes(x) = 0 PROVE Credit(s) = Credit(R)
    <3>1. CASE R = s
      BY <3>1
    <3>2. CASE R # s
      <4>1. PICK x \in s : x \notin R
        BY <3>2
      <4>2. PICK r : r = s \ {x}
        OBVIOUS
      <4>3. R \in SUBSET r /\ \A y \in r \ R : Minutes(y) = 0
        BY <2>5, <4>1, <4>2
      <4>4. Credit(r) = Credit(R) /\ Credit(r) \in Nat
        BY <2>3, <4>2, <4>3
      <4>5. Credit(s) = 0 + Credit(r)
        BY <2>2, <2>5, <4>1, <4>2
      <4> QED  BY <4>4, <4>5
    <3> QED  BY <3>1, <3>2
  <2> QED  BY <2>1, <2>4, <2>5
<1>3. T = {}
  <2>1. T \in SUBSET Nat
    OBVIOUS
  <2> HIDE DEF T
  <2> QED  BY <1>2, <2>1, LeastNumber
<1>4. plain(S)
  <2> HIDE DEF plain
  <2> QED  BY <1>1, <1>3
<1> QED  BY <1>4

-------------------------------------------------------------------------------
(* Progress.                                                               *)

\* The percentage is 100 exactly when the required minutes are done, and it is
\* the whole part of the fraction in the list of trainees.
LEMMA Percentage ==
  ASSUME NEW c \in Nat, NEW r \in Nat \ {0}
  PROVE  /\ ProgressPercent(c, r) \in Nat
         /\ ProgressPercent(c, r) = 100 <=> r <= c
         /\ ProgressPercent(c, r) >= 100 <=> r <= c
         /\ (IF 100 * c < 100 * r THEN 100 * c ELSE 100 * r) \div r = ProgressPercent(c, r)
<1>1. PICK q \in Nat : q = (c * 100) \div r /\ (r <= c <=> 100 <= q)
  <2>1. c * 100 \in Nat
    OBVIOUS
  <2>2. (c * 100) \div r \in Nat /\ (100 * r <= c * 100 <=> 100 <= (c * 100) \div r)
    BY <2>1, FitsIntoQuotient
  <2>3. 100 * r <= c * 100 <=> r <= c
    OBVIOUS
  <2> QED  BY <2>2, <2>3
<1>2. (100 * r) \div r = 100
  <2>1. 100 * r \in Nat
    OBVIOUS
  <2>2. PICK k \in Nat : /\ k = (100 * r) \div r
                         /\ 100 * r <= 100 * r <=> 100 <= k
                         /\ 101 * r <= 100 * r <=> 101 <= k
    BY <2>1, FitsIntoQuotient
  <2>3. ~(101 * r <= 100 * r)
    OBVIOUS
  <2>4. 100 * r <= 100 * r
    OBVIOUS
  <2>5. 100 <= k /\ ~(101 <= k)
    BY <2>2, <2>3, <2>4
  <2> QED  BY <2>2, <2>5
<1>3. ProgressPercent(c, r) = IF q < 100 THEN q ELSE 100
  BY <1>1 DEF ProgressPercent
<1>4. (IF 100 * c < 100 * r THEN 100 * c ELSE 100 * r) \div r = ProgressPercent(c, r)
  <2>1. CASE r <= c
    BY <1>1, <1>2, <1>3, <2>1
  <2>2. CASE ~(r <= c)
    <3>1. 100 * c < 100 * r /\ 100 * c = c * 100
      BY <2>2
    <3>2. (100 * c) \div r = q
      BY <1>1, <3>1
    <3>3. q < 100
      BY <1>1, <2>2
    <3> QED  BY <1>3, <3>1, <3>2, <3>3
  <2> QED  BY <2>1, <2>2
<1> QED  BY <1>1, <1>3, <1>4

\* Days that do not count yet add nothing: the sum of all days of an assignment
\* is the sum of those that count.
LEMMA CompletedIsCredit ==
  ASSUME NEW db, Kept(db), NEW a
  PROVE  /\ CompletedMinutes(db, a) \in Nat
         /\ Credit(SessionsOf(db, a)) = CompletedMinutes(db, a)
<1>1. PICK S : S = SessionsOf(db, a)
  OBVIOUS
<1>2. S \subseteq db.sessions /\ IsFiniteSet(S)
  BY <1>1, FS_Subset DEF SessionsOf, Kept
<1>3. \A s \in S : Minutes(s) \in Nat
  BY <1>2 DEF Kept, Minutes
<1>4. Counted(S) \in SUBSET S /\ \A s \in S \ Counted(S) : Minutes(s) = 0
  BY <1>2 DEF Counted, Kept, Minutes
<1>5. Credit(S) \in Nat /\ Credit(S) = Credit(Counted(S))
  BY <1>2, <1>3, <1>4, CreditOfPart
<1> QED  BY <1>1, <1>5 DEF CompletedMinutes

\* The row of a trainee with an active assignment, and of one without.
LEMMA RowOfTrainee ==
  ASSUME NEW db, Kept(db), NEW t
  PROVE  /\ \A a \in db.assignments : a.trainee = t /\ a.status = "active" =>
              TraineeRow(db, t) =
                [trainee |-> t, assignment |-> a.id, site |-> a.site,
                 progress |-> IF 100 * CompletedMinutes(db, a) < 100 * a.required
                              THEN 100 * CompletedMinutes(db, a) ELSE 100 * a.required,
                 of |-> a.required]
         /\ (~\E a \in db.assignments : a.trainee = t /\ a.status = "active") =>
              TraineeRow(db, t).progress = NULL
<1>1. PICK A : A = {a \in db.assignments : a.trainee = t /\ a.status = "active"}
  OBVIOUS
<1>2. TraineeRow(db, t) =
        IF A = {} THEN [trainee |-> t, assignment |-> NULL, site |-> NULL,
                        progress |-> NULL, of |-> NULL]
        ELSE LET a == CHOOSE x \in A : TRUE
                 full == 100 * a.required
                 done == 100 * CompletedMinutes(db, a)
             IN [trainee |-> t, assignment |-> a.id, site |-> a.site,
                 progress |-> IF done < full THEN done ELSE full, of |-> a.required]
  BY <1>1 DEF TraineeRow
<1>3. ASSUME NEW a \in A PROVE (CHOOSE x \in A : TRUE) = a
  <2>1. \A b \in A : b = a
    BY <1>1 DEF Kept
  <2> QED  BY <2>1
<1>4. ASSUME NEW a \in db.assignments, a.trainee = t, a.status = "active"
      PROVE  TraineeRow(db, t) =
                [trainee |-> t, assignment |-> a.id, site |-> a.site,
                 progress |-> IF 100 * CompletedMinutes(db, a) < 100 * a.required
                              THEN 100 * CompletedMinutes(db, a) ELSE 100 * a.required,
                 of |-> a.required]
  <2>1. a \in A /\ A # {}
    BY <1>1, <1>4
  <2>2. (CHOOSE x \in A : TRUE) = a
    BY <1>3, <2>1
  <2> QED  BY <1>2, <2>1, <2>2
<1>5. A = {} => TraineeRow(db, t).progress = NULL
  BY <1>2
<1> QED  BY <1>1, <1>4, <1>5

\* A row tells full progress exactly when the required minutes are done.
LEMMA FullProgress ==
  ASSUME NEW db, Kept(db), NEW t, NEW row, row = TraineeRow(db, t)
  PROVE  row.progress # NULL /\ row.progress = 100 * row.of
           <=> \E a \in db.assignments : /\ a.trainee = t /\ a.status = "active"
                                         /\ a.required <= CompletedMinutes(db, a)
<1>1. CASE \E a \in db.assignments : a.trainee = t /\ a.status = "active"
  <2>1. PICK a \in db.assignments : a.trainee = t /\ a.status = "active"
    BY <1>1
  <2>2. \A b \in db.assignments : b.trainee = t /\ b.status = "active" => b = a
    BY <2>1 DEF Kept
  <2>3. PICK c \in Nat : c = CompletedMinutes(db, a)
    BY CompletedIsCredit
  <2>4. PICK r \in Nat \ {0} : r = a.required
    BY <2>1 DEF Kept
  <2>5. row.progress = (IF 100 * c < 100 * r THEN 100 * c ELSE 100 * r) /\ row.of = r
    BY <2>1, <2>3, <2>4, RowOfTrainee
  <2>6. row.progress # NULL
    BY <2>3, <2>4, <2>5, NullAssumption
  <2>7. row.progress = 100 * r <=> r <= c
    BY <2>3, <2>4, <2>5
  <2> QED  BY <2>1, <2>2, <2>3, <2>4, <2>5, <2>6, <2>7
<1>2. CASE ~\E a \in db.assignments : a.trainee = t /\ a.status = "active"
  BY <1>2, RowOfTrainee
<1> QED  BY <1>1, <1>2

\* What a trainee is shown of their assignment is about the active one.
LEMMA SeenIsActive ==
  ASSUME NEW db, Kept(db), NEW t, NEW now, NEW seen,
         seen = TraineeDashboard(db, t, now).assignment, seen # NULL
  PROVE  \E a \in db.assignments :
           /\ a.trainee = t /\ a.status = "active"
           /\ seen.id = a.id
           /\ seen.completed = CompletedMinutes(db, a)
           /\ seen.remaining = (IF CompletedMinutes(db, a) < a.required
                                THEN a.required - CompletedMinutes(db, a) ELSE 0)
           /\ seen.percent = ProgressPercent(CompletedMinutes(db, a), a.required)
<1>1. PICK today : today = LocalDate(now)
  OBVIOUS
<1>2. seen = activeAssignment(db, t, today)
  BY <1>1 DEF TraineeDashboard
<1>3. PICK a : a = activeSite(db, t, today)
  OBVIOUS
<1>4. a # NULL
  BY <1>2, <1>3 DEF activeAssignment
<1>5. PICK C : C = {x \in db.assignments :
                      x.trainee = t /\ x.status = "active" /\ CoversDay(x, today)}
  OBVIOUS
<1>6. C # {} /\ a = CHOOSE x \in C : \A b \in C : b.start <= x.start
  BY <1>3, <1>4, <1>5 DEF activeSite
<1>7. a \in C
  <2>1. PICK x \in C : TRUE
    BY <1>6
  <2>2. \A b \in C : b = x
    BY <1>5, <2>1 DEF Kept
  <2>3. x.start \in Int
    BY <1>5, <2>1 DEF Kept
  <2>4. \A b \in C : b.start <= x.start
    BY <2>2, <2>3
  <2> QED  BY <1>6, <2>1, <2>4
<1>8. a \in db.assignments /\ a.trainee = t /\ a.status = "active"
  BY <1>5, <1>7
<1>9. PICK c : c = Credit(SessionsOf(db, a))
  OBVIOUS
<1>10. seen = [id |-> a.id, completed |-> c,
               remaining |-> IF c < a.required THEN a.required - c ELSE 0,
               percent |-> ProgressPercent(c, a.required)]
  BY <1>2, <1>3, <1>4, <1>9 DEF activeAssignment
<1>11. CompletedMinutes(db, a) = c
  BY <1>9, CompletedIsCredit
<1> QED  BY <1>8, <1>10, <1>11

\* The query parameters of a request without any.
NoFilter == [from |-> NULL, to |-> NULL, trainee |-> NULL, site |-> NULL, status |-> NULL]

\* Without a filter everything is listed.
LEMMA Unfiltered ==
  ASSUME NEW db
  PROVE  /\ ListTrainees(db, NULL, NoFilter) = {TraineeRow(db, t) : t \in db.trainees}
         /\ ListAssignments(db, NULL, NoFilter) =
              {[assignment |-> a.id, completed |-> CompletedMinutes(db, a)] : a \in db.assignments}
<1>1. NoFilter.site = NULL /\ NoFilter.trainee = NULL /\ NoFilter.status = NULL
  BY DEF NoFilter
<1>2. {u \in db.trainees : InScope(NULL, u)} = db.trainees
  BY NoFilterLetsAll
<1>3. {x \in db.assignments : /\ InScope(NULL, x.trainee)
                              /\ Matches(NoFilter.trainee, x.trainee)
                              /\ Matches(NoFilter.site, x.site)
                              /\ Matches(NoFilter.status, x.status)} = db.assignments
  BY <1>1, NoFilterLetsAll DEF Matches
<1>4. ListAssignments(db, NULL, NoFilter) =
        {[assignment |-> a.id, completed |-> CompletedMinutes(db, a)] : a \in db.assignments}
  BY <1>3 DEF ListAssignments
<1>5. ListTrainees(db, NULL, NoFilter) = {TraineeRow(db, t) : t \in db.trainees}
  BY <1>1, <1>2 DEF ListTrainees
<1> QED  BY <1>4, <1>5

\* The count of completed hours is the number of rows with full progress.
LEMMA CountOfTheDone ==
  ASSUME NEW db, Kept(db), NEW now, NEW done,
         done = {r \in {TraineeRow(db, t) : t \in db.trainees} :
                   r.progress # NULL /\ r.progress = 100 * r.of}
  PROVE  Metrics(db, NULL, now).CompletedHours = Cardinality(done)
<1> DEFINE H == {a \in db.assignments : /\ a.status = "active"
                                        /\ a.required <= CompletedMinutes(db, a)}
           f == [a \in H |-> TraineeRow(db, a.trainee)]
<1>1. Metrics(db, NULL, now).CompletedHours = Cardinality(H)
  <2>1. ASSUME NEW a \in db.assignments
        PROVE  100 * CompletedMinutes(db, a) >= 100 * a.required
                 <=> a.required <= CompletedMinutes(db, a)
    <3>1. CompletedMinutes(db, a) \in Nat /\ a.required \in Nat
      BY CompletedIsCredit DEF Kept
    <3> QED  BY <3>1
  <2>2. {a \in {x \in db.assignments : x.status = "active" /\ InScope(NULL, x.trainee)} :
           100 * CompletedMinutes(db, a) >= 100 * a.required} = H
    BY <2>1, NoFilterLetsAll
  <2> HIDE DEF H
  <2> QED  BY <2>2 DEF Metrics
<1>2. IsFiniteSet(H)
  BY FS_Subset DEF Kept
<1>3. ASSUME NEW a \in H PROVE f[a] \in done /\ f[a].trainee = a.trainee
  <2>1. a.trainee \in db.trainees
    BY DEF Kept
  <2>2. PICK row : row = TraineeRow(db, a.trainee)
    OBVIOUS
  <2>3. row.progress # NULL /\ row.progress = 100 * row.of
    BY <2>2, FullProgress
  <2>4. row.trainee = a.trainee
    BY <2>2, RowOfTrainee
  <2> QED  BY <2>1, <2>2, <2>3, <2>4
<1>4. ASSUME NEW r \in done PROVE \E a \in H : f[a] = r
  <2>1. PICK t \in db.trainees : r = TraineeRow(db, t)
    OBVIOUS
  <2>2. PICK a \in db.assignments : /\ a.trainee = t /\ a.status = "active"
                                    /\ a.required <= CompletedMinutes(db, a)
    BY <2>1, FullProgress
  <2> QED  BY <2>1, <2>2
<1>5. \A a, b \in H : f[a] = f[b] => a = b
  <2>1. \A a, b \in H : a.trainee = b.trainee => a = b
    BY DEF Kept
  <2> HIDE DEF H, f
  <2> QED  BY <1>3, <2>1
<1>6. f \in Bijection(H, done)
  <2>1. f \in [H -> done]
    BY <1>3
  <2> HIDE DEF H, f
  <2> QED  BY <1>4, <1>5, <2>1 DEF Bijection, Injection, Surjection, IsInjective
<1> HIDE DEF H, f
<1>7. Cardinality(done) = Cardinality(H)
  <2>1. ExistsBijection(H, done)
    BY <1>6 DEF ExistsBijection
  <2> QED  BY <1>2, <2>1, FS_Bijection
<1> QED  BY <1>1, <1>7

\* A row of the completion report under the key of an active assignment is of
\* that assignment alone.
LEMMA ReportOfActive ==
  ASSUME NEW db, Kept(db), NEW a \in db.assignments, a.status = "active",
         NEW r \in completion(db, NULL, NoFilter),
         r.key = <<a.trainee, a.site, a.required, "active">>
  PROVE  /\ r.completed = CompletedMinutes(db, a)
         /\ r.percent = ProgressPercent(CompletedMinutes(db, a), a.required)
         /\ r.state = IF r.percent >= 100 THEN "hours_complete" ELSE "in_progress"
<1>0. PICK A : A = db.assignments
  OBVIOUS
<1>1. NoFilter.site = NULL /\ NoFilter.trainee = NULL /\ NoFilter.status = NULL
  BY DEF NoFilter
<1>2. AskedFor(db, NULL, NoFilter) = A
  BY <1>0, <1>1, NoFilterLetsAll DEF Matches, AskedFor
<1>3. completion(db, NULL, NoFilter) = {GroupRow(db, A, k) : k \in {GroupKey(x) : x \in A}}
  BY <1>2, CompletionGroups, Zenon
<1>4. PICK k : k = r.key /\ r = GroupRow(db, A, k)
  <2>1. \A k : GroupRow(db, A, k).key = k
    BY DEF GroupRow
  <2> QED  BY <1>3, <2>1
<1>5. k = GroupKey(a) /\ k[3] = a.required
  BY <1>4 DEF GroupKey
<1>6. {y \in A : GroupKey(y) = k} = {a}
  <2>1. \A y \in db.assignments : GroupKey(y) = k => y.trainee = a.trainee /\ y.status = "active"
    BY <1>5 DEF GroupKey
  <2>2. \A y \in db.assignments : GroupKey(y) = k => y = a
    BY <2>1 DEF Kept
  <2> QED  BY <1>0, <1>5, <2>2
<1>7. GroupSessions(db, A, k) = SessionsOf(db, a)
  BY <1>6 DEF GroupSessions
<1>8. Credit(Counted(GroupSessions(db, A, k))) = CompletedMinutes(db, a)
  BY <1>7 DEF CompletedMinutes
<1>9. /\ r.completed = Credit(Counted(GroupSessions(db, A, k)))
      /\ r.percent = ProgressPercent(Credit(Counted(GroupSessions(db, A, k))), k[3])
      /\ r.state = IF r.percent >= 100 THEN "hours_complete" ELSE "in_progress"
  BY <1>4 DEF GroupRow
<1> QED  BY <1>5, <1>8, <1>9

\* Whatever the tables hold, the progress of an assignment is told alike in all
\* the places that compute it (monitoring.go:141): ProgressAgrees.
THEOREM ProgressIsOne == Spec => []ProgressAgrees
<1>1. InputOK => ProgressAgrees
  <2> SUFFICES ASSUME InputOK, input.kind = "query"
               PROVE  ProgressAgrees
    BY DEF ProgressAgrees
  <2>1. PICK db : db = input.db
    OBVIOUS
  <2>2. Kept(db)
    BY <2>1, Kinds, ContentsAssumption DEF Queries
  <2>3. PICK done : done = {r \in ListTrainees(db, NULL, NoFilter) :
                              r.progress # NULL /\ r.progress = 100 * r.of}
    OBVIOUS
  <2>4. done = {r \in {TraineeRow(db, t) : t \in db.trainees} :
                  r.progress # NULL /\ r.progress = 100 * r.of}
    BY <2>3, Unfiltered
  <2>5. Metrics(db, NULL, Now).CompletedHours = Cardinality(done)
    BY <2>2, <2>4, CountOfTheDone
  <2>6. ASSUME NEW t \in db.trainees, NEW seen, NEW row,
               seen = TraineeDashboard(db, t, Now).assignment, row = TraineeRow(db, t),
               seen # NULL
        PROVE  /\ [assignment |-> seen.id, completed |-> seen.completed]
                    \in ListAssignments(db, NULL, NoFilter)
               /\ row.assignment = seen.id /\ row.progress \div row.of = seen.percent
               /\ seen.percent = 100 <=> row \in done
               /\ seen.remaining = 0 <=> row \in done
               /\ \A r \in completion(db, NULL, NoFilter) :
                    r.key = <<t, row.site, row.of, "active">> =>
                      /\ r.completed = seen.completed /\ r.percent = seen.percent
                      /\ r.state = "hours_complete" <=> row \in done
    <3>1. PICK a \in db.assignments :
             /\ a.trainee = t /\ a.status = "active"
             /\ seen.id = a.id
             /\ seen.completed = CompletedMinutes(db, a)
             /\ seen.remaining = (IF CompletedMinutes(db, a) < a.required
                                  THEN a.required - CompletedMinutes(db, a) ELSE 0)
             /\ seen.percent = ProgressPercent(CompletedMinutes(db, a), a.required)
      BY <2>2, <2>6, SeenIsActive
    <3>2. PICK c \in Nat : c = CompletedMinutes(db, a)
      BY <2>2, CompletedIsCredit
    <3>3. PICK n \in Nat \ {0} : n = a.required
      BY <2>2 DEF Kept
    <3>4. row = [trainee |-> t, assignment |-> a.id, site |-> a.site,
                 progress |-> IF 100 * c < 100 * n THEN 100 * c ELSE 100 * n, of |-> n]
      BY <2>2, <2>6, <3>1, <3>2, <3>3, RowOfTrainee
    <3>5. row \in done <=> n <= c
      <4>1. \A b \in db.assignments : b.trainee = t /\ b.status = "active" => b = a
        BY <2>2, <3>1 DEF Kept
      <4>2. row \in done <=> row.progress # NULL /\ row.progress = 100 * row.of
        BY <2>4, <2>6
      <4>3. row.progress # NULL /\ row.progress = 100 * row.of
              <=> \E b \in db.assignments : /\ b.trainee = t /\ b.status = "active"
                                            /\ b.required <= CompletedMinutes(db, b)
        BY <2>2, <2>6, FullProgress
      <4> QED  BY <3>1, <3>2, <3>3, <4>1, <4>2, <4>3
    <3>6. /\ seen.percent = 100 <=> n <= c
          /\ seen.percent >= 100 <=> n <= c
          /\ row.progress \div row.of = seen.percent
      <4>1. seen.percent = ProgressPercent(c, n)
        BY <3>1, <3>2, <3>3
      <4>2. /\ ProgressPercent(c, n) = 100 <=> n <= c
            /\ ProgressPercent(c, n) >= 100 <=> n <= c
            /\ (IF 100 * c < 100 * n THEN 100 * c ELSE 100 * n) \div n = ProgressPercent(c, n)
        BY Percentage
      <4>3. /\ row.progress = IF 100 * c < 100 * n THEN 100 * c ELSE 100 * n
            /\ row.of = n
        BY <3>4
      <4> QED  BY <4>1, <4>2, <4>3
    <3>7. seen.remaining = 0 <=> n <= c
      BY <3>1, <3>2, <3>3
    <3>8. [assignment |-> seen.id, completed |-> seen.completed]
             \in ListAssignments(db, NULL, NoFilter)
      BY <3>1, Unfiltered
    <3>9. ASSUME NEW r \in completion(db, NULL, NoFilter),
                 r.key = <<t, row.site, row.of, "active">>
          PROVE  /\ r.completed = seen.completed /\ r.percent = seen.percent
                 /\ r.state = "hours_complete" <=> row \in done
      <4>1. row.site = a.site /\ row.of = a.required
        BY <3>3, <3>4
      <4>2. r.key = <<a.trainee, a.site, a.required, "active">>
        BY <3>1, <3>9, <4>1
      <4>3. /\ r.completed = CompletedMinutes(db, a)
            /\ r.percent = ProgressPercent(CompletedMinutes(db, a), a.required)
            /\ r.state = IF r.percent >= 100 THEN "hours_complete" ELSE "in_progress"
        BY <2>2, <3>1, <4>2, ReportOfActive
      <4>4. r.completed = seen.completed /\ r.percent = seen.percent
        BY <3>1, <4>3
      <4> QED  BY <3>5, <3>6, <4>3, <4>4
    <3>10. row.assignment = seen.id
      BY <3>1, <3>4
    <3> QED  BY <3>5, <3>6, <3>7, <3>8, <3>9, <3>10
  <2> QED  BY <2>1, <2>3, <2>5, <2>6 DEF ProgressAgrees, NoFilter
<1> QED  BY InputInvariance, <1>1, PTL

================================================================================
