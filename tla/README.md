# Verification of the OJT attendance and journal system

TLA+ models of the backend of this repository, the TLC runs that check them and
the TLAPS proofs about them. The code under `src/backend` is the reference: every
definition of a model names the lines it stands for (`PROJECT.json`, "map").

## 1. Inventory

A Go API (`src/backend`, Fiber and pgx) over PostgreSQL and an S3 object store, and
a React client (`src/frontend`). The server holds almost no state of its own: what
can go wrong happens between the statements of handlers that run concurrently
against one database at isolation READ COMMITTED, and between the database and the
object store.

| Component | State | Operations | Hard because |
|---|---|---|---|
| attendance write service (`internal/attendance/service.go`) | `attendance_sessions`, `attendance_evidence` | Time In, Time Out | concurrent duplicates, retries after lost answers, unlocked reads before the transaction, crash before COMMIT |
| attendance rules (`hours.go`, `date.go`, `geofence.go`) | none | credited minutes, local date, verdict | boundaries |
| evidence storage (`evidence_service.go`, `storage/s3.go`) | objects | store two objects, clean up | no transaction spans store and database |
| corrections (`internal/corrections`) | `correction_requests`, `attendance_adjustments` | request, decide | same session row as Time Out, two decisions at once |
| journals (`internal/journals`) | `daily_journals`, `journal_evidence`, `journal_reviews` | automatic draft, save, submit, review, images | state machine under a row lock, cap counted outside it |
| notifications, reminders | `notifications` | create once per event key, mark read, periodic reminders | overlapping runs, write skew of the milestone |
| users, trainees, auth | `users`, `user_sessions` | login, resolve, CSRF, profile, password, PATCH, reset, deactivate | what a call read of the account is used after another call changed it |
| enrolment: trainee creation and import, scopes | `trainee_profiles`, `coordinator_scopes`, staged batches in memory | create, stage, commit once, replace a scope list | unique keys met inside transactions, a token consumed before the commit, DELETE and INSERT without a lock |
| assignments, sites, settings | their tables | create, PATCH | read-modify-write without locks, one active assignment |
| reads: trainee dashboard, history, lists, monitoring, reports | none | queries | one quantity computed by many queries, empty scope against no scope |
| rate limiter | token buckets in memory | allow | eviction |
| migrator | `schema_migrations` | up, down | crash, two servers |
| audit, image processing, configuration, logging | append-only rows, none | - | - |
| frontend | one client action per capture, CSRF token | capture, submit, retry | retry with the same id |

How they interact: Time Out and an approved correction write the same session row,
both create the journal of the day and both test the completion milestone inside
their transaction; both read the assignment's break rule, which staff may change at
any moment; the client sends a call again, with the same `client_action_id`, when
it did not hear the answer. Deactivation and password resets reach into the sessions
of `auth`; scopes filter every query of the staff; reminders, decisions, reviews and
the milestone meet in one unique index of `notifications`.

What makes each correct is listed per component in section 3, and the hazards of
`PROJECT.json` say where it could go wrong and which property would notice.

## 2. Layout

| Layer | Modules |
|---|---|
| pure rules and queries | `AttendanceRules`, `Reads` (EXTENDS it), checked by `RulesCheck`, instantiated by `MCRules` |
| the attendance day | `Attendance` (EXTENDS `AttendanceRules`), `Corrections` (EXTENDS `Attendance`), which implements `DayBook`; `MCAttendance`, `MCMilestone`, `MCCorrections` |
| the journal | `Journal`, which implements `JournalLife`; `MCJournal` |
| records | `Accounts`, `Enrolment`, `Directory` |
| services | `RateLimiter`, which implements `TokenBuckets`; `Migrations`, `EvidenceStore`, `Reminders` |
| their instance | `MCAdministration` composes the records and the services |
| proofs | `Attendance_proofs`, `Corrections_proofs` (EXTENDS it), `Journal_proofs`, `Services_proofs`, `Records_proofs` (about `Accounts` and `Directory`), `Enrolment_proofs`, `Administration_proofs` (EXTENDS the last three and `MCAdministration`), `Rules_proofs` (about `RulesCheck`) |

Modules about which something is proved declare no RECURSIVE operator; sums are
folds of the community modules or cardinalities.

What would come next: what still holds of a scope list although a finding is about it,
and more than one assignment of a trainee in `Attendance`.

## 3. Modules

### AttendanceRules

Instants are integers of ticks; `TicksPerMinute`, `TicksPerDay` and `TZOffset` are
parameters. `LocalDate` is the day of the shifted instant (a fixed offset: daylight
saving changes are not modelled). `Elapsed`, `Deducted` and `CreditedMinutes` are
`hours.go`; Go truncates the float minutes toward zero and clamps negatives, which
for the difference of two instants is the integer quotient. `EvaluateLocation` is the verdict of
`geofence.go` on a fix whose distance to the site is an input: Haversine is
numerical and stays outside. `strconv.ParseFloat` reads "NaN" and "Inf" as numbers, and
`parseFloatField` passes them on: a NaN coordinate is in bounds, since every comparison
with it is false, and its distance is NaN, which is not `Outside`; an accuracy that is NaN
or infinite is not `AccuracyOK`. `AccuracyStorable` is the CHECK of the evidence on the
accuracy, `Encodable` whether JSON has the numbers of the fix.

`RulesCheck` has one variable, an input, and steps to every input up to the bounds:
an interval with a break rule, a fix, or a content of the tables, which a user then
queries.

### Reads

Every query of the staff and of trainees is an operator on `db`, a record of the sets
of rows that the tables hold. The operators have the names of the functions
(`ScopedTraineeIDs`, `CanAccessTrainee`, `activeSite`, `nextAction`, `Metrics`,
`weeklySummary`, ...). A scope is NULL (the code's nil: no filter) or a set of
trainees, possibly empty. Progress is kept as a fraction, so that rounding cannot hide
a difference. `Queue` is the set of answers that `ORDER BY ... LIMIT` may give.
A query is taken to see one snapshot; the dashboards, which
run several, see the same one in all: what they show while the tables move is not
modelled. Search words, paging, names and formats are left out.

`RulesCheck` states of them: a staff member is shown exactly what an admin would be
shown if the trainees of the scope were all there are (`ScopeSeesExactly`, over all
lists, counts, queues and reports at once); the progress of an assignment is the same
in the five places that compute it (`ProgressAgrees`); every trainee expected or
present is counted once (`EveryoneExpectedIsCounted`); and the action a trainee is
offered is one that Time In, Time Out or the journal would accept
(`NextActionIsAccepted`). The contents are those that `Attendance` and `Corrections`
leave: a session belongs to an assignment of its trainee, a closed day has a journal.
`Kept` is what the queries rest on: unique ids, references that resolve to a row of the
same trainee, one active assignment of a trainee, a positive number of required minutes,
and no minutes on a day that does not count yet. The keys, CHECK constraints and indexes
of the migrations keep most of it; that rows agree on the trainee is how the services
insert them, and that an open day has no minutes follows from `CreditIsComputed` and
`OpenHasNoOut` (section 5).

### Attendance

A call is a process named by an element of `Requests`. Its locals are the record
`call[r]`, whose `pc` is the next database round trip:

| pc | Time In | Time Out |
|---|---|---|
| (start) | `TimeInStart`: fix `now`, read the assignment, 403 | `TimeOutStart`: unlocked lookup, 404 |
| `replay` | `TimeInReplay`: replay lookup, 422, 503 | `TimeOutReplay`: replay lookup, 409 on the status read at the start |
| `prepare` | - | `TimeOutPrepare`: read the break rule, fix `now`, 422, 503 |
| `tx` | `TimeInTx`: both INSERTs and COMMIT | `TimeOutTx`: row lock, second look, evidence, update, milestone |
| `commit` | - | `TimeOutCommit`: what the open transaction wrote becomes visible |
| `recheck` | `TimeInRecheck` after a client-action violation | `TimeOutRecheck` |

The transaction of Time In touches only rows it inserts, so it is one step. That of
Time Out sums rows it has not locked, so the statements (`TimeOutTx`) and the
COMMIT (`TimeOutCommit`) are two steps: between them its row is in `locked` and its
uncommitted client action makes an INSERT of the same one wait (`KeyHeld`).
A unique index is a guard over the committed rows (`DateTaken`, `KeyTaken`); the
order of the INSERTs decides which one speaks first. `Crash` ends a call at any
point before its COMMIT; a committed answer may be lost (code `lost`). The ids of
inserted rows are the names of the calls that insert them. `AssignmentUpdate` is
every change of the assignment that the handlers can see: whether it covers today,
its break rule, its required minutes. A trainee has one assignment in the model.

The evidence INSERT comes after that of the session and after the lock of a Time Out, and
its CHECK is tested before its unique index: a negative accuracy (`~AccuracyStorable`) ends
in a 500 and rolls everything back. An answer that would show NaN or an infinite number is
a 500 too (`Shown`), but after its COMMIT: the day is recorded, and every replay of it fails
in the same way.

### Corrections

`RequestValidate` and `RequestInsert` are the two round trips of `Request`;
`DecideReject`, and `DecideApproveTx` followed by `DecideCommit` or `DecideAbort`,
are `Decide`. The pending index is `PendingTaken`; an INSERT waits while the row it
collides with is being decided. `Projection` is the effective projection the
approval computes, `Corrected` the row it leaves. Any combination of proposed times
is a legal request: the types `gps_issue` and `other` need none. The new status is
"corrected" whatever it was: the branch for flagged days assigns the same (finding 6).

`SerialNext` is not the code: it is `CNext` restricted to what the completion milestone
would need (finding 2), transactions of one trainee that do not overlap and required hours
that stay as they are.

### DayBook

What the attendance record promises its readers: a book with a page for every day of a
trainee, in which a Time In, a Time Out, a request, a rejection and an approval are each
one step. There are no calls, retries, locks, transactions or crashes in it. `TimeOut` and
`Approve` compute from what the page says at that moment; the instant of an entry has
passed, the credit is that of the hours rule under some rule, and a page has a diary entry
(the journal) as soon as it has a time out. `ImplementsBook` says that `Corrections` keeps
it with `book <- TheBook` (`PageOf` of every session row: its stamps, its effective
projection, and whether it is open, closed or corrected), `diary <- journals`,
`petitions <- corrections` and the same `announced`. A Time In is its single transaction,
every other entry its COMMIT; all else stutters.

### Journal

One journal: two journals share no row and no object. A transaction that takes the
row `FOR UPDATE` is two steps: `...Lock` waits for the row and tests the status,
`Commit` writes (`SubmitWrites`, `ReviewWrites`, `AddWrites`, `DeleteWrites`) and
releases it. `SaveDraft` is one UPDATE. An upload counts (`AddCount`), stores the
object (`AddPut`), inserts the row, and on any error removes the object
(`AddCleanup`); a deletion removes the row and then the object (`DeleteDrop`).
`CommitUnheard` is a COMMIT that took place although the server was told it failed
or was told nothing, `Rollback` one that did not, `Crash` the end of a call at any
point; every call to the store may fail, and a failed Put may have stored. The
journal starts as the draft that Time Out or an approval creates. Which user may
touch which journal (`authorize`) is `MaySee` of `Reads`.

`JournalLife` is the promise: edit while open, hand in a long enough text, judge
once what was handed in, nothing after "reviewed". `ImplementsLife` says that
`Journal` keeps it with `state <- status`, `text <- narrative`, `pictures <- images`,
`verdicts <- reviews`.

### Accounts

One `users` row, its `user_sessions` and the calls that touch them. Few of these run
in one transaction, so a call is a record of what it read (`request[r]`) and the
statement it is at. `LoginRead`, `LoginRehash` and `LoginCreate` are the round trips of
a login; `Resolve` is `RequireAuth` with `CSRFProtect`, and leaves the owner's calls at
`resolved`. `PatchRead` merges the given fields into what it read; `PatchWrite` is the
UPDATE inside the transaction, which holds the row (`rowHolder`) and marks the sessions
it revokes, `PatchCommit` makes it visible. Trainees and coordinators share the module:
a coordinator's PATCH has no e-mail. Revoked and expired sessions are one state, over.
Two history variables make the properties possible: `asked` is each column as the last
request wanted it, `overlapped` says that some call has written back a column which
changed since it read it. Sequential calls must lose nothing; of overlapping ones the
code promises nothing, and the property says no more.

### Enrolment

Creation of a trainee by hand and by the CSV import are one transaction shape: users,
profile and scope row, person by person (`InsertUser`, `InsertProfile`), with its
uncommitted rows in `task[w]`; an INSERT whose key another open transaction has
inserted waits, one whose key is committed can only roll back. `ImportValidate` stages
the valid rows of a file (the lookups of existing rows may fail, which the code
ignores), `Take` removes the batch whatever becomes of it, `Restart` empties the memory
and rolls back. `SetTraineeScope` is DELETE (rows as of its start, minus those gone),
INSERT and COMMIT.

### Directory

Assignments of one trainee, sites and settings: one PATCH shape, `MergePatch` (read,
merge, validate) and `Store` (write every column), with the validation of each table in
`Accepts`, its CHECK constraints in `Checks` and the partial unique index in
`ActiveTaken`. `NumbersFit` is the width of the integer columns (`Amounts` are what a
call may give, `Widest` what a column holds; the minutes of a break rule are too wide in
the rule `beyond_integer`), `SiteResolves` the reference of an assignment to its site,
which a creation looks up and a PATCH only parses. `Refuse` is the 409 or 500. `wanted`
and `clobbered` are to `rows` what `asked` and `overlapped` are to an account. Each call
is made once.

### RateLimiter and TokenBuckets

`TokenBuckets` keeps a bucket for every client for ever and refills all of them at
every tick. `RateLimiter` is the code: entries are created on demand, refilled when
asked, and evicted when there are more than `MaxEntries` and they have been idle for
four windows. `ImplementsBuckets` maps a client without entry to a full bucket.
The refill arithmetic of `golang.org/x/time/rate` is modelled from its use, in integer
ticks; the code's floats are not.

### Migrations, EvidenceStore, Reminders

`Migrations`: several processes run Up or Down; each migration with its record is one
transaction (`UpApply`, `DownApply`), computed from a read that may be stale. A down
file fails while another table refers to its tables.

`EvidenceStore`: every send of a client action uploads two photos under keys of its
own, at most one commits its row, and the others clean up; requests to the store fail
before or after taking effect, a COMMIT may not be heard of, the server may die. The
header comment of `evidence_service.go` says the bucket "never orphans": the property
states the part that holds, that photos without a row come only from a failed request
or a death; and a row whose COMMIT was not heard of loses its photos to the cleanup.

`Reminders`: overlapping runs select what is due kind by kind and insert under the
unique index. What is due is arbitrary and changes at any time, so nothing rests on the
three queries' conditions. `counted` is what each run reported.

### MCAdministration

Instantiates the seven modules above. They share no table whose changes matter to
another (what they share with `Attendance`, `Corrections` and `Reads` is an arbitrary
update there), so in one behaviour one of them moves and the others stay as they are: the
run explores the union of seven state spaces, not their product, and says nothing of
them interleaved.

Definitions marked as slips (`...Unchecked`, `...AsSeen` and so on) are not part of
any specification: each is a plausible bug of one definition, and a property is kept
only if TLC finds it violated with that bug in place (`PROJECT.json`, "mutants").

## 4. Runs

| Run | Instance | Shows |
|---|---|---|
| `rules` | instants 0..12, two ticks a minute, five a day, offset 3; thresholds and minutes up to 7; accuracies -1, 0, 50, 51, NaN and none; distances 0, 100, 101 and NaN; two trainees with up to two assignments, two days, journals and corrections each, three users, four filters | the rules equal their reference definitions, the queries agree |
| `attendance` | 3 calls, 1 trainee, 3 client actions, 4 instants over 3 local dates, 3 fixes (weak, a NaN coordinate, a negative accuracy) | the safety of Time In and Time Out |
| `corrections` | 2 calls, 2 requests, 1 trainee, a break rule, 3 instants | decisions interleaved with the day they change; `Corrections` implements `DayBook` |
| `corrections_live` | 2 calls, 1 request, 2 instants, a fix without coordinates, 2 break rules | a call returns although rows are held and approvals roll back again and again; the credit is that of a rule the assignment had |
| `journal` | 3 calls, 4 images under a cap of 1, 3 narratives, 2 reviews | the journal keeps its promise, its records agree, rows have objects |
| `administration` | 2 calls at a time; 2 sessions, 2 e-mails, 2 passwords, 2 CSRF tokens; 2 uploads of 2 files, a third applicant, 1 coordinator; 2 assignments, 2 sites, PATCHes of one field; 2 clients, a burst of 2, a clock of 15; 3 migrations, 3 runs; 2 sends; 3 events, 2 runs | accounts, enrolment, records and services |
| `duplicate_time_in` | 3 calls, 1 trainee | finding 1 |
| `milestone_skew` | 4 calls, two days already open | finding 2 |
| `left_open_day` | 2 calls, 2 requests | finding 3 |
| `journal_cap` | 2 calls, 2 images under a cap of 1 | finding 4 |
| `scope_union` | 2 replacements of one list, the enrolment part of `administration` | finding 5 |
| `flagged_marker` | 2 calls, 1 request, a day whose length is unusual | finding 6 |

Bounds. Races of these handlers are between two calls about one row, one date or one
client action; a third call adds the observer or the retry. A Time In and two Time
Outs of its day that race each other need three calls and three client actions.
Trainees meet in two guards only (`findReplay`, `DateTaken`), both restricted to one
trainee: the runs have one, the theorems any number. Four instants give equal,
adjacent and distant times, and with two ticks a day local midnights between them;
minute-level arithmetic is left to `rules`. A cap of one image stands for the cap of
five: two uploads that count below it pass it in either case, and four images let
three of them. Two reviews are a request for changes and what follows it. Two requests
give a decided one and one filed after it, or two that race. The break rule changes under
a Time Out or an approval in `corrections_live`, where one of the two rules takes off the
one minute there is. `milestone_skew` starts from a state that
`Spec` reaches (two days timed in, neither timed out), to spare the steps before it;
its four calls are the two Time Ins and the two Time Outs. In `administration` a PATCH
gives one field, so that a second PATCH can always lose it; two uploads meet a store
limit of one, so that eviction happens; a file has a repeated e-mail and an unreadable
row; the clock of 15 is longer than four windows and a refill; three migrations are one
that two others refer to, with three runs so that a Down, an Up and a stale Up meet.

Fairness. A handler that has started is scheduled and its statements return: weak
fairness of `Handler(r)`, of `RequestInsert` and of `DecideCommit`, in `CFairSpec`
only; no other property needs fairness. Nothing obliges clients, staff or the clock.
`TimeOutTx` and `RequestInsert` have strong fairness: PostgreSQL queues the waiters of a
row, so a waiter cannot be passed over forever by approvals that take the row, roll back
and take it again; under weak fairness alone TLC finds exactly that starvation.

Deadlock is checked in the runs of `Attendance` and `Corrections`. It is not in `rules`
(an input has no successor), in those of `Journal` (a reviewed journal is final) and in
`administration` (once its tokens, calls or clock are used up, a part may stop).

### Findings

1. `duplicate_time_in`: the comment at `attendance/service.go:315` promises the
   canonical session to a concurrent duplicate, but the session is inserted before
   the evidence, so the date index answers first and the duplicate is told 409.
2. `milestone_skew`: two transactions that credit different days of one trainee do
   not see each other's minutes; when only their sum reaches the requirement nobody
   announces it (`notifications.go:28-31`), until some later recalculation. The overlap is
   the only reason a recalculation misses it: the theorem `SerialMilestone` shows that the
   notification is never missed when transactions of one trainee follow one another and
   the required hours stay.
3. `left_open_day`: a request without a proposed time out, approved on an open day,
   leaves a `corrected` day without time out, credit and journal, to which Time Out
   then answers 409 (`attendance/service.go:474-475`, `corrections/service.go:347`).
4. `journal_cap`: the images of a journal are counted outside the transaction that
   inserts the next, so concurrent uploads exceed the cap of `journals/service.go:25`,
   by less than the number of calls in flight (`CapOverrunIsBounded`).
5. `scope_union`: `SetTraineeScope` "replaces a coordinator's scope list atomically"
   (`users.go:157`), but neither of two overlapping calls sees the rows the other is
   about to commit, and the coordinator keeps both lists.
6. `flagged_marker`: the comment at `corrections/service.go:320` keeps "a flagged marker
   if the session was flagged", but both branches set the status to `corrected`, so an
   approval takes `flagged` from the day; `flag_codes` stay. A contract test
   (`monitoring_test.go:89`: "corrected attendance must not stay in recent_flags") agrees
   with the code and not with the comment. `DecisionLeavesItsRecord` describes the code.

### Observations without a run

- `service.go:8` says that weak GPS is "stored and flagged, never dropped". A negative
  accuracy is flagged `low_accuracy` by `geofence.go`, but fails the CHECK of migration
  000005 on its way into `attendance_evidence`: the call ends in a 500 and no day is
  recorded. The model has this outcome; `FlagsTellTheEvidence` is about what is stored.
- A coordinate sent as "NaN" is parsed, is not out of bounds and is not farther than the
  radius: `geofence.go:64` makes it `verified` without a flag if its accuracy is good.
  `VerdictFollowsTheFix` states that outcome. A NaN or infinite number is then stored, and
  every answer that shows it is a 500.
- A PATCH with the id of no site, or with minutes or metres that no `integer` holds, passes
  validation (`assignments.go:363`, `sites.go:49`, `settings.go:89`) and ends in a 500.
  `TablesRefuseOnlyWhatIsGiven` says that this befalls only the call that gave the value.
- The statements of the reports `student-progress` and `completion` (`reports.go:172-188`,
  `293-310`) mention `$1`, `$4`, `$5` and `$6` of six arguments. PostgreSQL cannot determine
  the type of `$2` and refuses both, whatever the filters; `Rows` of `Reads` is what they
  would show.
- An upload whose COMMIT took place but was not heard of deletes the object of a row that
  stays (`unheard` in `ImageHasItsObject`).

Four properties leave out the race their hazard starts from, because the code loses it and
no comment says otherwise: a PATCH that writes back a column which changed since it read it
(`EditsAreLostOnlyByOverlap`, `PatchesAreLostOnlyByOverlap`), a login that creates its
session after the revocation it overlapped (`SignOutReachesEverySession`), and the COMMIT
above. They say that nothing else is lost.

## 5. Proofs

`Attendance_proofs` proves, for any sets of calls, trainees, client actions, fixes,
rules and requirements and any clock bound, under the named assumptions of the
modules (`NullAssumption`, `RowAssumption`: NULL is no integer and no row;
`ClockAssumption`, `ThresholdAssumption`: positive lengths and thresholds;
`NaNAssumption`: NaN is neither a number of metres nor NULL; `InputAssumption`: inputs have
their types):

| Theorem | Statement |
|---|---|
| `Invariance` | `Spec => []IInv` |
| `TypeCorrect` | `Spec => []TypeOK` |
| `OneSession` | `Spec => []OneSessionPerDay` |
| `Idempotency` | `Spec => []IdempotentReplies` |
| `LocksHold` | `Spec => []LockedRowsAreStable` (an auxiliary property, in no run) |
| `Durability` | `Spec => []AcknowledgedIsDurable` |
| `RecordIsAppendOnly` | `Spec => OriginalsImmutable` |
| `RecordInvariance` | `Spec => []RecordInv` |
| `EvidenceStands` | `Spec => []EvidenceBacksSession` |
| `FlagsMatchEvidence` | `Spec => []FlagsTellTheEvidence` |

None of these is inductive alone. `TypeOK` needs to know that a handler that reaches
its transaction has its instant and rule (`LocalsOK`). `IdempotentReplies` compares
answers; it follows from the tables once every answer is backed by an evidence row
(`RepliesAreBacked`) and a client action commits once (`KeysOnce`), and the latter
needs that an open transaction holds its client action against all others.
`LockedRowsAreStable` needs that rows are named after calls that have ended
(`RowsAreAnswered`), and `AcknowledgedIsDurable` that an open day has no time out
(`OpenHasNoOut`). `IInv` is their conjunction; TLC checked it on the instance of the
run `attendance` before it was proved.

The argument: most steps change no table. `QuietMove` (a handler moves on) and
`QuietReturn` (it answers without having done work) prove once that such a step
keeps `IInv`; one lemma per action reduces it to one of these, or, for `TimeInTx`,
`TimeOutTx`, `TimeOutCommit` and `Crash`, proves each conjunct. `CreditedBounds` is
the fact about the hours rule that typing needs: the credit is between zero and the
elapsed minutes.

A second invariant, `RecordInv`, is about what a day records. `EvidenceBacksSession` and
`FlagsTellTheEvidence` are preserved only together with the credit and the journal of
closed days, with `OpenIsFresh` (an open day is as its Time In left it, so that a Time
Out adds flags to those of one evidence row) and with `TimesRunForward` (no recorded
instant is later than the clock, and a Time Out that holds its row is later than its
Time In, so that the row it writes is ordered).

`Corrections_proofs` proves, for any requests besides, under `ProposalAssumption` and
`RequestAssumption` (NULL is no id, no row and no proposal of a request, and no open
approval):

| Theorem | Statement |
|---|---|
| `CInvariance` | `CSpec => []CInv` |
| `CTypeCorrect` | `CSpec => []CTypeOK` |
| `PromisesSurvive` | `CSpec => []` of the properties proved of `Spec` above |
| `CreditIsComputed` | `CSpec => []CreditedIsComputed` |
| `CompletedDayHasJournal` | `CSpec => []ClosedDayHasJournal` (in no run: `ImplementsBook`, which implies it, is) |
| `ApprovalsAreExclusive` | `CSpec => []ApprovalHoldsItsRow` |
| `DecisionIsRecorded` | `CSpec => []DecisionLeavesItsRecord` |
| `LatestAdjustmentCounts` | `CSpec => []EffectiveIsLatestAdjustment` |
| `OriginalsSurvive` | `CSpec => OriginalsImmutable` |
| `DecisionsAreFinal` | `CSpec => DecisionIsFinal` |

`CInv` takes `IInv` and `RecordInv` over and adds what ties a decision to its day.
`RequestsHold`: a request is about a day that exists and times that have passed.
`ApprovalsHold`: an approval whose transaction is open is about its own request, has an
ordered projection with the credit of the hours rule, and is alone with its day; without
it the COMMIT could write a row that no rule gives. `RecordOfDecisions` splits
`DecisionLeavesItsRecord` into its equations, each of which one step changes on both
sides. `HistoryHolds` says the same of days and their latest adjustments. The steps of
the write service are taken over from `Attendance_proofs`; `LockKeeps` says that the row
locks of approvals disturb none of them.

| Theorem | Statement |
|---|---|
| `DaysAreABook` | `CSpec => ImplementsBook` |
| `SerialMilestone` | `SerialSpec => []MilestoneAnnounced` |

`DaysAreABook` needs besides that NULL is no page (`PageAssumption`). `TableSteps` sorts
the steps of the write service into INSERTs, COMMITs of a Time Out and steps that change no
row; each of these, and each step of a correction, has its lemma (`InsertsIsTimeIn`,
`ClosesIsTimeOut`, `InsertIsAsk`, `RejectIsReject`, `CommitIsApprove`, `QuietIsStutter`).
The two COMMITs are where it could fail, because they write what their transaction
computed some steps earlier: `CInv` says that the row is still what was read
(`LockedRowsAreStable`, `ApprovalHoldsItsRow`), and, in the next state, that what was
written is ordered, credited and has its journal. The other COMMIT-time fact is the date
index: the book asks that no page of the trainee is of that day, which `OneSessionPerDay`
and `EvidenceBacksSession` give.

`SerialMilestone` adds to `CInv` what `SInv` lists: no two locked rows are of one trainee
(that is the restriction of `SerialNext`), whoever has the hours was
told, calls in flight or not (`CompletionsAnnounced`), and what an open transaction found
of the milestone is what its COMMIT will make true (`MilestonesStand`). The last is the
part that overlap breaks, and where the proof uses the restriction: while a transaction of
a trainee is open, the COMMITs of others are of other trainees, so the sum it found stays
(`AloneWithTheTrainee`, `HoursStay`, `SameCredit`). TLC found no violation of `SInv` with
four calls, a request and two days open, before it was proved. The theorem also rests on
assignments requiring at least a minute (`CHECK (required_minutes > 0)`, in
`InputAssumption`): at the start nobody has any.

`Journal_proofs` proves, for any calls, narratives, images, cap and bound on the
reviews, under `JournalAssumption` and `LocalsAssumption` (NULL is no input and no
handler's locals, the limits are naturals) and, for the cap, `CallsAssumption` (there
are finitely many calls):

| Theorem | Statement |
|---|---|
| `JournalInvariance` | `JournalSpec => []JInv` |
| `Implementation` | `JournalSpec => ImplementsLife` |
| `JournalTypes` | `JournalSpec => []JTypeOK` |
| `OneStory` | `JournalSpec => []TrailTellsTheStatus` |
| `DecisionsReachTheTrainee` | `JournalSpec => []EveryDecisionIsTold` |
| `JudgedTexts` | `JournalSpec => []JudgedTextIsLong` (auxiliary, in no run) |
| `RowsHaveObjects` | `JournalSpec => []ImageHasItsObject` |
| `CapIsSoftlyKept` | `JournalSpec => []CapOverrunIsBounded` |

`JInv` adds two parts to these properties. `Guarded`: the call that holds the row
found it in the status its writes need, and the row is still in it; without it a
COMMIT could not be matched with a step of `JournalLife`. `Tracked`: where row and
object of every image in flight are, and that no two calls have one image in hand
while it is uploaded; without it a cleanup might take the object of a row. Each part
has its lemma with one step per action (`GuardedKeeps`, `TrackedKeeps`,
`RecordsKeep`, `ImagesKeep`); `LifeSteps` maps each step to one of `JournalLife` or
to a stutter. The bound on the images is inductive as it stands: it counts images and
uploads together, an upload that commits turns into one image (`UploadBecomesImage`),
and one is let in only while the images are below the cap.

`Services_proofs` proves, for any constants under the assumptions of each module:

| Theorem | Statement |
|---|---|
| `LimiterTypes` | `LimiterSpec => []LimiterTypeOK` |
| `LimiterImplementsBuckets` | `LimiterSpec => ImplementsBuckets` |
| `MigrationTypes` | `MigrationsSpec => []MigrationsTypeOK` |
| `EvidenceTypes` | `EvidenceSpec => []EvidenceTypeOK` |
| `ReminderTypes` | `RemindersSpec => []RemindersTypeOK` |
| `MigrationsRecordTheSchema` | `MigrationsSpec => []SchemaIsRecorded` |
| `PhotosStayWithTheirRow` | `EvidenceSpec => []PhotosFollowTheRows` |
| `RemindersTellOnce` | `RemindersSpec => []EachEventIsToldOnce` |

The refinement of the limiter rests on one inequality (`FullInTime`): a bucket fills in
`MaxEvents * (Window \div MaxEvents) <= Window` ticks, less than the four windows after
which it is stale, so what is thrown away is full (`StaleIsFull`) and a new bucket is no
better than the old one (`BucketHoldsLevel`). `MigrationsInv` adds that, unless someone
went down, what an Up believes applied is. `EvidenceInv` says of every step of an upload
which photos exist (`PhotosOf`); no upload touches another's because keys are generated.
`RemindersInv` adds that no two open runs have inserted one event and that what a run
has inserted is in no committed notice (`OnceEach`).

`Records_proofs` proves, under `AccountsAssumption` and `RequestAssumption` (no value
of a column and no call is `NoValue`):

| Theorem | Statement |
|---|---|
| `AccountTypes` | `AccountsSpec => []AccountsTypeOK` |
| `SignOutIsForGood` | `AccountsSpec => []SignOutReachesEverySession` |
| `OnlyOverlapLosesEdits` | `AccountsSpec => []EditsAreLostOnlyByOverlap` |

`AccountsInv` adds to these that a session marked by a call in flight is not free to be
taken by a login, without which the COMMIT of a sign-out might miss one it has
recorded, and that a coordinator's PATCH gives no e-mail, without which it would owe a
column it does not write (`Fits`). `StepKeeps` says what a step must show: the row as
asked, the lock with its holder, sessions that only go forward.

It also proves, for any calls, assignments, sites and days and PATCHes of any columns of
the directory, under `DirectoryAssumption` (the tables have different keys, no row is
`Absent`, limits and days are numbers):

| Theorem | Statement |
|---|---|
| `DirectoryInvariance` | `DirectorySpec => []DInv` |
| `DirectoryTypes` | `DirectorySpec => []DirectoryTypeOK` |
| `OneActive` | `DirectorySpec => []OneActiveAssignment` |
| `OnlyGivenIsRefused` | `DirectorySpec => []TablesRefuseOnlyWhatIsGiven` |
| `LossNeedsOverlap` | `DirectorySpec => []PatchesAreLostOnlyByOverlap` |

`DInv` adds that rows and merged rows have the columns of their table (`RowsTyped`,
`CallsTyped`) and that what is stored passed the CHECK constraints, fits its columns and
refers to a site that exists (`RowsPass`). The last is needed because a PATCH validates
only what it gives: the columns it merges pass because they were stored.

`Enrolment_proofs` proves, for any calls, people, tokens and uploaded files of any
length, under `EnrolmentAssumption` and `MissingAssumption` (`Missing` is no list of
people and no task):

| Theorem | Statement |
|---|---|
| `EnrolmentInvariance` | `EnrolmentSpec => []EInv` |
| `EnrolmentTypes` | `EnrolmentSpec => []EnrolmentTypeOK` |
| `ImportIsAtomic` | `EnrolmentSpec => []BatchIsAllOrNothing` |
| `ImportAnswersStayTrue` | `EnrolmentSpec => []ImportAnswersAreTrue` |
| `TraineesAreWhole` | `EnrolmentSpec => []EnrolledIsWhole` |

`EInv` says of open transactions what the three properties say of tables. `WritesAreWhole`:
what a transaction has inserted so far is whole and apart from what is committed.
`NumbersApart`: two transactions have no key in common, since the second INSERT of a key
waits. `OnePlace`: a token is unused, staged, in one transaction, or used; and a
transaction that imports has, done and to do, the people of the batch it took. Two lemmas
carry the validation: `ValidatedRows` (the rows kept of a file have no e-mail and no
number twice) and `Counting` (a finite set of positions can be counted off), which is
what indexing the kept rows amounts to.

`Administration_proofs` proves one fact of the instance that the run `administration`
explores, for every value of its constants:

| Theorem | Statement |
|---|---|
| `AdministrationTypes` | `MCSpec => []AdministrationTypeOK` |

A behaviour of the instance is a behaviour of each component (`RecordsCompose`,
`ServicesCompose`), whose type theorems then apply. What each component promises is proved
of its own specification (`Services_proofs`, `Records_proofs`, `Enrolment_proofs`).

`Rules_proofs` proves of the pure rules and the queries, for any instants, thresholds,
fixes, users, filters and contents of the tables, under `InputAssumption` (instants and
limits are numbers) and `ContentsAssumption` (the contents are `Kept`):

| Theorem | Statement |
|---|---|
| `HoursAreCounted` | `Spec => []CreditedCountsMinutes` |
| `VerdictsFollowTheFix` | `Spec => []VerdictFollowsTheFix` |
| `OffersAreAccepted` | `Spec => []NextActionIsAccepted` |
| `EveryoneIsCounted` | `Spec => []EveryoneExpectedIsCounted` |
| `ScopeIsExact` | `Spec => []ScopeSeesExactly` |
| `ProgressIsOne` | `Spec => []ProgressAgrees` |

A state of `RulesCheck` is one input, so the invariant is only that it is one
(`InputInvariance`); the work is in the operators. `FitsIntoQuotient` (how many minutes
fit into an interval) reduces the credit to a count, and `Percentage` the percentage to a
comparison. `FilterIsAccess` says that the filter of the lists is the check of single
records; `LeftReferences`, that within the rows a scope leaves every reference finds the
row it finds in all of them; from these, each list, count, queue and report is the same
(`ListsOfScope`, `DashboardOfScope`, `WeeksOfScope`, `CompletionOfScope`,
`JournalsAndExceptionsOfScope`). `CreditIsSum` to `CreditOfPart` show that the library's
fold adds up: it exists for every finite set of sessions, in any order, and days without
minutes add none. That is why the sum over all days of the trainee's dashboard is the sum
over counted days of the four others.

The theorems of induction are of no use here, because they take an operator as a
parameter. Where a proof needs induction over numbers or over the size of a set, it takes
a least counterexample: `LeastNumber` follows from the well-foundedness of `<` on the
naturals, which is first-order.

Only model-checked: the liveness property (`HandlersReturn`: fairness is out of the
prover's reach). Every other property of a passing run is a theorem. The findings are
counterexamples and have no theorem.

## 6. Not modelled

- Image decoding, EXIF and the watermark: pure functions of bytes.
- The audit trail: rows appended in the caller's transaction that nothing reads.
- CSV syntax and CSV output, JSON envelopes, paging, search words, names, logging.
- Password hashing, token generation, cookies and request parsing.
- Configuration and start-up; the seed command; pool sizes and timeouts.
- Daylight saving changes of the institution's timezone, and the Haversine formula.
- Which events are due for a reminder, beyond the fact that it changes.
- What a dashboard shows when the tables change between its queries.
- The React client beyond what it does to the server (retries with one client action,
  token rotations answered in either order), and deployment files.
- Who is logged in: a call reaches its handler as the user it belongs to, and what that
  user may see is `Reads`.
