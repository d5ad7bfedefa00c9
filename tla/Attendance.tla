------------------------------ MODULE Attendance ------------------------------
(***************************************************************************)
(* The attendance write service: Time In and Time Out                      *)
(* (internal/attendance/service.go) over the tables of migration 000005.   *)
(*                                                                         *)
(* Every HTTP call is a process.  It runs the handler one database round   *)
(* trip at a time, so calls interleave between the round trips; what one   *)
(* statement or one transaction does is a single step, except that a       *)
(* transaction that reads rows it has not locked is split into its         *)
(* statements and its COMMIT.  Row ids are generated by the INSERTs: the   *)
(* session and the evidence row that call r inserts are named r.           *)
(***************************************************************************)
EXTENDS AttendanceRules, FiniteSetsExt

CONSTANTS
  Requests,      \* HTTP calls to the two endpoints, and the rows they insert
  Trainees,
  Keys,          \* client_action_id values
  Fixes,         \* GPS data a client may send
  Rules,         \* break rules an assignment may have
  Requirements,  \* required_minutes an assignment may have
  MaxTime        \* bound: the clock stops here

ASSUME InputAssumption ==
  /\ NULL \notin Requests \cup Keys \cup Trainees
  /\ Fixes \subseteq Fix
  /\ Rules \subseteq BreakRule
  /\ Requirements \subseteq Nat \ {0}   \* CHECK (required_minutes > 0)
  /\ MaxTime \in Nat

VARIABLES
  clock,        \* time.Now()
  assignment,   \* the trainee's assignment: does it cover today, and its rules
  sessions,     \* attendance_sessions: id -> row, NULL when there is no row
  evidence,     \* attendance_evidence: id -> row, NULL when there is no row
  journals,     \* attendance_ids that have a daily_journals row
  announced,    \* trainees notified of "completion:<trainee>:<assignment>"
  locked,       \* sessions held FOR UPDATE by an open transaction
  call,         \* handler locals of a call in flight, NULL otherwise
  reply         \* what the handler returned, NULL until it returns

dbVars == <<assignment, sessions, evidence, journals, announced>>
vars == <<clock, assignment, sessions, evidence, journals, announced, locked,
          call, reply>>

Instant == 0 .. MaxTime
Assignment == [covers : BOOLEAN, rule : Rules, required : Requirements]
Statuses == {"open", "valid", "flagged", "corrected"}
Session == [trainee : Trainees, date : Int, status : Statuses,
            origIn : Instant, origOut : Instant \cup {NULL},
            effIn : Instant, effOut : Instant \cup {NULL},
            credited : Nat \cup {NULL}, flags : SUBSET FlagCodes]
Actions == {"time_in", "time_out"}
Evidence == [session : Requests, trainee : Trainees, action : Actions,
             key : Keys, at : Instant, location : LocationStatuses,
             encodable : BOOLEAN]
Call == [pc : {"replay", "prepare", "tx", "commit", "recheck"},
         action : Actions, trainee : Trainees, key : Keys, fix : Fixes,
         target : Requests, now : Instant \cup {NULL}, seen : Statuses \cup {NULL},
         rule : Rules \cup {NULL}, milestone : BOOLEAN]
Codes == {"created", "replayed", "forbidden", "not_found", "conflict",
          "unprocessable", "unavailable", "error", "lost"}
Reply == [code : Codes, action : Actions, trainee : Trainees, key : Keys,
          session : Requests \cup {NULL}, at : Instant \cup {NULL}]

\* NULL is no row, no handler's locals and no answer.
ASSUME RowAssumption == NULL \notin Session \cup Evidence \cup Call \cup Reply

-------------------------------------------------------------------------------
(* Lookups and constraints of the database.                                *)

Rows(table) == {r \in Requests : table[r] # NULL}

\* findReplay: the evidence row of (trainee, client_action_id), of any action.
findReplay(t, k) ==
  {e \in Rows(evidence) : evidence[e].trainee = t /\ evidence[e].key = k}

\* replayTimeOut: only a time_out row, and only of the session asked for.
replayTimeOut(t, k, s) ==
  {e \in findReplay(t, k) : /\ evidence[e].action = "time_out"
                            /\ evidence[e].session = s}

\* Unique index attendance_evidence (trainee_id, client_action_id).
KeyUnchecked(t, k) == FALSE

KeyTaken(t, k) == findReplay(t, k) # {}

\* An uncommitted INSERT of the same key makes this one wait for its outcome.
KeyHeld(t, k) ==
  \E q \in Requests : /\ call[q] # NULL
                      /\ call[q].pc = "commit"
                      /\ call[q].trainee = t
                      /\ call[q].key = k

\* Unique index attendance_sessions (trainee_id, attendance_date).
DateUnchecked(t, d) == FALSE

DateTaken(t, d) ==
  \E s \in Rows(sessions) : sessions[s].trainee = t /\ sessions[s].date = d

\* Credited minutes of a trainee over the given contents of the table.
Completed(t, table) ==
  LET credited == {s \in Requests : /\ table[s] # NULL
                                    /\ table[s].trainee = t
                                    /\ table[s].credited # NULL}
  IN  SumFunction([s \in credited |-> table[s].credited])

\* The condition of NotifyCompletionIfReachedTx, read inside a transaction that
\* sees `table`: its own writes and every other session as committed.
MilestoneReached(t, table) ==
  Completed(t, table) >= assignment[t].required

-------------------------------------------------------------------------------
(* Returning from a handler.                                               *)

RowNeverBusy(s) == TRUE

\* SELECT ... FOR UPDATE waits for the transaction that holds the row.
RowFree(s) == s \notin locked

NeverReleased(s) == locked

\* Row locks end with their transaction, committed or rolled back.
Released(s) == locked \ {s}

New(r) == call[r] = NULL /\ reply[r] = NULL

Running(r, action, pc) ==
  call[r] # NULL /\ call[r].action = action /\ call[r].pc = pc

Goto(r, pc) == call' = [call EXCEPT ![r].pc = pc] /\ UNCHANGED reply

\* The handler whose locals are c answers with a code and a session.
Finish(r, c, code, s) ==
  /\ call' = [call EXCEPT ![r] = NULL]
  /\ reply' = [reply EXCEPT ![r] =
                 [code |-> code, action |-> c.action, trainee |-> c.trainee,
                  key |-> c.key, session |-> s, at |-> c.now]]

Return(r, code, s) == Finish(r, call[r], code, s)

\* AttendanceView shows the accuracy and the distance of an evidence row; when
\* JSON has no such number the answer is a 500, whatever has been committed.
Shown(code, row) == IF row.encodable THEN code ELSE "error"

\* locationFor and StoreEvidence: 422 without a reason, 503 when the object
\* store fails, otherwise on to the transaction with the locals c.
Prepare(r, c) ==
  \/ ReasonMissing(c.fix) /\ Finish(r, c, "unprocessable", NULL)
  \/ ~ReasonMissing(c.fix) /\ Finish(r, c, "unavailable", NULL)
  \/ /\ ~ReasonMissing(c.fix)
     /\ call' = [call EXCEPT ![r] = [c EXCEPT !.pc = "tx"]]
     /\ UNCHANGED reply

-------------------------------------------------------------------------------
(* POST /attendance/time-in.                                               *)

\* The instant and the local date are fixed before the assignment is read.
TimeInStart(r, t, k, f) ==
  LET c == [pc |-> "replay", action |-> "time_in", trainee |-> t, key |-> k,
            fix |-> f, target |-> r, now |-> clock, seen |-> NULL,
            rule |-> NULL, milestone |-> FALSE]
  IN  /\ New(r)
      /\ \/ /\ assignment[t].covers
            /\ call' = [call EXCEPT ![r] = c]
            /\ UNCHANGED reply
         \/ ~assignment[t].covers /\ Finish(r, c, "forbidden", NULL)
      /\ UNCHANGED <<clock, dbVars, locked>>

TimeInReplay(r) ==
  LET found == findReplay(call[r].trainee, call[r].key)
  IN  /\ Running(r, "time_in", "replay")
      /\ \/ \E e \in found :
              Return(r, Shown("replayed", evidence[e]), evidence[e].session)
         \/ found = {} /\ Prepare(r, call[r])
      /\ UNCHANGED <<clock, dbVars, locked>>

NewSession(c) ==
  [trainee |-> c.trainee, date |-> LocalDate(c.now), status |-> "open",
   origIn |-> c.now, origOut |-> NULL, effIn |-> c.now, effOut |-> NULL,
   credited |-> NULL, flags |-> flagsFor(EvaluateLocation(c.fix))]

\* A plausible slip: the evidence of a Time Out is stamped at its COMMIT.
NewEvidenceLate(c) ==
  [session |-> c.target, trainee |-> c.trainee, action |-> c.action,
   key |-> c.key, at |-> clock, location |-> EvaluateLocation(c.fix),
   encodable |-> Encodable(c.fix)]

NewEvidence(c) ==
  [session |-> c.target, trainee |-> c.trainee, action |-> c.action,
   key |-> c.key, at |-> c.now, location |-> EvaluateLocation(c.fix),
   encodable |-> Encodable(c.fix)]

\* The INSERTs of the session and of its evidence, in this order, so that the
\* date index speaks before the CHECK of the accuracy, and this before the
\* client-action index.  The answer may be lost.
TimeInTx(r) ==
  LET c == call[r]
      today == LocalDate(c.now)
  IN  /\ Running(r, "time_in", "tx")
      /\ \/ /\ DateTaken(c.trainee, today)
            /\ Return(r, "conflict", NULL)
            /\ UNCHANGED <<sessions, evidence>>
         \/ /\ ~DateTaken(c.trainee, today)
            /\ ~AccuracyStorable(c.fix)
            /\ Return(r, "error", NULL)
            /\ UNCHANGED <<sessions, evidence>>
         \/ /\ ~DateTaken(c.trainee, today)
            /\ AccuracyStorable(c.fix)
            /\ ~KeyHeld(c.trainee, c.key)
            /\ KeyTaken(c.trainee, c.key)
            /\ Goto(r, "recheck")
            /\ UNCHANGED <<sessions, evidence>>
         \/ /\ ~DateTaken(c.trainee, today)
            /\ AccuracyStorable(c.fix)
            /\ ~KeyHeld(c.trainee, c.key)
            /\ ~KeyTaken(c.trainee, c.key)
            /\ sessions' = [sessions EXCEPT ![r] = NewSession(c)]
            /\ evidence' = [evidence EXCEPT ![r] = NewEvidence(c)]
            /\ \E code \in {Shown("created", NewEvidence(c)), "lost"} : Return(r, code, r)
      /\ UNCHANGED <<clock, assignment, journals, announced, locked>>

\* The client action committed elsewhere: return its canonical session.
TimeInRecheck(r) ==
  LET found == findReplay(call[r].trainee, call[r].key)
  IN  /\ Running(r, "time_in", "recheck")
      /\ \/ \E e \in found :
              Return(r, Shown("replayed", evidence[e]), evidence[e].session)
         \/ found = {} /\ Return(r, "error", NULL)
      /\ UNCHANGED <<clock, dbVars, locked>>

-------------------------------------------------------------------------------
(* POST /attendance/{id}/time-out.                                         *)

\* The unlocked lookup: someone else's session is not found.
TimeOutStart(r, t, k, f, s) ==
  LET mine == sessions[s] # NULL /\ sessions[s].trainee = t
      c == [pc |-> "replay", action |-> "time_out", trainee |-> t, key |-> k,
            fix |-> f, target |-> s, now |-> NULL,
            seen |-> IF mine THEN sessions[s].status ELSE NULL,
            rule |-> NULL, milestone |-> FALSE]
  IN  /\ New(r)
      /\ \/ mine /\ call' = [call EXCEPT ![r] = c] /\ UNCHANGED reply
         \/ ~mine /\ Finish(r, c, "not_found", NULL)
      /\ UNCHANGED <<clock, dbVars, locked>>

TimeOutReplay(r) ==
  LET c == call[r]
      found == replayTimeOut(c.trainee, c.key, c.target)
  IN  /\ Running(r, "time_out", "replay")
      /\ \/ \E e \in found : Return(r, Shown("replayed", evidence[e]), c.target)
         \/ found = {} /\ c.seen # "open" /\ Return(r, "conflict", NULL)
         \/ found = {} /\ c.seen = "open" /\ Goto(r, "prepare")
      /\ UNCHANGED <<clock, dbVars, locked>>

\* siteForAssignment and time.Now(), both before the row is locked.
TimeOutPrepare(r) ==
  /\ Running(r, "time_out", "prepare")
  /\ Prepare(r, [call[r] EXCEPT !.now = clock,
                                !.rule = assignment[call[r].trainee].rule])
  /\ UNCHANGED <<clock, dbVars, locked>>

\* A slip: the location of the Time Out raises no flag.
ClosedIgnoringLocation(row, c) ==
  LET elapsed == Elapsed(row.effIn, c.now)
      flags == row.flags \cup durationFlags(elapsed)
  IN  [row EXCEPT !.origOut = c.now, !.effOut = c.now,
                  !.credited = CreditedMinutes(row.effIn, c.now, c.rule),
                  !.flags = flags,
                  !.status = IF flags = {} THEN "valid" ELSE "flagged"]

\* The session row as the Time Out with locals c leaves it.
Closed(row, c) ==
  LET elapsed == Elapsed(row.effIn, c.now)
      flags == row.flags \cup flagsFor(EvaluateLocation(c.fix))
                         \cup durationFlags(elapsed)
  IN  [row EXCEPT !.origOut = c.now, !.effOut = c.now,
                  !.credited = CreditedMinutes(row.effIn, c.now, c.rule),
                  !.flags = flags,
                  !.status = IF flags = {} THEN "valid" ELSE "flagged"]

\* The slip the row lock guards against: trusting the unlocked status.
StillOpenAsSeen(c) == c.seen = "open"

StillOpen(c) == sessions[c.target].status = "open"

\* The statements of the transaction: lock the row, look at it again, insert
\* the evidence (CHECK of the accuracy first), update the row (CHECK out > in)
\* and test the milestone.  The index attendance_evidence_action_key is left
\* out: that it is never hit is part of EvidenceBacksSession.
TimeOutTx(r) ==
  LET c == call[r]
      s == c.target
      after == [sessions EXCEPT ![s] = Closed(sessions[s], c)]
  IN  /\ Running(r, "time_out", "tx")
      /\ RowFree(s)
      /\ \/ /\ ~StillOpen(c)
            /\ Return(r, "conflict", NULL)
            /\ UNCHANGED locked
         \/ /\ StillOpen(c)
            /\ ~AccuracyStorable(c.fix)
            /\ Return(r, "error", NULL)
            /\ UNCHANGED locked
         \/ /\ StillOpen(c)
            /\ AccuracyStorable(c.fix)
            /\ ~KeyHeld(c.trainee, c.key)
            /\ KeyTaken(c.trainee, c.key)
            /\ Goto(r, "recheck")
            /\ UNCHANGED locked
         \/ /\ StillOpen(c)
            /\ AccuracyStorable(c.fix)
            /\ ~KeyHeld(c.trainee, c.key)
            /\ ~KeyTaken(c.trainee, c.key)
            /\ c.now <= sessions[s].effIn
            /\ Return(r, "error", NULL)
            /\ UNCHANGED locked
         \/ /\ StillOpen(c)
            /\ AccuracyStorable(c.fix)
            /\ ~KeyHeld(c.trainee, c.key)
            /\ ~KeyTaken(c.trainee, c.key)
            /\ c.now > sessions[s].effIn
            /\ call' = [call EXCEPT ![r].pc = "commit",
                                    ![r].milestone = MilestoneReached(c.trainee, after)]
            /\ locked' = locked \cup {s}
            /\ UNCHANGED reply
      /\ UNCHANGED <<clock, dbVars>>

\* INSERT INTO daily_journals ... ON CONFLICT DO NOTHING.
EnsureDraft(s) == journals \cup {s}

TimeOutCommit(r) ==
  LET c == call[r]
      s == c.target
  IN  /\ Running(r, "time_out", "commit")
      /\ sessions' = [sessions EXCEPT ![s] = Closed(sessions[s], c)]
      /\ evidence' = [evidence EXCEPT ![r] = NewEvidence(c)]
      /\ journals' = EnsureDraft(s)
      /\ announced' = announced \cup (IF c.milestone THEN {c.trainee} ELSE {})
      /\ locked' = Released(s)
      /\ \E code \in {Shown("created", NewEvidence(c)), "lost"} : Return(r, code, s)
      /\ UNCHANGED <<clock, assignment>>

TimeOutRecheck(r) ==
  LET c == call[r]
      found == replayTimeOut(c.trainee, c.key, c.target)
  IN  /\ Running(r, "time_out", "recheck")
      /\ \/ \E e \in found : Return(r, Shown("replayed", evidence[e]), c.target)
         \/ found = {} /\ Return(r, "error", NULL)
      /\ UNCHANGED <<clock, dbVars, locked>>

-------------------------------------------------------------------------------
(* The world around the handlers.                                          *)

\* The server dies or the database connection drops before the COMMIT: the
\* transaction is rolled back and the client never hears of the call.
Crash(r) ==
  /\ call[r] # NULL
  /\ Return(r, "lost", NULL)
  /\ locked' = IF call[r].pc = "commit" THEN Released(call[r].target) ELSE locked
  /\ UNCHANGED <<clock, dbVars>>

\* Staff suspend, resume or re-rule the trainee's assignment, or its dates pass.
AssignmentUpdate(t) ==
  /\ \E a \in Assignment : assignment' = [assignment EXCEPT ![t] = a]
  /\ UNCHANGED <<clock, sessions, evidence, journals, announced, locked, call, reply>>

Tick ==
  /\ clock < MaxTime
  /\ clock' = clock + 1
  /\ UNCHANGED <<dbVars, locked, call, reply>>

-------------------------------------------------------------------------------
Init ==
  /\ clock = 0
  /\ assignment \in [Trainees -> Assignment]
  /\ sessions = [r \in Requests |-> NULL]
  /\ evidence = [r \in Requests |-> NULL]
  /\ journals = {}
  /\ announced = {}
  /\ locked = {}
  /\ call = [r \in Requests |-> NULL]
  /\ reply = [r \in Requests |-> NULL]

\* A step of the handler of call r once it has started.
Handler(r) ==
  \/ TimeInReplay(r)
  \/ TimeInTx(r)
  \/ TimeInRecheck(r)
  \/ TimeOutReplay(r)
  \/ TimeOutPrepare(r)
  \/ TimeOutTx(r)
  \/ TimeOutCommit(r)
  \/ TimeOutRecheck(r)

Arrival(r) ==
  \E t \in Trainees, k \in Keys, f \in Fixes :
    \/ TimeInStart(r, t, k, f)
    \/ \E s \in Requests : TimeOutStart(r, t, k, f, s)

Next ==
  \/ \E r \in Requests : Arrival(r) \/ Handler(r) \/ Crash(r)
  \/ \E t \in Trainees : AssignmentUpdate(t)
  \/ Tick

Spec == Init /\ [][Next]_vars

-------------------------------------------------------------------------------
(* Properties.                                                             *)

\* Every table and every handler holds values of its columns and locals.
TypeOK ==
  /\ clock \in Instant
  /\ assignment \in [Trainees -> Assignment]
  /\ sessions \in [Requests -> Session \cup {NULL}]
  /\ evidence \in [Requests -> Evidence \cup {NULL}]
  /\ journals \subseteq Requests
  /\ announced \subseteq Trainees
  /\ locked \subseteq Requests
  /\ call \in [Requests -> Call \cup {NULL}]
  /\ reply \in [Requests -> Reply \cup {NULL}]

\* A trainee has at most one session on an institution-local date, whatever
\* calls raced (service.go:6-7).
OneSessionPerDay ==
  \A s1, s2 \in Rows(sessions) :
    /\ sessions[s1].trainee = sessions[s2].trainee
    /\ sessions[s1].date = sessions[s2].date
    => s1 = s2

\* Photo evidence and sessions agree: every session stands on the time-in
\* evidence of its own trainee, instant and local date; it has a time-out
\* evidence, exactly one, when and only when it was timed out, at that instant.
EvidenceBacksSession ==
  /\ \A s \in Rows(sessions) :
       /\ evidence[s] # NULL
       /\ evidence[s].action = "time_in"
       /\ evidence[s].session = s
       /\ evidence[s].trainee = sessions[s].trainee
       /\ evidence[s].at = sessions[s].origIn
       /\ LocalDate(evidence[s].at) = sessions[s].date
       /\ sessions[s].origOut # NULL =>
            \E e \in Rows(evidence) :
              evidence[e].action = "time_out" /\ evidence[e].session = s
  /\ \A e \in Rows(evidence) :
       /\ evidence[e].session \in Rows(sessions)
       /\ evidence[e].trainee = sessions[evidence[e].session].trainee
       /\ evidence[e].action = "time_in" => evidence[e].session = e
       /\ evidence[e].action = "time_out" =>
            /\ evidence[e].at = sessions[evidence[e].session].origOut
            /\ \A d \in Rows(evidence) :
                 evidence[d].action = "time_out"
                 /\ evidence[d].session = evidence[e].session => d = e

\* No flag of what is stored is lost on the way, and none appears: the flags of
\* a session are exactly those of its evidence and of its duration, and a session
\* closed by a Time Out is valid when it has none and flagged otherwise.  Of a
\* location that is not stored it says nothing: service.go:8 has every weak one
\* "stored and flagged, never dropped", but a negative accuracy fails the CHECK
\* of migration 000005, and TimeInTx and TimeOutTx end in a 500 without a row.
FlagsTellTheEvidence ==
  \A s \in Rows(sessions) :
    /\ sessions[s].flags =
         (UNION {flagsFor(evidence[e].location) :
                   e \in {d \in Rows(evidence) : evidence[d].session = s}})
         \cup (IF sessions[s].origOut = NULL THEN {}
               ELSE durationFlags(Elapsed(sessions[s].origIn, sessions[s].origOut)))
    /\ sessions[s].status = "valid" => sessions[s].flags = {}
    /\ sessions[s].status = "flagged" => sessions[s].flags # {}

\* Credited minutes exist exactly for days with an effective time out, and are
\* those the hours rule gives the effective times under a break rule that the
\* assignment may have had.
CreditedIsComputed ==
  \A s \in Rows(sessions) :
    IF sessions[s].effOut = NULL THEN sessions[s].credited = NULL
    ELSE \E q \in Rules : sessions[s].credited =
           CreditedMinutes(sessions[s].effIn, sessions[s].effOut, q)

\* "A completed day can never exist without its journal" (service.go:474-475),
\* and a day that was never completed has none.
ClosedDayHasJournal ==
  journals = {s \in Rows(sessions) : sessions[s].effOut # NULL}

\* Idempotency of client_action_id: of all calls of a trainee that carried the
\* same id at most one did the work, and all that were told of a session were
\* told of the same one.
IdempotentReplies ==
  \A q, r \in Requests :
    /\ reply[q] # NULL /\ reply[r] # NULL
    /\ reply[q].trainee = reply[r].trainee
    /\ reply[q].key = reply[r].key
    => /\ reply[q].code \in {"created", "replayed"}
          /\ reply[r].code \in {"created", "replayed"}
          => reply[q].session = reply[r].session
       /\ reply[q].code = "created" /\ reply[r].code = "created" => q = r

\* What a client was told was recorded stays recorded, at the server instant
\* it was told.
AcknowledgedIsDurable ==
  \A r \in Requests :
    reply[r] # NULL /\ reply[r].code = "created" =>
      LET s == reply[r].session
      IN  /\ s \in Rows(sessions)
          /\ reply[r].at = IF reply[r].action = "time_in"
                           THEN sessions[s].origIn ELSE sessions[s].origOut

\* While a Time Out holds a row, nobody else changes it, and the transactions
\* that hold rows hold different ones.
LockedRowsAreStable ==
  \A r \in Requests :
    call[r] # NULL /\ call[r].pc = "commit" =>
      /\ call[r].target \in locked
      /\ sessions[call[r].target].status = "open"
      /\ \A q \in Requests :
           call[q] # NULL /\ call[q].pc = "commit"
           /\ call[q].target = call[r].target => q = r

\* Once every call has returned, a trainee whose credited minutes reach the
\* required minutes has been notified, whatever calls overlapped
\* (notifications.go:28-31: "Called after any recalculation").
MilestoneAnnounced ==
  (\A r \in Requests : call[r] = NULL) =>
    \A t \in Trainees :
      Completed(t, sessions) >= assignment[t].required => t \in announced

\* The record is append-only: no session, evidence row or journal disappears,
\* the original times are written once and never again, and a day that left
\* "open" is never open again.
OriginalsImmutable ==
  [][/\ \A s \in Rows(sessions) :
          /\ sessions'[s] # NULL
          /\ sessions'[s].trainee = sessions[s].trainee
          /\ sessions'[s].date = sessions[s].date
          /\ sessions'[s].origIn = sessions[s].origIn
          /\ sessions'[s].origOut # sessions[s].origOut =>
               sessions[s].origOut = NULL /\ sessions[s].status = "open"
          /\ sessions'[s].status = "open" => sessions'[s] = sessions[s]
     /\ \A e \in Rows(evidence) : evidence'[e] = evidence[e]
     /\ journals \subseteq journals']_vars

\* "Same client_action_id committed concurrently - return canonical"
\* (service.go:315): a Time In whose client action has already committed is
\* answered with the canonical session, never with a conflict.
DuplicateGetsCanonical ==
  [][\A r \in Requests :
       /\ reply[r] = NULL /\ reply'[r] # NULL
       /\ reply'[r].action = "time_in"
       /\ findReplay(reply'[r].trainee, reply'[r].key) # {}
       => reply'[r].code # "conflict"]_vars

================================================================================
