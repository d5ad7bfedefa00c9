--------------------------- MODULE Attendance_proofs ---------------------------
(***************************************************************************)
(* Proofs about Attendance, for every number of calls, trainees, keys,     *)
(* fixes, rules and requirements, and any length of day.                   *)
(***************************************************************************)
EXTENDS Attendance, TLAPS

-------------------------------------------------------------------------------
(* The inductive invariant.                                                *)

\* What the locals of a handler are worth at each of its points: a Time In has
\* its instant from the start, a Time Out from its preparation on, with the
\* rule it will apply; a Time Out was let in only to a session of its trainee.
HandlerOK(r, c) ==
  /\ c.action = "time_in" =>
       /\ c.pc \in {"replay", "tx", "recheck"}
       /\ c.target = r
       /\ c.now \in Instant
  /\ c.action = "time_out" =>
       /\ sessions[c.target] # NULL
       /\ sessions[c.target].trainee = c.trainee
       /\ c.pc \in {"tx", "commit", "recheck"} => c.now \in Instant /\ c.rule \in Rules

LocalsOK ==
  \A r \in Requests : call[r] # NULL => reply[r] = NULL /\ HandlerOK(r, call[r])

\* Rows are inserted by the step that answers the call they are named after.
RowsAreAnswered ==
  \A r \in Requests :
    sessions[r] # NULL \/ evidence[r] # NULL => call[r] = NULL /\ reply[r] # NULL

\* A client action commits once, and an open transaction that inserted one
\* holds it against every other.
KeysOnce ==
  /\ \A d, e \in Rows(evidence) :
       /\ evidence[d].trainee = evidence[e].trainee
       /\ evidence[d].key = evidence[e].key
       => d = e
  /\ \A r \in Requests : call[r] # NULL /\ call[r].pc = "commit" =>
       /\ ~KeyTaken(call[r].trainee, call[r].key)
       /\ \A q \in Requests :
            /\ call[q] # NULL /\ call[q].pc = "commit"
            /\ call[q].trainee = call[r].trainee
            /\ call[q].key = call[r].key
            => q = r

\* Whoever was told of a session can point to the evidence that carries the
\* client action; whoever did the work, to the evidence of that very call.
RepliesAreBacked ==
  \A r \in Requests : reply[r] # NULL =>
    /\ reply[r].code = "replayed" =>
         \E e \in Rows(evidence) :
           /\ evidence[e].trainee = reply[r].trainee
           /\ evidence[e].key = reply[r].key
           /\ evidence[e].session = reply[r].session
    /\ reply[r].code = "created" =>
         /\ evidence[r] # NULL
         /\ evidence[r].trainee = reply[r].trainee
         /\ evidence[r].key = reply[r].key
         /\ evidence[r].session = reply[r].session
         /\ reply[r].at \in Instant

\* An open day has no time out.
OpenHasNoOut ==
  \A s \in Rows(sessions) : sessions[s].status = "open" => sessions[s].origOut = NULL

IInv ==
  /\ TypeOK
  /\ LocalsOK
  /\ RowsAreAnswered
  /\ OneSessionPerDay
  /\ KeysOnce
  /\ RepliesAreBacked
  /\ OpenHasNoOut
  /\ LockedRowsAreStable
  /\ AcknowledgedIsDurable

-------------------------------------------------------------------------------
(* What the rules return.                                                  *)

\* The verdict is one of the four location statuses, and its flags are flag
\* codes.
LEMMA VerdictType ==
  /\ \A f : EvaluateLocation(f) \in LocationStatuses
  /\ \A s : flagsFor(s) \subseteq FlagCodes
  /\ \A n : durationFlags(n) \subseteq FlagCodes
  BY DEF EvaluateLocation, LocationStatuses, flagsFor, FlagCodes, durationFlags

\* Whether an evidence row can be encoded is a Boolean, and what a call is told
\* of it is its code or a 500.
LEMMA EncodingType ==
  /\ \A f : Encodable(f) \in BOOLEAN
  /\ \A code, row : Shown(code, row) \in {code, "error"}
<1>1. \A f : Encodable(f) \in BOOLEAN
  BY DEF Encodable
<1>2. \A code, row : Shown(code, row) \in {code, "error"}
  BY DEF Shown
<1> QED
  BY <1>1, <1>2

\* Elapsed minutes are a natural number.
LEMMA ElapsedType ==
  ASSUME NEW tin \in Int, NEW tout \in Int
  PROVE  Elapsed(tin, tout) \in Nat
<1>1. CASE tout < tin
  BY <1>1 DEF Elapsed
<1>2. CASE tout >= tin
  BY <1>2, ClockAssumption DEF Elapsed
<1> QED
  BY <1>1, <1>2

\* A break takes at most the minutes that were spent: the credit is never
\* negative and never more than the elapsed minutes.
LEMMA CreditedBounds ==
  ASSUME NEW tin \in Int, NEW tout \in Int, NEW rule \in BreakRule
  PROVE  /\ CreditedMinutes(tin, tout, rule) \in Nat
         /\ CreditedMinutes(tin, tout, rule) <= Elapsed(tin, tout)
<1> DEFINE e == Elapsed(tin, tout)
<1>1. e \in Nat
  BY ElapsedType
<1>2. Deducted(rule, e) \in 0 .. e
  BY <1>1 DEF Deducted, BreakRule
<1> QED
  BY <1>1, <1>2 DEF CreditedMinutes

\* The local date of an instant is an integer (date.go).
LEMMA LocalDateType == \A t \in Int : LocalDate(t) \in Int
  BY ClockAssumption DEF LocalDate

-------------------------------------------------------------------------------
(* Steps that leave the tables alone.                                      *)

\* A handler that is not committing moves on with locals c.
LEMMA QuietMove ==
  ASSUME IInv, NEW r \in Requests, NEW c \in Call,
         reply[r] = NULL,
         call[r] # NULL => call[r].pc # "commit",
         c.pc # "commit", HandlerOK(r, c),
         call' = [call EXCEPT ![r] = c],
         UNCHANGED <<clock, assignment, sessions, evidence, journals, announced,
                     locked, reply>>
  PROVE  IInv'
<1>1. c # NULL
  BY RowAssumption
<1>2. TypeOK'
  BY DEF IInv, TypeOK
<1>3. LocalsOK'
  BY DEF IInv, TypeOK, LocalsOK, HandlerOK, Instant
<1>4. RowsAreAnswered'
  BY DEF IInv, TypeOK, RowsAreAnswered
<1>5. OneSessionPerDay' /\ OpenHasNoOut' /\ AcknowledgedIsDurable' /\ RepliesAreBacked'
  BY DEF IInv, OneSessionPerDay, OpenHasNoOut, AcknowledgedIsDurable,
         RepliesAreBacked, Rows, Instant
<1>6. KeysOnce'
  BY DEF IInv, TypeOK, KeysOnce, KeyTaken, findReplay, Rows
<1>7. LockedRowsAreStable'
  BY DEF IInv, TypeOK, LockedRowsAreStable
<1> QED
  BY <1>2, <1>3, <1>4, <1>5, <1>6, <1>7 DEF IInv

\* A handler with locals c that is not committing answers without having done
\* any work.
LEMMA QuietReturn ==
  ASSUME IInv, NEW r \in Requests, NEW c \in Call,
         NEW code \in Codes \ {"created"}, NEW s \in Requests \cup {NULL},
         sessions[r] = NULL, evidence[r] = NULL,
         call[r] # NULL => call[r].pc # "commit",
         code = "replayed" =>
           \E e \in Rows(evidence) : /\ evidence[e].trainee = c.trainee
                                    /\ evidence[e].key = c.key
                                    /\ evidence[e].session = s,
         Finish(r, c, code, s),
         UNCHANGED <<clock, assignment, sessions, evidence, journals, announced,
                     locked>>
  PROVE  IInv'
<1> DEFINE answer == [code |-> code, action |-> c.action, trainee |-> c.trainee,
                      key |-> c.key, session |-> s, at |-> c.now]
<1>1. /\ call' = [call EXCEPT ![r] = NULL]
      /\ reply' = [reply EXCEPT ![r] = answer]
  BY DEF Finish
<1>2. answer \in Reply
  BY DEF Reply, Call
<1>3. answer # NULL
  BY <1>2, RowAssumption
<1> HIDE DEF answer
<1>4. TypeOK'
  BY <1>1, <1>2 DEF IInv, TypeOK
<1>5. LocalsOK'
  BY <1>1 DEF IInv, TypeOK, LocalsOK, HandlerOK, Instant
<1>6. RowsAreAnswered'
  BY <1>1, <1>3 DEF IInv, TypeOK, RowsAreAnswered
<1>7. OneSessionPerDay' /\ OpenHasNoOut'
  BY DEF IInv, OneSessionPerDay, OpenHasNoOut, Rows
<1>8. KeysOnce'
  BY <1>1 DEF IInv, TypeOK, KeysOnce, KeyTaken, findReplay, Rows
<1>9. RepliesAreBacked'
  BY <1>1 DEF IInv, TypeOK, RepliesAreBacked, Rows, Instant, answer
<1>10. LockedRowsAreStable'
  BY <1>1 DEF IInv, TypeOK, LockedRowsAreStable
<1>11. AcknowledgedIsDurable'
  BY <1>1 DEF IInv, TypeOK, AcknowledgedIsDurable, Rows, answer
<1> QED
  BY <1>4, <1>5, <1>6, <1>7, <1>8, <1>9, <1>10, <1>11 DEF IInv

-------------------------------------------------------------------------------
(* The initial states and the actions, one by one.                         *)

\* The tables of a fresh database satisfy IInv.
LEMMA InitInv == Init => IInv
<1> SUFFICES ASSUME Init PROVE IInv
  OBVIOUS
<1>1. TypeOK
  BY InputAssumption DEF Init, TypeOK, Instant
<1>2. LocalsOK /\ RowsAreAnswered /\ RepliesAreBacked /\ LockedRowsAreStable
      /\ AcknowledgedIsDurable
  BY DEF Init, LocalsOK, RowsAreAnswered, RepliesAreBacked, LockedRowsAreStable,
         AcknowledgedIsDurable
<1>3. OneSessionPerDay /\ KeysOnce /\ OpenHasNoOut
  BY DEF Init, OneSessionPerDay, KeysOnce, OpenHasNoOut, Rows
<1> QED
  BY <1>1, <1>2, <1>3 DEF IInv

\* What the invariant says of a call that has started, and of one that has not.
LEMMA CallFacts ==
  ASSUME IInv, NEW r \in Requests
  PROVE  /\ call[r] # NULL => /\ call[r] \in Call
                              /\ HandlerOK(r, call[r])
                              /\ reply[r] = NULL
                              /\ sessions[r] = NULL
                              /\ evidence[r] = NULL
         /\ New(r) => sessions[r] = NULL /\ evidence[r] = NULL
  BY DEF IInv, TypeOK, LocalsOK, RowsAreAnswered, New

\* A call that commits is a Time Out of a session that exists.
LEMMA CommitFacts ==
  ASSUME IInv, NEW q \in Requests, call[q] # NULL, call[q].pc = "commit"
  PROVE  /\ call[q].action = "time_out"
         /\ call[q].target \in Rows(sessions)
         /\ call[q].now \in Instant
         /\ call[q].rule \in Rules
  BY CallFacts DEF HandlerOK, Call, Actions, Rows

\* Time In reads the assignment: no table changes, the locals have their types.
LEMMA TimeInStartKeeps ==
  ASSUME IInv, NEW r \in Requests, NEW t \in Trainees, NEW k \in Keys,
         NEW f \in Fixes, TimeInStart(r, t, k, f)
  PROVE  IInv'
<1> DEFINE c == [pc |-> "replay", action |-> "time_in", trainee |-> t, key |-> k,
                 fix |-> f, target |-> r, now |-> clock, seen |-> NULL,
                 rule |-> NULL, milestone |-> FALSE]
<1>1. c \in Call /\ HandlerOK(r, c) /\ c.pc = "replay"
  BY DEF Call, Actions, IInv, TypeOK, HandlerOK
<1>2. New(r) /\ reply[r] = NULL /\ call[r] = NULL
  BY DEF TimeInStart, New
<1>3. sessions[r] = NULL /\ evidence[r] = NULL
  BY <1>2, CallFacts
<1>4. UNCHANGED <<clock, assignment, sessions, evidence, journals, announced, locked>>
  BY DEF TimeInStart, dbVars
<1>5. \/ call' = [call EXCEPT ![r] = c] /\ UNCHANGED reply
      \/ Finish(r, c, "forbidden", NULL)
  BY DEF TimeInStart
<1> HIDE DEF c
<1>6. CASE call' = [call EXCEPT ![r] = c] /\ UNCHANGED reply
  BY <1>1, <1>2, <1>4, <1>6, QuietMove
<1>7. CASE Finish(r, c, "forbidden", NULL)
  <2>1. "forbidden" \in Codes \ {"created"} /\ "forbidden" # "replayed"
    BY DEF Codes
  <2> QED
    BY <1>1, <1>2, <1>3, <1>4, <1>7, <2>1, QuietReturn
<1> QED
  BY <1>5, <1>6, <1>7

\* The steps between the first lookup and the transaction.
LEMMA PrepareKeeps ==
  ASSUME IInv, NEW r \in Requests, NEW c \in Call, call[r] # NULL,
         call[r].pc # "commit", HandlerOK(r, [c EXCEPT !.pc = "tx"]),
         Prepare(r, c),
         UNCHANGED <<clock, assignment, sessions, evidence, journals, announced,
                     locked>>
  PROVE  IInv'
<1> DEFINE d == [c EXCEPT !.pc = "tx"]
<1>1. d \in Call /\ d.pc = "tx"
  BY DEF Call
<1>2. reply[r] = NULL /\ sessions[r] = NULL /\ evidence[r] = NULL
  BY CallFacts
<1>3. \/ Finish(r, c, "unprocessable", NULL)
      \/ Finish(r, c, "unavailable", NULL)
      \/ call' = [call EXCEPT ![r] = d] /\ UNCHANGED reply
  BY DEF Prepare
<1>4. /\ "unprocessable" \in Codes \ {"created"}
      /\ "unavailable" \in Codes \ {"created"}
  BY DEF Codes
<1>5. CASE Finish(r, c, "unprocessable", NULL)
  BY <1>2, <1>4, <1>5, QuietReturn
<1>6. CASE Finish(r, c, "unavailable", NULL)
  BY <1>2, <1>4, <1>6, QuietReturn
<1> HIDE DEF d
<1>7. CASE call' = [call EXCEPT ![r] = d] /\ UNCHANGED reply
  BY <1>1, <1>2, <1>7, QuietMove DEF d
<1> QED
  BY <1>3, <1>5, <1>6, <1>7

\* The rows findReplay finds back a replayed answer.
LEMMA ReplayBacked ==
  ASSUME NEW t, NEW k, NEW e \in findReplay(t, k)
  PROVE  /\ e \in Rows(evidence)
         /\ evidence[e].trainee = t
         /\ evidence[e].key = k
  BY DEF findReplay

\* The session a stored evidence row belongs to is the id of a row.
LEMMA EvidenceType ==
  ASSUME IInv, NEW e \in Rows(evidence)
  PROVE  evidence[e] \in Evidence /\ evidence[e].session \in Requests
  BY DEF IInv, TypeOK, Rows, Evidence

\* A replay answers with a session that its evidence row backs.
LEMMA TimeInReplayKeeps ==
  ASSUME IInv, NEW r \in Requests, TimeInReplay(r)
  PROVE  IInv'
<1> DEFINE c == call[r]
<1>1. c # NULL /\ c.action = "time_in" /\ c.pc = "replay"
  BY DEF TimeInReplay, Running
<1>2. c \in Call /\ HandlerOK(r, c) /\ sessions[r] = NULL /\ evidence[r] = NULL
  BY <1>1, CallFacts
<1>3. UNCHANGED <<clock, assignment, sessions, evidence, journals, announced, locked>>
  BY DEF TimeInReplay, dbVars
<1>4. CASE \E e \in findReplay(c.trainee, c.key) :
             Return(r, Shown("replayed", evidence[e]), evidence[e].session)
  <2>1. PICK e \in findReplay(c.trainee, c.key) :
          Finish(r, c, Shown("replayed", evidence[e]), evidence[e].session)
    BY <1>4 DEF Return
  <2>2. /\ e \in Rows(evidence)
        /\ evidence[e].trainee = c.trainee
        /\ evidence[e].key = c.key
        /\ evidence[e].session \in Requests \cup {NULL}
    BY ReplayBacked, EvidenceType
  <2>3. Shown("replayed", evidence[e]) \in Codes \ {"created"}
    BY EncodingType DEF Codes
  <2> QED
    BY <1>1, <1>2, <1>3, <2>1, <2>2, <2>3, QuietReturn
<1>5. CASE Prepare(r, c)
  <2>1. HandlerOK(r, [c EXCEPT !.pc = "tx"])
    BY <1>1, <1>2 DEF HandlerOK, Call
  <2> QED
    BY <1>1, <1>2, <1>3, <1>5, <2>1, PrepareKeeps
<1> QED
  BY <1>4, <1>5 DEF TimeInReplay

\* So does the look after a client-action violation.
LEMMA TimeInRecheckKeeps ==
  ASSUME IInv, NEW r \in Requests, TimeInRecheck(r)
  PROVE  IInv'
<1> DEFINE c == call[r]
<1>1. c # NULL /\ c.pc = "recheck"
  BY DEF TimeInRecheck, Running
<1>2. c \in Call /\ sessions[r] = NULL /\ evidence[r] = NULL
  BY <1>1, CallFacts
<1>3. UNCHANGED <<clock, assignment, sessions, evidence, journals, announced, locked>>
  BY DEF TimeInRecheck, dbVars
<1>4. {"replayed", "error"} \subseteq Codes \ {"created"}
  BY DEF Codes
<1>5. CASE \E e \in findReplay(c.trainee, c.key) :
             Return(r, Shown("replayed", evidence[e]), evidence[e].session)
  <2>1. PICK e \in findReplay(c.trainee, c.key) :
          Finish(r, c, Shown("replayed", evidence[e]), evidence[e].session)
    BY <1>5 DEF Return
  <2>2. /\ e \in Rows(evidence)
        /\ evidence[e].trainee = c.trainee
        /\ evidence[e].key = c.key
        /\ evidence[e].session \in Requests \cup {NULL}
    BY ReplayBacked, EvidenceType
  <2>3. Shown("replayed", evidence[e]) \in Codes \ {"created"}
    BY <1>4, EncodingType
  <2> QED
    BY <1>1, <1>2, <1>3, <2>1, <2>2, <2>3, QuietReturn
<1>6. CASE Return(r, "error", NULL)
  BY <1>1, <1>2, <1>3, <1>4, <1>6, QuietReturn DEF Return
<1> QED
  BY <1>5, <1>6 DEF TimeInRecheck

\* The row a Time In inserts, and its evidence.
LEMMA NewRowTypes ==
  ASSUME NEW c \in Call, c.now \in Instant
  PROVE  NewSession(c) \in Session /\ NewEvidence(c) \in Evidence
<1>1. LocalDate(c.now) \in Int
  BY LocalDateType, InputAssumption DEF Instant
<1>2. flagsFor(EvaluateLocation(c.fix)) \in SUBSET FlagCodes
  BY VerdictType
<1>3. NewSession(c) \in Session
  BY <1>1, <1>2 DEF NewSession, Session, Statuses, Call
<1>4. NewEvidence(c) \in Evidence
  BY VerdictType, EncodingType DEF NewEvidence, Evidence, Call
<1> QED
  BY <1>3, <1>4

\* The rows Time In inserts are new, of a free date and a free client action.
LEMMA TimeInTxKeeps ==
  ASSUME IInv, NEW r \in Requests, TimeInTx(r)
  PROVE  IInv'
<1> DEFINE c == call[r]
           today == LocalDate(c.now)
<1>1. c # NULL /\ c.action = "time_in" /\ c.pc = "tx"
  BY DEF TimeInTx, Running
<1>2. /\ c \in Call /\ HandlerOK(r, c) /\ reply[r] = NULL
      /\ sessions[r] = NULL /\ evidence[r] = NULL
  BY <1>1, CallFacts
<1>3. UNCHANGED <<clock, assignment, journals, announced, locked>>
  BY DEF TimeInTx
<1>4. CASE /\ Return(r, "conflict", NULL) \/ Return(r, "error", NULL)
           /\ UNCHANGED <<sessions, evidence>>
  <2>1. {"conflict", "error"} \subseteq Codes \ {"created"}
    BY DEF Codes
  <2> QED
    BY <1>1, <1>2, <1>3, <1>4, <2>1, QuietReturn DEF Return
<1>5. CASE Goto(r, "recheck") /\ UNCHANGED <<sessions, evidence>>
  <2> DEFINE d == [c EXCEPT !.pc = "recheck"]
  <2>1. d \in Call /\ d.pc = "recheck" /\ HandlerOK(r, d)
    BY <1>1, <1>2 DEF Call, HandlerOK
  <2>2. call' = [call EXCEPT ![r] = d] /\ UNCHANGED reply
    BY <1>5 DEF Goto
  <2> HIDE DEF d
  <2> QED
    BY <1>1, <1>2, <1>3, <1>5, <2>1, <2>2, QuietMove
<1>6. CASE /\ ~DateTaken(c.trainee, today)
           /\ ~KeyHeld(c.trainee, c.key)
           /\ ~KeyTaken(c.trainee, c.key)
           /\ sessions' = [sessions EXCEPT ![r] = NewSession(c)]
           /\ evidence' = [evidence EXCEPT ![r] = NewEvidence(c)]
           /\ \E code \in {Shown("created", NewEvidence(c)), "lost"} : Return(r, code, r)
  <2> DEFINE row == NewSession(c)
             ev == NewEvidence(c)
  <2>1. c.now \in Instant /\ c.target = r
    BY <1>1, <1>2 DEF HandlerOK
  <2>2. row \in Session /\ ev \in Evidence /\ row # NULL /\ ev # NULL
    BY <1>2, <2>1, NewRowTypes, RowAssumption
  <2>3. /\ row.trainee = c.trainee /\ row.date = today
        /\ row.origIn = c.now /\ row.origOut = NULL
        /\ ev.trainee = c.trainee /\ ev.key = c.key /\ ev.session = r
    BY <2>1 DEF NewSession, NewEvidence
  <2>4. PICK code \in {"created", "error", "lost"} : Finish(r, c, code, r)
    BY <1>6, EncodingType DEF Return
  <2> DEFINE answer == [code |-> code, action |-> c.action, trainee |-> c.trainee,
                        key |-> c.key, session |-> r, at |-> c.now]
  <2>5. /\ call' = [call EXCEPT ![r] = NULL]
        /\ reply' = [reply EXCEPT ![r] = answer]
    BY <2>4 DEF Finish
  <2>6. answer \in Reply /\ answer # NULL
    BY <1>2, RowAssumption DEF Reply, Call, Codes
  <2>7. /\ answer.code \in {"created", "error", "lost"} /\ answer.action = "time_in"
        /\ answer.trainee = c.trainee /\ answer.key = c.key
        /\ answer.session = r /\ answer.at = c.now
    BY <1>1
  <2> HIDE DEF row, ev, answer, today
  <2>8. TypeOK'
    BY <1>3, <1>6, <2>2, <2>5, <2>6 DEF IInv, TypeOK, row, ev
  <2>9. LocalsOK'
    BY <1>2, <1>6, <2>5 DEF IInv, TypeOK, LocalsOK, HandlerOK, Instant, Call
  <2>10. RowsAreAnswered'
    BY <1>6, <2>5, <2>6 DEF IInv, TypeOK, RowsAreAnswered
  <2>11. OneSessionPerDay'
    BY <1>6, <2>3 DEF IInv, TypeOK, OneSessionPerDay, DateTaken, Rows, row
  <2>12. KeysOnce'
    BY <1>1, <1>2, <1>6, <2>3, <2>5
       DEF IInv, TypeOK, KeysOnce, KeyTaken, KeyHeld, findReplay, Rows, ev
  <2>13. RepliesAreBacked'
    BY <1>2, <1>6, <2>1, <2>2, <2>3, <2>5, <2>7
       DEF IInv, TypeOK, RepliesAreBacked, Rows, Instant, ev
  <2>14. OpenHasNoOut'
    BY <1>6, <2>3 DEF IInv, TypeOK, OpenHasNoOut, Rows, row
  <2>15. LockedRowsAreStable'
    <3>1. \A q \in Requests : call[q] # NULL /\ call[q].pc = "commit" =>
            q # r /\ call[q].target \in Requests \ {r}
      BY <1>1, <1>2, CommitFacts DEF Rows
    <3> QED
      BY <1>3, <1>6, <2>5, <3>1 DEF IInv, TypeOK, LockedRowsAreStable
  <2>16. AcknowledgedIsDurable'
    BY <1>2, <1>6, <2>2, <2>3, <2>5, <2>7
       DEF IInv, TypeOK, AcknowledgedIsDurable, Rows, row
  <2> QED
    BY <2>8, <2>9, <2>10, <2>11, <2>12, <2>13, <2>14, <2>15, <2>16 DEF IInv
<1> QED
  BY <1>4, <1>5, <1>6 DEF TimeInTx

\* Time Out looks its session up: no table changes.
LEMMA TimeOutStartKeeps ==
  ASSUME IInv, NEW r \in Requests, NEW t \in Trainees, NEW k \in Keys,
         NEW f \in Fixes, NEW s \in Requests, TimeOutStart(r, t, k, f, s)
  PROVE  IInv'
<1> DEFINE mine == sessions[s] # NULL /\ sessions[s].trainee = t
           c == [pc |-> "replay", action |-> "time_out", trainee |-> t, key |-> k,
                 fix |-> f, target |-> s, now |-> NULL,
                 seen |-> IF mine THEN sessions[s].status ELSE NULL,
                 rule |-> NULL, milestone |-> FALSE]
<1>1. (IF mine THEN sessions[s].status ELSE NULL) \in Statuses \cup {NULL}
  BY DEF IInv, TypeOK, Session
<1>2. c \in Call /\ c.pc = "replay"
  BY <1>1 DEF Call, Actions
<1>3. mine => HandlerOK(r, c)
  BY DEF HandlerOK
<1>4. New(r) /\ reply[r] = NULL /\ call[r] = NULL
  BY DEF TimeOutStart, New
<1>5. sessions[r] = NULL /\ evidence[r] = NULL
  BY <1>4, CallFacts
<1>6. UNCHANGED <<clock, assignment, sessions, evidence, journals, announced, locked>>
  BY DEF TimeOutStart, dbVars
<1>7. \/ mine /\ call' = [call EXCEPT ![r] = c] /\ UNCHANGED reply
      \/ Finish(r, c, "not_found", NULL)
  BY DEF TimeOutStart
<1> HIDE DEF c, mine
<1>8. CASE mine /\ call' = [call EXCEPT ![r] = c] /\ UNCHANGED reply
  BY <1>2, <1>3, <1>4, <1>6, <1>8, QuietMove
<1>9. CASE Finish(r, c, "not_found", NULL)
  <2>1. "not_found" \in Codes \ {"created"}
    BY DEF Codes
  <2> QED
    BY <1>2, <1>4, <1>5, <1>6, <1>9, <2>1, QuietReturn
<1> QED
  BY <1>7, <1>8, <1>9

\* A Time Out that finds its own client action answers with its session.
LEMMA ReplayTimeOutKeeps ==
  ASSUME IInv, NEW r \in Requests, call[r] # NULL, call[r].pc # "commit",
         NEW e \in replayTimeOut(call[r].trainee, call[r].key, call[r].target),
         Return(r, Shown("replayed", evidence[e]), call[r].target),
         UNCHANGED <<clock, assignment, sessions, evidence, journals, announced,
                     locked>>
  PROVE  IInv'
<1> DEFINE c == call[r]
<1>1. c \in Call /\ sessions[r] = NULL /\ evidence[r] = NULL
  BY CallFacts
<1>2. e \in findReplay(c.trainee, c.key) /\ evidence[e].session = c.target
  BY DEF replayTimeOut
<1>3. /\ e \in Rows(evidence)
      /\ evidence[e].trainee = c.trainee
      /\ evidence[e].key = c.key
  BY <1>2 DEF findReplay
<1> DEFINE code == Shown("replayed", evidence[e])
<1>4. /\ e \in Requests /\ c.target \in Requests
      /\ code \in {"replayed", "error"} /\ code \in Codes \ {"created"}
  BY <1>1, <1>3 DEF Rows, Call, Codes, Shown
<1>5. Finish(r, c, code, c.target)
  BY DEF Return
<1> HIDE DEF code
<1> QED
  BY <1>1, <1>2, <1>3, <1>4, <1>5, QuietReturn

\* A replayed Time Out answers with the session its evidence row names.
LEMMA TimeOutReplayKeeps ==
  ASSUME IInv, NEW r \in Requests, TimeOutReplay(r)
  PROVE  IInv'
<1> DEFINE c == call[r]
<1>1. c # NULL /\ c.action = "time_out" /\ c.pc = "replay"
  BY DEF TimeOutReplay, Running
<1>2. /\ c \in Call /\ HandlerOK(r, c) /\ reply[r] = NULL
      /\ sessions[r] = NULL /\ evidence[r] = NULL
  BY <1>1, CallFacts
<1>3. UNCHANGED <<clock, assignment, sessions, evidence, journals, announced, locked>>
  BY DEF TimeOutReplay, dbVars
<1>4. CASE \E e \in replayTimeOut(c.trainee, c.key, c.target) :
             Return(r, Shown("replayed", evidence[e]), c.target)
  BY <1>1, <1>3, <1>4, ReplayTimeOutKeeps
<1>5. CASE Return(r, "conflict", NULL)
  <2>1. "conflict" \in Codes \ {"created"}
    BY DEF Codes
  <2> QED
    BY <1>1, <1>2, <1>3, <1>5, <2>1, QuietReturn DEF Return
<1>6. CASE Goto(r, "prepare")
  <2> DEFINE d == [c EXCEPT !.pc = "prepare"]
  <2>1. d \in Call /\ d.pc = "prepare" /\ HandlerOK(r, d)
    BY <1>1, <1>2 DEF Call, HandlerOK
  <2>2. call' = [call EXCEPT ![r] = d] /\ UNCHANGED reply
    BY <1>6 DEF Goto
  <2> HIDE DEF d
  <2> QED
    BY <1>1, <1>2, <1>3, <2>1, <2>2, QuietMove
<1> QED
  BY <1>4, <1>5, <1>6 DEF TimeOutReplay

\* Time Out fixes its instant and break rule before its transaction.
LEMMA TimeOutPrepareKeeps ==
  ASSUME IInv, NEW r \in Requests, TimeOutPrepare(r)
  PROVE  IInv'
<1> DEFINE a == call[r]
           c == [a EXCEPT !.now = clock, !.rule = assignment[a.trainee].rule]
<1>1. a # NULL /\ a.action = "time_out" /\ a.pc = "prepare"
  BY DEF TimeOutPrepare, Running
<1>2. a \in Call /\ HandlerOK(r, a)
  BY <1>1, CallFacts
<1>3. clock \in Instant /\ assignment[a.trainee].rule \in Rules
  BY <1>2 DEF IInv, TypeOK, Assignment, Call
<1>4. c \in Call /\ HandlerOK(r, [c EXCEPT !.pc = "tx"])
  BY <1>1, <1>2, <1>3 DEF Call, HandlerOK
<1>5. UNCHANGED <<clock, assignment, sessions, evidence, journals, announced, locked>>
  BY DEF TimeOutPrepare, dbVars
<1>6. Prepare(r, c)
  BY DEF TimeOutPrepare
<1> HIDE DEF c
<1> QED
  BY <1>1, <1>4, <1>5, <1>6, PrepareKeeps

\* The look after a client-action violation answers like the replay.
LEMMA TimeOutRecheckKeeps ==
  ASSUME IInv, NEW r \in Requests, TimeOutRecheck(r)
  PROVE  IInv'
<1> DEFINE c == call[r]
<1>1. c # NULL /\ c.pc = "recheck"
  BY DEF TimeOutRecheck, Running
<1>2. c \in Call /\ sessions[r] = NULL /\ evidence[r] = NULL
  BY <1>1, CallFacts
<1>3. UNCHANGED <<clock, assignment, sessions, evidence, journals, announced, locked>>
  BY DEF TimeOutRecheck, dbVars
<1>4. CASE \E e \in replayTimeOut(c.trainee, c.key, c.target) :
             Return(r, Shown("replayed", evidence[e]), c.target)
  BY <1>1, <1>3, <1>4, ReplayTimeOutKeeps
<1>5. CASE Return(r, "error", NULL)
  <2>1. "error" \in Codes \ {"created"}
    BY DEF Codes
  <2> QED
    BY <1>1, <1>2, <1>3, <1>5, <2>1, QuietReturn DEF Return
<1> QED
  BY <1>4, <1>5 DEF TimeOutRecheck

\* The transaction takes a free, open row and a free client action.
LEMMA TimeOutTxKeeps ==
  ASSUME IInv, NEW r \in Requests, TimeOutTx(r)
  PROVE  IInv'
<1> DEFINE c == call[r]
           s == c.target
<1>1. c # NULL /\ c.action = "time_out" /\ c.pc = "tx" /\ RowFree(s)
  BY DEF TimeOutTx, Running
<1>2. /\ c \in Call /\ HandlerOK(r, c) /\ reply[r] = NULL
      /\ sessions[r] = NULL /\ evidence[r] = NULL
  BY <1>1, CallFacts
<1>3. UNCHANGED <<clock, assignment, sessions, evidence, journals, announced>>
  BY DEF TimeOutTx, dbVars
<1>4. {"conflict", "error"} \subseteq Codes \ {"created"}
  BY DEF Codes
<1>5. CASE Return(r, "conflict", NULL) /\ UNCHANGED locked
  BY <1>1, <1>2, <1>3, <1>4, <1>5, QuietReturn DEF Return
<1>6. CASE Return(r, "error", NULL) /\ UNCHANGED locked
  BY <1>1, <1>2, <1>3, <1>4, <1>6, QuietReturn DEF Return
<1>7. CASE Goto(r, "recheck") /\ UNCHANGED locked
  <2> DEFINE d == [c EXCEPT !.pc = "recheck"]
  <2>1. d \in Call /\ d.pc = "recheck" /\ HandlerOK(r, d)
    BY <1>1, <1>2 DEF Call, HandlerOK
  <2>2. call' = [call EXCEPT ![r] = d] /\ UNCHANGED reply
    BY <1>7 DEF Goto
  <2> HIDE DEF d
  <2> QED
    BY <1>1, <1>2, <1>3, <1>7, <2>1, <2>2, QuietMove
<1>8. ASSUME StillOpen(c), ~KeyHeld(c.trainee, c.key), ~KeyTaken(c.trainee, c.key),
             NEW m \in BOOLEAN,
             call' = [call EXCEPT ![r].pc = "commit", ![r].milestone = m],
             locked' = locked \cup {s}, UNCHANGED reply
      PROVE  IInv'
  <2> DEFINE d == [c EXCEPT !.pc = "commit", !.milestone = m]
  <2>1. /\ d \in Call /\ d # NULL /\ HandlerOK(r, d)
        /\ d.pc = "commit" /\ d.target = s
        /\ d.trainee = c.trainee /\ d.key = c.key
    <3>1. /\ d.pc = "commit" /\ d.action = c.action /\ d.trainee = c.trainee
          /\ d.key = c.key /\ d.target = c.target /\ d.now = c.now /\ d.rule = c.rule
          /\ d.seen = c.seen
      BY <1>2 DEF Call
    <3>2. d \in Call
      BY <1>2 DEF Call
    <3> HIDE DEF d
    <3>3. d # NULL
      BY <3>2, RowAssumption
    <3>4. HandlerOK(r, d)
      BY <1>1, <1>2, <3>1 DEF HandlerOK
    <3> QED
      BY <3>1, <3>2, <3>3, <3>4
  <2>2. call' = [call EXCEPT ![r] = d]
    BY <1>2, <1>8 DEF IInv, TypeOK
  <2> HIDE DEF d
  <2>3. TypeOK'
    <3>1. call' \in [Requests -> Call \cup {NULL}]
      BY <2>1, <2>2 DEF IInv, TypeOK
    <3>2. locked' \subseteq Requests
      BY <1>2, <1>8 DEF IInv, TypeOK, Call
    <3> QED
      BY <1>3, <1>8, <3>1, <3>2 DEF IInv, TypeOK, Instant
  <2>4. LocalsOK'
    <3>1. \A q \in Requests \ {r} : call'[q] = call[q] /\ reply'[q] = reply[q]
      BY <1>8, <2>2 DEF IInv, TypeOK
    <3>2. call'[r] = d /\ reply'[r] = NULL
      BY <1>2, <1>8, <2>2 DEF IInv, TypeOK
    <3>3. \A q \in Requests : \A x : HandlerOK(q, x) => HandlerOK(q, x)'
      BY <1>3 DEF HandlerOK, Instant
    <3> QED
      BY <2>1, <3>1, <3>2, <3>3 DEF IInv, LocalsOK
  <2>5. RowsAreAnswered'
    BY <1>2, <1>3, <1>8, <2>2 DEF IInv, TypeOK, RowsAreAnswered
  <2>6. OneSessionPerDay' /\ OpenHasNoOut' /\ AcknowledgedIsDurable' /\ RepliesAreBacked'
    BY <1>3, <1>8 DEF IInv, OneSessionPerDay, OpenHasNoOut, AcknowledgedIsDurable,
                      RepliesAreBacked, Rows, Instant
  <2>7. KeysOnce'
    BY <1>3, <1>8, <2>1, <2>2
       DEF IInv, TypeOK, KeysOnce, KeyTaken, KeyHeld, findReplay, Rows
  <2>8. LockedRowsAreStable'
    BY <1>1, <1>3, <1>8, <2>1, <2>2
       DEF IInv, TypeOK, LockedRowsAreStable, RowFree, StillOpen
  <2> QED
    BY <2>3, <2>4, <2>5, <2>6, <2>7, <2>8 DEF IInv
<1>9. ASSUME NEW after PROVE MilestoneReached(c.trainee, after) \in BOOLEAN
  BY DEF MilestoneReached
<1> QED
  BY <1>5, <1>6, <1>7, <1>8, <1>9 DEF TimeOutTx

\* The row a Time Out leaves.
LEMMA ClosedRow ==
  ASSUME NEW row \in Session, NEW c \in Call, c.now \in Instant, c.rule \in Rules
  PROVE  /\ Closed(row, c) \in Session
         /\ Closed(row, c).trainee = row.trainee
         /\ Closed(row, c).date = row.date
         /\ Closed(row, c).origIn = row.origIn
         /\ Closed(row, c).origOut = c.now
         /\ Closed(row, c).status # "open"
<1>1. row.effIn \in Int /\ c.now \in Int /\ c.rule \in BreakRule
  BY InputAssumption DEF Session, Instant
<1>2. CreditedMinutes(row.effIn, c.now, c.rule) \in Nat
  BY <1>1, CreditedBounds
<1>3. row.flags \cup flagsFor(EvaluateLocation(c.fix))
        \cup durationFlags(Elapsed(row.effIn, c.now)) \in SUBSET FlagCodes
  BY VerdictType DEF Session
<1> QED
  BY <1>2, <1>3 DEF Closed, Session, Statuses

\* The COMMIT closes the row it held and answers for the evidence it inserted.
LEMMA TimeOutCommitKeeps ==
  ASSUME IInv, NEW r \in Requests, TimeOutCommit(r)
  PROVE  IInv'
<1> DEFINE c == call[r]
           s == c.target
           row == Closed(sessions[s], c)
           ev == NewEvidence(c)
<1>1. c # NULL /\ c.action = "time_out" /\ c.pc = "commit"
  BY DEF TimeOutCommit, Running
<1>2. /\ c \in Call /\ HandlerOK(r, c) /\ reply[r] = NULL
      /\ sessions[r] = NULL /\ evidence[r] = NULL
  BY <1>1, CallFacts
<1>3. s \in Requests /\ sessions[s] # NULL /\ c.now \in Instant /\ c.rule \in Rules
  BY <1>1, CommitFacts DEF Rows
<1>4. sessions[s] \in Session /\ sessions[s].status = "open" /\ sessions[s].origOut = NULL
  BY <1>1, <1>3 DEF IInv, TypeOK, LockedRowsAreStable, OpenHasNoOut, Rows
<1>5. /\ row \in Session /\ row # NULL
      /\ row.trainee = sessions[s].trainee /\ row.date = sessions[s].date
      /\ row.origIn = sessions[s].origIn /\ row.origOut = c.now
      /\ row.status # "open"
  BY <1>2, <1>3, <1>4, ClosedRow, RowAssumption
<1>6. /\ ev \in Evidence /\ ev # NULL
      /\ ev.trainee = c.trainee /\ ev.key = c.key /\ ev.session = s
  <2>1. ev \in Evidence
    BY <1>2, <1>3, NewRowTypes
  <2> QED
    BY <2>1, RowAssumption DEF NewEvidence
<1>7. /\ sessions' = [sessions EXCEPT ![s] = row]
      /\ evidence' = [evidence EXCEPT ![r] = ev]
      /\ journals' = journals \cup {s}
      /\ announced' = announced \cup (IF c.milestone THEN {c.trainee} ELSE {})
      /\ locked' = locked \ {s}
      /\ UNCHANGED <<clock, assignment>>
  BY DEF TimeOutCommit, EnsureDraft, Released
<1>8. PICK code \in {"created", "error", "lost"} : Finish(r, c, code, s)
  BY EncodingType DEF TimeOutCommit, Return
<1> DEFINE answer == [code |-> code, action |-> c.action, trainee |-> c.trainee,
                      key |-> c.key, session |-> s, at |-> c.now]
<1>9. call' = [call EXCEPT ![r] = NULL] /\ reply' = [reply EXCEPT ![r] = answer]
  BY <1>8 DEF Finish
<1>10. answer \in Reply /\ answer # NULL
  BY <1>2, RowAssumption DEF Reply, Call, Codes
<1>11. /\ answer.code \in {"created", "error", "lost"} /\ answer.action = "time_out"
       /\ answer.trainee = c.trainee /\ answer.key = c.key
       /\ answer.session = s /\ answer.at = c.now
  BY <1>1
<1> HIDE DEF row, ev, answer
\* Nobody else's row changes, and the row of s keeps whose and when it is.
<1>12. \A x \in Requests :
         /\ x # s => sessions'[x] = sessions[x]
         /\ sessions'[x] # NULL <=> sessions[x] # NULL
         /\ sessions[x] # NULL => /\ sessions'[x].trainee = sessions[x].trainee
                                  /\ sessions'[x].date = sessions[x].date
                                  /\ sessions'[x].origIn = sessions[x].origIn
  BY <1>3, <1>5, <1>7 DEF IInv, TypeOK
<1>13. sessions'[s] = row
  BY <1>3, <1>7 DEF IInv, TypeOK
<1>14. \A q \in Requests \ {r} : /\ call'[q] = call[q] /\ reply'[q] = reply[q]
                                  /\ evidence'[q] = evidence[q]
  BY <1>7, <1>9 DEF IInv, TypeOK
<1>15. call'[r] = NULL /\ reply'[r] = answer /\ evidence'[r] = ev
  BY <1>7, <1>9 DEF IInv, TypeOK
<1>16. TypeOK'
  BY <1>2, <1>3, <1>5, <1>6, <1>7, <1>9, <1>10 DEF IInv, TypeOK, Call
<1>17. LocalsOK'
  <2>1. \A q \in Requests : \A x \in Call : HandlerOK(q, x) => HandlerOK(q, x)'
    BY <1>12 DEF HandlerOK, Instant, Call
  <2> QED
    BY <1>14, <1>15, <2>1 DEF IInv, TypeOK, LocalsOK
<1>18. RowsAreAnswered'
  BY <1>10, <1>12, <1>14, <1>15 DEF IInv, RowsAreAnswered
<1>19. OneSessionPerDay'
  BY <1>12 DEF IInv, OneSessionPerDay, Rows
<1>20. KeysOnce'
  BY <1>1, <1>2, <1>6, <1>14, <1>15
     DEF IInv, TypeOK, KeysOnce, KeyTaken, findReplay, Rows
<1>21. RepliesAreBacked'
  BY <1>2, <1>3, <1>6, <1>10, <1>11, <1>14, <1>15
     DEF IInv, TypeOK, RepliesAreBacked, Rows, Instant
<1>22. OpenHasNoOut'
  BY <1>5, <1>12, <1>13 DEF IInv, OpenHasNoOut, Rows
<1>23. LockedRowsAreStable'
  BY <1>1, <1>3, <1>7, <1>12, <1>14, <1>15, CommitFacts
     DEF IInv, LockedRowsAreStable, Rows
<1>24. AcknowledgedIsDurable'
  BY <1>4, <1>5, <1>3, <1>11, <1>12, <1>13, <1>14, <1>15, NullAssumption, InputAssumption
     DEF IInv, AcknowledgedIsDurable, RepliesAreBacked, Rows, Instant
<1> QED
  BY <1>16, <1>17, <1>18, <1>19, <1>20, <1>21, <1>22, <1>23, <1>24 DEF IInv

\* A server that dies leaves the tables alone and releases its row.
LEMMA CrashKeeps ==
  ASSUME IInv, NEW r \in Requests, Crash(r)
  PROVE  IInv'
<1> DEFINE c == call[r]
           s == c.target
           answer == [code |-> "lost", action |-> c.action, trainee |-> c.trainee,
                      key |-> c.key, session |-> NULL, at |-> c.now]
<1>1. c # NULL /\ UNCHANGED <<clock, assignment, sessions, evidence, journals, announced>>
  BY DEF Crash, dbVars
<1>2. c \in Call /\ sessions[r] = NULL /\ evidence[r] = NULL /\ reply[r] = NULL
  BY <1>1, CallFacts
<1>3. CASE c.pc # "commit"
  <2>1. Finish(r, c, "lost", NULL) /\ UNCHANGED locked
    BY <1>3 DEF Crash, Return
  <2>2. "lost" \in Codes \ {"created"}
    BY DEF Codes
  <2> QED
    BY <1>1, <1>2, <1>3, <2>1, <2>2, QuietReturn
<1>4. CASE c.pc = "commit"
  <2>1. locked' = locked \ {s}
    BY <1>4 DEF Crash, Released
  <2>2. call' = [call EXCEPT ![r] = NULL] /\ reply' = [reply EXCEPT ![r] = answer]
    BY DEF Crash, Return, Finish
  <2>3. answer \in Reply /\ answer # NULL /\ answer.code = "lost"
    BY <1>2, RowAssumption DEF Reply, Call, Codes
  <2> HIDE DEF answer
  <2>4. TypeOK'
    BY <1>1, <2>1, <2>2, <2>3 DEF IInv, TypeOK
  <2>5. LocalsOK'
    BY <1>1, <2>2 DEF IInv, TypeOK, LocalsOK, HandlerOK, Instant
  <2>6. RowsAreAnswered'
    BY <1>1, <1>2, <2>2, <2>3 DEF IInv, TypeOK, RowsAreAnswered
  <2>7. OneSessionPerDay' /\ OpenHasNoOut'
    BY <1>1 DEF IInv, OneSessionPerDay, OpenHasNoOut, Rows
  <2>8. KeysOnce'
    BY <1>1, <2>2 DEF IInv, TypeOK, KeysOnce, KeyTaken, findReplay, Rows
  <2>9. RepliesAreBacked' /\ AcknowledgedIsDurable'
    BY <1>1, <2>2, <2>3
       DEF IInv, TypeOK, RepliesAreBacked, AcknowledgedIsDurable, Rows, Instant
  <2>10. LockedRowsAreStable'
    BY <1>1, <1>4, <2>1, <2>2 DEF IInv, TypeOK, LockedRowsAreStable
  <2> QED
    BY <2>4, <2>5, <2>6, <2>7, <2>8, <2>9, <2>10 DEF IInv
<1> QED
  BY <1>3, <1>4

\* Staff and the clock touch nothing the handlers rely on.
LEMMA WorldKeeps ==
  ASSUME IInv, clock' \in Instant, assignment' \in [Trainees -> Assignment],
         UNCHANGED <<sessions, evidence, journals, announced, locked, call, reply>>
  PROVE  IInv'
<1>1. TypeOK'
  BY DEF IInv, TypeOK
<1>2. LocalsOK' /\ RowsAreAnswered' /\ RepliesAreBacked' /\ LockedRowsAreStable'
      /\ AcknowledgedIsDurable'
  BY DEF IInv, LocalsOK, HandlerOK, RowsAreAnswered, RepliesAreBacked,
         LockedRowsAreStable, AcknowledgedIsDurable, Rows, Instant
<1>3. OneSessionPerDay' /\ OpenHasNoOut' /\ KeysOnce'
  BY DEF IInv, OneSessionPerDay, OpenHasNoOut, KeysOnce, KeyTaken, findReplay, Rows
<1> QED
  BY <1>1, <1>2, <1>3 DEF IInv

\* Every step of the write service keeps IInv.
LEMMA NextKeeps ==
  ASSUME IInv, [Next]_vars
  PROVE  IInv'
<1>1. ASSUME NEW r \in Requests, Arrival(r) PROVE IInv'
  BY <1>1, TimeInStartKeeps, TimeOutStartKeeps DEF Arrival
<1>2. ASSUME NEW r \in Requests, Handler(r) PROVE IInv'
  BY <1>2, TimeInReplayKeeps, TimeInTxKeeps, TimeInRecheckKeeps, TimeOutReplayKeeps,
     TimeOutPrepareKeeps, TimeOutTxKeeps, TimeOutCommitKeeps, TimeOutRecheckKeeps
     DEF Handler
<1>3. ASSUME NEW r \in Requests, Crash(r) PROVE IInv'
  BY <1>3, CrashKeeps
<1>4. ASSUME NEW t \in Trainees, AssignmentUpdate(t) PROVE IInv'
  <2>1. clock' \in Instant /\ assignment' \in [Trainees -> Assignment]
    BY <1>4 DEF AssignmentUpdate, IInv, TypeOK, Instant
  <2> QED
    BY <1>4, <2>1, WorldKeeps DEF AssignmentUpdate
<1>5. ASSUME Tick PROVE IInv'
  <2>1. clock' \in Instant /\ assignment' \in [Trainees -> Assignment]
    BY <1>5, InputAssumption DEF Tick, dbVars, IInv, TypeOK, Instant
  <2> QED
    BY <1>5, <2>1, WorldKeeps DEF Tick, dbVars
<1>6. ASSUME UNCHANGED vars PROVE IInv'
  BY <1>6, WorldKeeps DEF vars, IInv, TypeOK
<1> QED
  BY <1>1, <1>2, <1>3, <1>4, <1>5, <1>6 DEF Next

-------------------------------------------------------------------------------
(* What a step does to the tables and to a call.                           *)

\* A Time In inserts its session and its evidence.
Inserts(r) ==
  /\ call[r] # NULL /\ call[r].action = "time_in" /\ call[r].target = r
  /\ call[r] \in Call /\ call[r].now \in Instant
  /\ sessions[r] = NULL /\ evidence[r] = NULL
  /\ sessions' = [sessions EXCEPT ![r] = NewSession(call[r])]
  /\ evidence' = [evidence EXCEPT ![r] = NewEvidence(call[r])]
  /\ UNCHANGED <<clock, journals, announced, locked>>

\* A Time Out closes the open session it holds, inserts its evidence and may
\* announce that its trainee has completed the hours.
Closes(r) ==
  LET c == call[r]
      s == c.target
  IN  /\ c # NULL /\ c.action = "time_out" /\ c.pc = "commit"
      /\ c \in Call /\ c.now \in Instant /\ c.rule \in Rules
      /\ s \in Rows(sessions) /\ sessions[s] \in Session
      /\ sessions[s].status = "open" /\ sessions[s].trainee = c.trainee
      /\ evidence[r] = NULL
      /\ sessions' = [sessions EXCEPT ![s] = Closed(sessions[s], c)]
      /\ evidence' = [evidence EXCEPT ![r] = NewEvidence(c)]
      /\ journals' = journals \cup {s}
      /\ announced' = announced \cup (IF c.milestone THEN {c.trainee} ELSE {})
      /\ locked' = locked \ {s}
      /\ UNCHANGED clock

\* A call that arrives changes nothing but itself.
LEMMA ArrivalsAlter ==
  ASSUME NEW r \in Requests, Arrival(r)
  PROVE  UNCHANGED <<clock, dbVars, locked>>
<1>1. ASSUME NEW t, NEW k, NEW f, TimeInStart(r, t, k, f)
      PROVE  UNCHANGED <<clock, dbVars, locked>>
  BY <1>1, Zenon DEF TimeInStart
<1>2. ASSUME NEW t, NEW k, NEW f, NEW s, TimeOutStart(r, t, k, f, s)
      PROVE  UNCHANGED <<clock, dbVars, locked>>
  BY <1>2, Zenon DEF TimeOutStart
<1> QED
  BY <1>1, <1>2, Zenon DEF Arrival

\* Every step does one of these to the tables, or nothing.
LEMMA TableSteps ==
  ASSUME IInv, [Next]_vars
  PROVE  \/ UNCHANGED <<sessions, evidence, journals, announced>>
         \/ \E r \in Requests : Inserts(r) \/ Closes(r)
<1>1. ASSUME NEW r \in Requests, TimeInTx(r)
      PROVE  UNCHANGED <<sessions, evidence, journals, announced>> \/ Inserts(r)
  <2>1. call[r] # NULL /\ call[r].action = "time_in" /\ call[r].pc = "tx"
    BY <1>1 DEF TimeInTx, Running
  <2>2. /\ call[r] \in Call /\ HandlerOK(r, call[r])
        /\ sessions[r] = NULL /\ evidence[r] = NULL
    BY <2>1, CallFacts
  <2>3. call[r].target = r /\ call[r].now \in Instant
    BY <2>1, <2>2 DEF HandlerOK
  <2>4. UNCHANGED <<clock, journals, announced, locked>>
    BY <1>1 DEF TimeInTx
  <2>5. \/ UNCHANGED <<sessions, evidence>>
        \/ /\ sessions' = [sessions EXCEPT ![r] = NewSession(call[r])]
           /\ evidence' = [evidence EXCEPT ![r] = NewEvidence(call[r])]
    BY <1>1 DEF TimeInTx
  <2> QED
    BY <2>1, <2>2, <2>3, <2>4, <2>5 DEF Inserts
<1>2. ASSUME NEW r \in Requests, TimeOutCommit(r) PROVE Closes(r)
  <2>1. call[r] # NULL /\ call[r].pc = "commit" /\ call[r].action = "time_out"
    BY <1>2 DEF TimeOutCommit, Running
  <2>2. call[r] \in Call /\ HandlerOK(r, call[r]) /\ evidence[r] = NULL
    BY <2>1, CallFacts
  <2>3. /\ call[r].target \in Rows(sessions)
        /\ call[r].now \in Instant /\ call[r].rule \in Rules
    BY <2>1, CommitFacts
  <2>4. /\ sessions[call[r].target] \in Session
        /\ sessions[call[r].target].status = "open"
        /\ sessions[call[r].target].trainee = call[r].trainee
    BY <2>1, <2>2, <2>3 DEF IInv, TypeOK, LockedRowsAreStable, Rows, HandlerOK
  <2>5. /\ sessions' = [sessions EXCEPT ![call[r].target] =
                          Closed(sessions[call[r].target], call[r])]
        /\ evidence' = [evidence EXCEPT ![r] = NewEvidence(call[r])]
        /\ journals' = journals \cup {call[r].target}
        /\ announced' = announced \cup (IF call[r].milestone THEN {call[r].trainee} ELSE {})
        /\ locked' = locked \ {call[r].target}
        /\ UNCHANGED clock
    BY <1>2 DEF TimeOutCommit, EnsureDraft, Released
  <2> QED
    BY <2>1, <2>2, <2>3, <2>4, <2>5 DEF Closes
<1>3. ASSUME NEW r \in Requests,
             \/ TimeInReplay(r) \/ TimeInRecheck(r) \/ TimeOutReplay(r)
             \/ TimeOutPrepare(r) \/ TimeOutTx(r) \/ TimeOutRecheck(r)
             \/ Arrival(r) \/ Crash(r)
      PROVE  UNCHANGED <<sessions, evidence, journals, announced>>
  <2>1. CASE Arrival(r)
    BY <2>1, ArrivalsAlter DEF dbVars
  <2>2. CASE TimeInReplay(r) \/ TimeInRecheck(r) \/ TimeOutReplay(r)
    BY <2>2 DEF TimeInReplay, TimeInRecheck, TimeOutReplay, dbVars
  <2>3. CASE TimeOutPrepare(r) \/ TimeOutRecheck(r) \/ Crash(r)
    BY <2>3 DEF TimeOutPrepare, TimeOutRecheck, Crash, dbVars
  <2>4. CASE TimeOutTx(r)
    BY <2>4 DEF TimeOutTx, dbVars
  <2> QED
    BY <1>3, <2>1, <2>2, <2>3, <2>4
<1>4. ASSUME Tick \/ (\E t \in Trainees : AssignmentUpdate(t)) \/ UNCHANGED vars
      PROVE  UNCHANGED <<sessions, evidence, journals, announced>>
  BY <1>4 DEF Tick, AssignmentUpdate, dbVars, vars
<1> QED
  BY <1>1, <1>2, <1>3, <1>4 DEF Next, Handler

\* A call goes on with its instant, or fixes it now; it takes a row that is
\* free and open, and is later than its time in.
CallStep(q) ==
  \/ call'[q] = call[q] /\ clock' \in {clock, clock + 1}
  \/ call'[q] = NULL /\ clock' = clock
  \/ /\ call'[q].pc # "commit" /\ clock' = clock
     /\ \/ call'[q].now \in {NULL, clock}
        \/ call[q] # NULL /\ call'[q].now = call[q].now
  \/ /\ clock' = clock /\ call[q] # NULL /\ TimeOutTx(q)
     /\ call'[q].now = call[q].now /\ call'[q].target = call[q].target
     /\ RowFree(call[q].target) /\ StillOpen(call[q])
     /\ sessions[call[q].target].effIn < call[q].now
     /\ locked' = locked \cup {call[q].target}

\* Moving on, answering.
LEMMA CallMoves ==
  ASSUME TypeOK, NEW r \in Requests, NEW q \in Requests, NEW c, clock' = clock,
         call' = [call EXCEPT ![r] = c],
         r = q => CallStep(q)
  PROVE  CallStep(q)
<1>1. CASE r # q
  BY <1>1 DEF CallStep, TypeOK
<1> QED
  BY <1>1

\* Every step is such a step for every call.
LEMMA CallSteps ==
  ASSUME IInv, [Next]_vars, NEW q \in Requests
  PROVE  CallStep(q)
<1> USE DEF CallStep
<1>1. TypeOK
  BY DEF IInv
<1>2. ASSUME NEW r \in Requests, NEW c, NEW code, NEW s, Finish(r, c, code, s),
             clock' = clock
      PROVE  CallStep(q)
  BY <1>1, <1>2, CallMoves DEF Finish, TypeOK
<1>3. ASSUME NEW r \in Requests, NEW pc, Goto(r, pc), call[r] # NULL, pc # "commit",
             clock' = clock
      PROVE  CallStep(q)
  <2>1. call[r] \in Call
    BY <1>1, <1>3 DEF TypeOK
  <2>2. r = q => call'[q].pc = pc /\ call'[q].now = call[q].now
    BY <1>1, <1>3, <2>1 DEF Goto, TypeOK, Call
  <2> QED
    BY <1>1, <1>3, <2>2 DEF Goto, TypeOK
<1>4. ASSUME NEW r \in Requests, NEW c \in Call, Prepare(r, c), call[r] # NULL,
             c.now \in {clock, call[r].now}, clock' = clock
      PROVE  CallStep(q)
  <2>1. CASE \E code, s : Finish(r, c, code, s)
    BY <1>2, <1>4, <2>1
  <2>2. CASE call' = [call EXCEPT ![r] = [c EXCEPT !.pc = "tx"]]
    <3>1. [c EXCEPT !.pc = "tx"].pc = "tx" /\ [c EXCEPT !.pc = "tx"].now = c.now
      BY DEF Call
    <3>2. r = q => call'[q] = [c EXCEPT !.pc = "tx"]
      BY <1>1, <2>2 DEF TypeOK
    <3> QED
      BY <1>1, <1>4, <2>2, <3>1, <3>2 DEF TypeOK
  <2> QED
    BY <1>4, <2>1, <2>2 DEF Prepare
<1>5. ASSUME NEW r \in Requests, NEW t \in Trainees, NEW k \in Keys, NEW f \in Fixes,
             TimeInStart(r, t, k, f)
      PROVE  CallStep(q)
  <2> DEFINE c == [pc |-> "replay", action |-> "time_in", trainee |-> t, key |-> k,
                   fix |-> f, target |-> r, now |-> clock, seen |-> NULL,
                   rule |-> NULL, milestone |-> FALSE]
  <2>1. c.pc = "replay" /\ c.now = clock
    OBVIOUS
  <2>2. /\ call' = [call EXCEPT ![r] = c] \/ Finish(r, c, "forbidden", NULL)
        /\ clock' = clock
    BY <1>5 DEF TimeInStart
  <2> HIDE DEF c
  <2>3. CASE call' = [call EXCEPT ![r] = c]
    BY <1>1, <2>1, <2>2, <2>3 DEF TypeOK
  <2> QED
    BY <1>2, <2>2, <2>3
<1>6. ASSUME NEW r \in Requests, NEW t \in Trainees, NEW k \in Keys, NEW f \in Fixes,
             NEW s \in Requests, TimeOutStart(r, t, k, f, s)
      PROVE  CallStep(q)
  <2> DEFINE c == [pc |-> "replay", action |-> "time_out", trainee |-> t, key |-> k,
                   fix |-> f, target |-> s, now |-> NULL,
                   seen |-> IF sessions[s] # NULL /\ sessions[s].trainee = t
                            THEN sessions[s].status ELSE NULL,
                   rule |-> NULL, milestone |-> FALSE]
  <2>1. c.pc = "replay" /\ c.now = NULL
    OBVIOUS
  <2>2. /\ call' = [call EXCEPT ![r] = c] \/ Finish(r, c, "not_found", NULL)
        /\ clock' = clock
    BY <1>6 DEF TimeOutStart
  <2> HIDE DEF c
  <2>3. CASE call' = [call EXCEPT ![r] = c]
    BY <1>1, <2>1, <2>2, <2>3 DEF TypeOK
  <2> QED
    BY <1>2, <2>2, <2>3
<1>7. ASSUME NEW r \in Requests, TimeInReplay(r) PROVE CallStep(q)
  <2>1. call[r] # NULL /\ call[r] \in Call /\ clock' = clock
    BY <1>1, <1>7 DEF TimeInReplay, Running, TypeOK
  <2>2. \/ \E code, s : Finish(r, call[r], code, s)
        \/ Prepare(r, call[r])
    BY <1>7 DEF TimeInReplay, Return
  <2> QED
    BY <1>2, <1>4, <2>1, <2>2
<1>8. ASSUME NEW r \in Requests, TimeInTx(r) PROVE CallStep(q)
  <2>1. call[r] # NULL /\ clock' = clock
    BY <1>8 DEF TimeInTx, Running
  <2>2. (\E code, s : Finish(r, call[r], code, s)) \/ Goto(r, "recheck")
    BY <1>8 DEF TimeInTx, Return
  <2> QED
    BY <1>2, <1>3, <2>1, <2>2
<1>9. ASSUME NEW r \in Requests, TimeInRecheck(r) \/ TimeOutRecheck(r) \/ TimeOutCommit(r)
      PROVE  CallStep(q)
  <2>1. (\E code, s : Finish(r, call[r], code, s)) /\ clock' = clock
    BY <1>9 DEF TimeInRecheck, TimeOutRecheck, TimeOutCommit, Return
  <2> QED
    BY <1>2, <2>1
<1>10. ASSUME NEW r \in Requests, TimeOutReplay(r) PROVE CallStep(q)
  <2>1. call[r] # NULL /\ clock' = clock
    BY <1>10 DEF TimeOutReplay, Running
  <2>2. (\E code, s : Finish(r, call[r], code, s)) \/ Goto(r, "prepare")
    BY <1>10 DEF TimeOutReplay, Return
  <2> QED
    BY <1>2, <1>3, <2>1, <2>2
<1>11. ASSUME NEW r \in Requests, TimeOutPrepare(r) PROVE CallStep(q)
  <2> DEFINE c == [call[r] EXCEPT !.now = clock,
                                  !.rule = assignment[call[r].trainee].rule]
  <2>1. call[r] # NULL /\ call[r] \in Call /\ clock' = clock /\ Prepare(r, c)
    BY <1>1, <1>11 DEF TimeOutPrepare, Running, TypeOK
  <2>2. c \in Call /\ c.now = clock
    BY <1>1, <2>1 DEF TypeOK, Call, Assignment
  <2> HIDE DEF c
  <2> QED
    BY <1>4, <2>1, <2>2
<1>12. ASSUME NEW r \in Requests, TimeOutTx(r) PROVE CallStep(q)
  <2>1. call[r] # NULL /\ call[r] \in Call /\ clock' = clock /\ RowFree(call[r].target)
    BY <1>1, <1>12 DEF TimeOutTx, Running, TypeOK
  <2>2. \/ \E code, s : Finish(r, call[r], code, s)
        \/ Goto(r, "recheck")
        \/ /\ StillOpen(call[r]) /\ sessions[call[r].target].effIn < call[r].now
           /\ \E m : call' = [call EXCEPT ![r].pc = "commit", ![r].milestone = m]
           /\ locked' = locked \cup {call[r].target}
    <3>1. StillOpen(call[r]) /\ call[r].now > sessions[call[r].target].effIn
            => sessions[call[r].target].effIn < call[r].now
      OBVIOUS
    <3> QED
      BY <1>12, <3>1 DEF TimeOutTx, Return
  <2>3. ASSUME StillOpen(call[r]), sessions[call[r].target].effIn < call[r].now,
               NEW m, call' = [call EXCEPT ![r].pc = "commit", ![r].milestone = m],
               locked' = locked \cup {call[r].target}
        PROVE  CallStep(q)
    <3>1. r = q => call'[q].now = call[q].now /\ call'[q].target = call[q].target
      BY <1>1, <2>1, <2>3 DEF TypeOK, Call
    <3> QED
      BY <1>1, <1>12, <2>1, <2>3, <3>1 DEF TypeOK
  <2> QED
    BY <1>2, <1>3, <2>1, <2>2, <2>3
<1>13. ASSUME NEW r \in Requests, Crash(r) PROVE CallStep(q)
  <2>1. Finish(r, call[r], "lost", NULL) /\ clock' = clock
    BY <1>13 DEF Crash, Return
  <2> QED
    BY <1>2, <2>1
<1>14. ASSUME Tick \/ (\E t \in Trainees : AssignmentUpdate(t)) \/ UNCHANGED vars
       PROVE  CallStep(q)
  BY <1>14 DEF Tick, AssignmentUpdate, vars
<1> QED
  BY <1>5, <1>6, <1>7, <1>8, <1>9, <1>10, <1>11, <1>12, <1>13, <1>14
     DEF Next, Arrival, Handler

\* A lock is released by the Time Out that holds it, or dies with it; nobody
\* releases another's.
LEMMA LockSteps ==
  ASSUME IInv, [Next]_vars, NEW s \in locked,
         \A r \in Requests : call[r] # NULL /\ call[r].pc = "commit" =>
           call[r].target # s
  PROVE  s \in locked'
<1>1. ASSUME NEW r \in Requests, Handler(r) PROVE s \in locked'
  <2>1. CASE TimeOutCommit(r)
    BY <2>1 DEF TimeOutCommit, Running, Released
  <2>2. CASE TimeOutTx(r)
    BY <2>2 DEF TimeOutTx
  <2> QED
    BY <1>1, <2>1, <2>2 DEF Handler, TimeInReplay, TimeInTx, TimeInRecheck,
       TimeOutReplay, TimeOutPrepare, TimeOutRecheck
<1>2. ASSUME NEW r \in Requests, Arrival(r) PROVE s \in locked'
  BY <1>2, ArrivalsAlter
<1>3. ASSUME NEW r \in Requests, Crash(r) PROVE s \in locked'
  BY <1>3 DEF Crash, Released
<1> QED
  BY <1>1, <1>2, <1>3 DEF Next, AssignmentUpdate, Tick, vars

\* What OriginalsImmutable says of a step.
RecordGrows ==
  /\ \A s \in Rows(sessions) :
       /\ sessions'[s] # NULL
       /\ sessions'[s].trainee = sessions[s].trainee
       /\ sessions'[s].date = sessions[s].date
       /\ sessions'[s].origIn = sessions[s].origIn
       /\ sessions'[s].origOut # sessions[s].origOut =>
            sessions[s].origOut = NULL /\ sessions[s].status = "open"
       /\ sessions'[s].status = "open" => sessions'[s] = sessions[s]
  /\ \A e \in Rows(evidence) : evidence'[e] = evidence[e]
  /\ journals \subseteq journals'

\* Every step of the write service only adds to the record.
LEMMA GrowsOnly ==
  ASSUME IInv, [Next]_vars
  PROVE  RecordGrows
<1>1. CASE UNCHANGED <<sessions, evidence, journals>>
  BY <1>1 DEF RecordGrows, Rows
<1>2. ASSUME NEW r \in Requests, Inserts(r) PROVE RecordGrows
  BY <1>2 DEF Inserts, RecordGrows, IInv, TypeOK, Rows
<1>3. ASSUME NEW r \in Requests, Closes(r) PROVE RecordGrows
  <2> DEFINE s == call[r].target
             row == Closed(sessions[s], call[r])
  <2>1. /\ s \in Rows(sessions) /\ call[r] \in Call /\ evidence[r] = NULL
        /\ call[r].now \in Instant /\ call[r].rule \in Rules
        /\ sessions[s] \in Session /\ sessions[s].status = "open"
        /\ sessions[s].origOut = NULL
    BY <1>3 DEF Closes, IInv, OpenHasNoOut
  <2>2. /\ row # NULL /\ row.status # "open"
        /\ row.trainee = sessions[s].trainee /\ row.date = sessions[s].date
        /\ row.origIn = sessions[s].origIn
    BY <2>1, ClosedRow, RowAssumption
  <2>3. /\ sessions' = [sessions EXCEPT ![s] = row]
        /\ evidence' = [evidence EXCEPT ![r] = NewEvidence(call[r])]
        /\ journals \subseteq journals'
    BY <1>3 DEF Closes
  <2> HIDE DEF row, s
  <2> QED
    BY <2>1, <2>2, <2>3 DEF RecordGrows, IInv, TypeOK, Rows
<1> QED
  BY <1>1, <1>2, <1>3, TableSteps

-------------------------------------------------------------------------------
(* The record: sessions, evidence and journals agree.                      *)

\* An open day is as its Time In left it.
OpenIsFresh ==
  \A s \in Rows(sessions) : sessions[s].status = "open" =>
    /\ sessions[s].effIn = sessions[s].origIn
    /\ sessions[s].origOut = NULL
    /\ sessions[s].effOut = NULL
    /\ sessions[s].credited = NULL

\* A handler's instant has passed, and is after the time in of the day it is
\* about to close; effective times have passed, the time in first.
TimesRunForward ==
  /\ \A r \in Requests : call[r] # NULL =>
       /\ call[r].now # NULL => call[r].now <= clock
       /\ call[r].pc = "commit" => sessions[call[r].target].effIn < call[r].now
  /\ \A s \in Rows(sessions) :
       /\ sessions[s].effIn <= clock
       /\ sessions[s].effOut # NULL =>
            sessions[s].effIn < sessions[s].effOut /\ sessions[s].effOut <= clock

RecordInv ==
  /\ EvidenceBacksSession
  /\ FlagsTellTheEvidence
  /\ CreditedIsComputed
  /\ ClosedDayHasJournal
  /\ OpenIsFresh
  /\ TimesRunForward

\* The flags that the evidence of a session raises.
EvidenceOf(s) == {d \in Rows(evidence) : evidence[d].session = s}
EvidenceFlags(s) == UNION {flagsFor(evidence[e].location) : e \in EvidenceOf(s)}

FlagsOf(row, raised) ==
  /\ row.flags = raised
       \cup (IF row.origOut = NULL THEN {}
             ELSE durationFlags(Elapsed(row.origIn, row.origOut)))
  /\ row.status = "valid" => row.flags = {}
  /\ row.status = "flagged" => row.flags # {}

\* FlagsTellTheEvidence, row by row.
LEMMA FlagsByRow ==
  /\ FlagsTellTheEvidence <=>
       \A s \in Rows(sessions) : FlagsOf(sessions[s], EvidenceFlags(s))
  /\ FlagsTellTheEvidence' <=>
       \A s \in Rows(sessions)' : FlagsOf(sessions'[s], EvidenceFlags(s)')
  BY Zenon DEF FlagsTellTheEvidence, FlagsOf, EvidenceFlags, EvidenceOf

\* A day just begun.
LEMMA NewRow ==
  ASSUME NEW c \in Call, c.now \in Instant
  PROVE  /\ NewSession(c) \in Session /\ NewSession(c) # NULL
         /\ NewSession(c).trainee = c.trainee
         /\ NewSession(c).date = LocalDate(c.now)
         /\ NewSession(c).status = "open"
         /\ NewSession(c).origIn = c.now /\ NewSession(c).effIn = c.now
         /\ NewSession(c).origOut = NULL /\ NewSession(c).effOut = NULL
         /\ NewSession(c).credited = NULL
         /\ NewSession(c).flags = flagsFor(EvaluateLocation(c.fix))
<1>1. NewSession(c) \in Session
  BY NewRowTypes
<1> QED
  BY <1>1, RowAssumption DEF NewSession

\* The evidence of a call.
LEMMA NewProof ==
  ASSUME NEW c \in Call, c.now \in Instant
  PROVE  /\ NewEvidence(c) \in Evidence /\ NewEvidence(c) # NULL
         /\ NewEvidence(c).session = c.target
         /\ NewEvidence(c).trainee = c.trainee
         /\ NewEvidence(c).action = c.action
         /\ NewEvidence(c).at = c.now
         /\ NewEvidence(c).location = EvaluateLocation(c.fix)
<1>1. NewEvidence(c) \in Evidence
  BY NewRowTypes
<1> QED
  BY <1>1, RowAssumption DEF NewEvidence

\* A day closed by its Time Out.
LEMMA ClosedRowEffects ==
  ASSUME NEW row \in Session, NEW c \in Call, c.now \in Instant, c.rule \in Rules
  PROVE  /\ Closed(row, c).effIn = row.effIn
         /\ Closed(row, c).effOut = c.now
         /\ Closed(row, c).credited = CreditedMinutes(row.effIn, c.now, c.rule)
         /\ Closed(row, c).flags =
              row.flags \cup flagsFor(EvaluateLocation(c.fix))
                        \cup durationFlags(Elapsed(row.effIn, c.now))
         /\ Closed(row, c).status = "valid" <=> Closed(row, c).flags = {}
         /\ Closed(row, c).status = "flagged" <=> Closed(row, c).flags # {}
  BY DEF Closed, Session

\* The record stays whole when a Time In inserts its session and its evidence.
LEMMA InsertKeepsRecord ==
  ASSUME IInv, RecordInv, NEW r \in Requests, Inserts(r)
  PROVE  /\ EvidenceBacksSession' /\ FlagsTellTheEvidence'
         /\ CreditedIsComputed' /\ ClosedDayHasJournal' /\ OpenIsFresh'
<1> DEFINE c == call[r]
           row == NewSession(c)
           ev == NewEvidence(c)
<1>1. /\ c \in Call /\ c.now \in Instant /\ c.action = "time_in" /\ c.target = r
      /\ sessions[r] = NULL /\ evidence[r] = NULL
  BY DEF Inserts
<1>2. /\ row \in Session /\ row # NULL
      /\ row.trainee = c.trainee /\ row.date = LocalDate(c.now)
      /\ row.status = "open"
      /\ row.origIn = c.now /\ row.effIn = c.now
      /\ row.origOut = NULL /\ row.effOut = NULL /\ row.credited = NULL
      /\ row.flags = flagsFor(EvaluateLocation(c.fix))
  BY <1>1, NewRow
<1>3. /\ ev \in Evidence /\ ev # NULL
      /\ ev.session = r /\ ev.trainee = c.trainee /\ ev.action = "time_in"
      /\ ev.at = c.now /\ ev.location = EvaluateLocation(c.fix)
  BY <1>1, NewProof
<1>4. /\ sessions' = [sessions EXCEPT ![r] = row]
      /\ evidence' = [evidence EXCEPT ![r] = ev]
      /\ journals' = journals
  BY DEF Inserts
<1> HIDE DEF row, ev, c
<1>5. /\ sessions'[r] = row /\ evidence'[r] = ev
      /\ \A x \in Requests \ {r} : sessions'[x] = sessions[x] /\ evidence'[x] = evidence[x]
  BY <1>4 DEF IInv, TypeOK
<1>6. /\ Rows(sessions)' = Rows(sessions) \cup {r}
      /\ Rows(evidence)' = Rows(evidence) \cup {r}
      /\ r \notin Rows(sessions) /\ r \notin Rows(evidence)
      /\ Rows(sessions) \subseteq Requests /\ Rows(evidence) \subseteq Requests
  BY <1>1, <1>2, <1>3, <1>5 DEF Rows
<1>7. \A e \in Rows(evidence) : evidence[e].session \in Rows(sessions)
  BY DEF RecordInv, EvidenceBacksSession
<1>8. EvidenceBacksSession'
  <2>1. /\ \A s \in Rows(sessions) : s # r /\ sessions'[s] = sessions[s] /\ evidence'[s] = evidence[s]
        /\ \A s \in Rows(evidence) : s # r /\ evidence'[s] = evidence[s]
    BY <1>5, <1>6
  <2>2. \A s \in Rows(sessions)' : 
          /\ evidence'[s] # NULL
          /\ evidence'[s].action = "time_in"
          /\ evidence'[s].session = s
          /\ evidence'[s].trainee = sessions'[s].trainee
          /\ evidence'[s].at = sessions'[s].origIn
          /\ LocalDate(evidence'[s].at) = sessions'[s].date
    BY <1>2, <1>3, <1>5, <1>6, <2>1 DEF RecordInv, EvidenceBacksSession
  <2>3. \A s \in Rows(sessions)' : sessions'[s].origOut # NULL =>
            \E e \in Rows(evidence)' :
              evidence'[e].action = "time_out" /\ evidence'[e].session = s
    BY <1>2, <1>3, <1>5, <1>6, <2>1 DEF RecordInv, EvidenceBacksSession
  <2>4. \A e \in Rows(evidence)' :
          /\ evidence'[e].session \in Rows(sessions)'
          /\ evidence'[e].trainee = sessions'[evidence'[e].session].trainee
          /\ evidence'[e].action = "time_in" => evidence'[e].session = e
    BY <1>2, <1>3, <1>5, <1>6, <1>7, <2>1 DEF RecordInv, EvidenceBacksSession
  <2>5. \A e \in Rows(evidence)' : evidence'[e].action = "time_out" =>
            /\ evidence'[e].at = sessions'[evidence'[e].session].origOut
            /\ \A d \in Rows(evidence)' :
                 evidence'[d].action = "time_out"
                 /\ evidence'[d].session = evidence'[e].session => d = e
    BY <1>3, <1>5, <1>6, <1>7, <2>1 DEF RecordInv, EvidenceBacksSession
  <2> QED
    BY <2>2, <2>3, <2>4, <2>5 DEF EvidenceBacksSession
<1>9. FlagsTellTheEvidence'
  <2>1. EvidenceOf(r)' = {r}
    BY <1>3, <1>5, <1>6, <1>7 DEF EvidenceOf
  <2>2. EvidenceFlags(r)' = row.flags
    BY <1>2, <1>3, <1>5, <2>1 DEF EvidenceFlags
  <2>3. ASSUME NEW s \in Rows(sessions) PROVE EvidenceFlags(s)' = EvidenceFlags(s)
    <3>1. EvidenceOf(s)' = EvidenceOf(s) /\ r \notin EvidenceOf(s)
          /\ EvidenceOf(s) \subseteq Requests
      BY <1>3, <1>5, <1>6 DEF EvidenceOf
    <3>2. \A e \in EvidenceOf(s) : evidence'[e] = evidence[e]
      BY <1>5, <3>1
    <3> QED
      BY <3>1, <3>2 DEF EvidenceFlags
  <2> SUFFICES ASSUME NEW s \in Rows(sessions)'
               PROVE  FlagsOf(sessions'[s], EvidenceFlags(s)')
    BY FlagsByRow
  <2>4. CASE s = r
    BY <1>2, <1>5, <2>2, <2>4 DEF FlagsOf
  <2>5. CASE s \in Rows(sessions)
    <3>1. sessions'[s] = sessions[s]
      BY <1>5, <1>6, <2>5
    <3> QED
      BY <2>3, <2>5, <3>1, FlagsByRow DEF RecordInv
  <2> QED
    BY <1>6, <2>4, <2>5
<1>10. \A s \in Rows(sessions) : sessions'[s] = sessions[s]
  BY <1>5, <1>6
<1>11. CreditedIsComputed' /\ OpenIsFresh'
  BY <1>2, <1>5, <1>6, <1>10 DEF RecordInv, CreditedIsComputed, OpenIsFresh
<1>12. ClosedDayHasJournal'
  BY <1>2, <1>4, <1>5, <1>6, <1>10 DEF RecordInv, ClosedDayHasJournal
<1> QED
  BY <1>8, <1>9, <1>11, <1>12

\* The record stays whole when a Time Out closes its session.
LEMMA CloseKeepsRecord ==
  ASSUME IInv, RecordInv, NEW r \in Requests, Closes(r),
         NEW t \in Requests, call[r].target = t
  PROVE  /\ EvidenceBacksSession' /\ FlagsTellTheEvidence'
         /\ CreditedIsComputed' /\ ClosedDayHasJournal' /\ OpenIsFresh'
<1> DEFINE c == call[r]
           old == sessions[t]
           row == Closed(old, c)
           ev == NewEvidence(c)
<1>1. /\ c \in Call /\ c.now \in Instant /\ c.rule \in Rules /\ c.action = "time_out"
      /\ evidence[r] = NULL
      /\ t \in Rows(sessions) /\ old \in Session /\ old.status = "open"
      /\ old.trainee = c.trainee
  BY DEF Closes
<1>2. /\ old.effIn = old.origIn /\ old.origOut = NULL
      /\ old.flags = EvidenceFlags(t)
  <2> HIDE DEF old
  <2>1. old = sessions[t]
    BY DEF old
  <2>2. old.effIn = old.origIn /\ old.origOut = NULL
    BY <1>1, <2>1 DEF RecordInv, OpenIsFresh
  <2>3. FlagsOf(old, EvidenceFlags(t))
    BY <1>1, <2>1, FlagsByRow DEF RecordInv
  <2> QED
    BY <2>2, <2>3 DEF FlagsOf
<1>3. /\ row \in Session /\ row # NULL
      /\ row.trainee = old.trainee /\ row.date = old.date
      /\ row.origIn = old.origIn /\ row.origOut = c.now
      /\ row.status # "open"
  BY <1>1, ClosedRow, RowAssumption
<1>4. /\ row.effIn = old.effIn /\ row.effOut = c.now
      /\ row.credited = CreditedMinutes(old.effIn, c.now, c.rule)
      /\ row.flags = old.flags \cup flagsFor(EvaluateLocation(c.fix))
                        \cup durationFlags(Elapsed(old.effIn, c.now))
      /\ row.status = "valid" <=> row.flags = {}
      /\ row.status = "flagged" <=> row.flags # {}
  BY <1>1, ClosedRowEffects
<1>5. /\ ev \in Evidence /\ ev # NULL
      /\ ev.session = t /\ ev.trainee = c.trainee /\ ev.action = "time_out"
      /\ ev.at = c.now /\ ev.location = EvaluateLocation(c.fix)
  BY <1>1, NewProof
<1>6. /\ sessions' = [sessions EXCEPT ![t] = row]
      /\ evidence' = [evidence EXCEPT ![r] = ev]
      /\ journals' = journals \cup {t}
  BY DEF Closes
<1> HIDE DEF row, ev, old, c
<1>7. /\ sessions'[t] = row /\ evidence'[r] = ev
      /\ \A x \in Requests \ {t} : sessions'[x] = sessions[x]
      /\ \A x \in Requests \ {r} : evidence'[x] = evidence[x]
  BY <1>1, <1>6 DEF IInv, TypeOK, Rows
<1>8. /\ Rows(sessions)' = Rows(sessions)
      /\ Rows(evidence)' = Rows(evidence) \cup {r}
      /\ r \notin Rows(evidence)
      /\ Rows(sessions) \subseteq Requests /\ Rows(evidence) \subseteq Requests
  BY <1>1, <1>3, <1>5, <1>7 DEF Rows
<1>9. /\ \A e \in Rows(evidence) : e # r /\ evidence'[e] = evidence[e]
      /\ \A s \in Rows(sessions) : s # t => sessions'[s] = sessions[s]
  BY <1>7, <1>8
<1>10. old = sessions[t] /\ c.now # NULL
  BY <1>1, NullAssumption, InputAssumption DEF old, Instant
\* The row is open: there is no evidence of a Time Out of it.
<1>11. \A e \in Rows(evidence) :
         /\ evidence[e].session \in Rows(sessions)
         /\ evidence[e].session = t => evidence[e].action # "time_out"
  <2>1. \A e \in Rows(evidence) : evidence[e].at # NULL
    BY EvidenceType, NullAssumption, InputAssumption DEF Evidence, Instant
  <2> QED
    BY <1>2, <1>10, <2>1 DEF RecordInv, EvidenceBacksSession
<1>12. EvidenceBacksSession'
  <2>1. \A s \in Rows(sessions)' :
          /\ evidence'[s] # NULL
          /\ evidence'[s].action = "time_in"
          /\ evidence'[s].session = s
          /\ evidence'[s].trainee = sessions'[s].trainee
          /\ evidence'[s].at = sessions'[s].origIn
          /\ LocalDate(evidence'[s].at) = sessions'[s].date
    <3>1. \A s \in Rows(sessions) : s \in Rows(evidence)
      BY <1>8 DEF RecordInv, EvidenceBacksSession, Rows
    <3> QED
      BY <1>3, <1>7, <1>8, <1>9, <1>10, <3>1 DEF RecordInv, EvidenceBacksSession
  <2>2. \A s \in Rows(sessions)' : sessions'[s].origOut # NULL =>
            \E e \in Rows(evidence)' :
              evidence'[e].action = "time_out" /\ evidence'[e].session = s
    BY <1>5, <1>7, <1>8, <1>9 DEF RecordInv, EvidenceBacksSession
  <2>3. \A e \in Rows(evidence)' :
          /\ evidence'[e].session \in Rows(sessions)'
          /\ evidence'[e].trainee = sessions'[evidence'[e].session].trainee
          /\ evidence'[e].action = "time_in" => evidence'[e].session = e
    BY <1>1, <1>3, <1>5, <1>7, <1>8, <1>9, <1>10, <1>11 DEF RecordInv, EvidenceBacksSession
  <2>4. \A e \in Rows(evidence)' : evidence'[e].action = "time_out" =>
            /\ evidence'[e].at = sessions'[evidence'[e].session].origOut
            /\ \A d \in Rows(evidence)' :
                 evidence'[d].action = "time_out"
                 /\ evidence'[d].session = evidence'[e].session => d = e
    BY <1>3, <1>5, <1>7, <1>8, <1>9, <1>11 DEF RecordInv, EvidenceBacksSession
  <2> QED
    BY <2>1, <2>2, <2>3, <2>4 DEF EvidenceBacksSession
<1>13. FlagsTellTheEvidence'
  <2>1. EvidenceFlags(t)' = EvidenceFlags(t) \cup flagsFor(ev.location)
    <3>1. EvidenceOf(t)' = EvidenceOf(t) \cup {r} /\ EvidenceOf(t) \subseteq Rows(evidence)
      BY <1>5, <1>7, <1>8, <1>9 DEF EvidenceOf
    <3>2. /\ \A e \in EvidenceOf(t) : evidence'[e] = evidence[e]
          /\ evidence'[r] = ev
      BY <1>7, <1>9, <3>1
    <3> QED
      BY <3>1, <3>2 DEF EvidenceFlags
  <2>2. ASSUME NEW s \in Rows(sessions), s # t PROVE EvidenceFlags(s)' = EvidenceFlags(s)
    <3>1. EvidenceOf(s)' = EvidenceOf(s) /\ EvidenceOf(s) \subseteq Rows(evidence)
      BY <1>5, <1>7, <1>8, <1>9, <2>2 DEF EvidenceOf
    <3>2. \A e \in EvidenceOf(s) : evidence'[e] = evidence[e]
      BY <1>9, <3>1
    <3> QED
      BY <3>1, <3>2 DEF EvidenceFlags
  <2> SUFFICES ASSUME NEW s \in Rows(sessions)'
               PROVE  FlagsOf(sessions'[s], EvidenceFlags(s)')
    BY FlagsByRow
  <2>3. CASE s = t
    <3>1. sessions'[s] = row
      BY <1>7, <2>3
    <3>2. row.flags = EvidenceFlags(t)' \cup durationFlags(Elapsed(row.origIn, row.origOut))
      BY <1>2, <1>3, <1>4, <1>5, <2>1
    <3> QED
      BY <1>3, <1>4, <1>10, <2>3, <3>1, <3>2 DEF FlagsOf
  <2>4. CASE s # t
    <3>1. sessions'[s] = sessions[s] /\ s \in Rows(sessions)
      BY <1>8, <1>9, <2>4
    <3> QED
      BY <2>2, <2>4, <3>1, FlagsByRow DEF RecordInv
  <2> QED
    BY <2>3, <2>4
<1>14. CreditedIsComputed'
  BY <1>1, <1>4, <1>7, <1>8, <1>9, <1>10 DEF RecordInv, CreditedIsComputed
<1>15. OpenIsFresh'
  BY <1>3, <1>7, <1>8, <1>9 DEF RecordInv, OpenIsFresh
<1>16. ClosedDayHasJournal'
  BY <1>1, <1>4, <1>6, <1>7, <1>8, <1>9, <1>10 DEF RecordInv, ClosedDayHasJournal
<1> QED
  BY <1>12, <1>13, <1>14, <1>15, <1>16

\* The clock never goes back.
LEMMA ClockSteps ==
  ASSUME IInv, [Next]_vars
  PROVE  clock <= clock'
<1>1. clock \in Int
  BY InputAssumption DEF IInv, TypeOK, Instant
<1>2. ASSUME NEW r \in Requests, Handler(r) PROVE clock' = clock
  BY <1>2 DEF Handler, TimeInReplay, TimeInTx, TimeInRecheck, TimeOutReplay,
              TimeOutPrepare, TimeOutTx, TimeOutCommit, TimeOutRecheck
<1>3. ASSUME NEW r \in Requests, Arrival(r) \/ Crash(r) PROVE clock' = clock
  BY <1>3, ArrivalsAlter DEF Crash
<1> QED
  BY <1>1, <1>2, <1>3 DEF Next, AssignmentUpdate, Tick, vars

\* Time runs forward in every call and in every row.
LEMMA TimesKeep ==
  ASSUME IInv, RecordInv, [Next]_vars
  PROVE  TimesRunForward'
<1>1. /\ clock \in Instant /\ clock' \in Instant /\ clock <= clock'
      /\ Instant \subseteq Int /\ NULL \notin Int
  <2>1. clock \in Instant /\ clock' \in Instant
    BY NextKeeps DEF IInv, TypeOK
  <2> QED
    BY <2>1, ClockSteps, InputAssumption, NullAssumption DEF Instant
<1>2. ASSUME NEW s \in Rows(sessions)'
      PROVE  /\ sessions'[s].effIn <= clock'
             /\ sessions'[s].effOut # NULL =>
                  sessions'[s].effIn < sessions'[s].effOut /\ sessions'[s].effOut <= clock'
  <2>1. s \in Requests
    BY DEF Rows
  <2>2. CASE s \in Rows(sessions) /\ sessions'[s] = sessions[s]
    <3>1. /\ sessions[s].effIn \in Int
          /\ sessions[s].effOut # NULL => sessions[s].effOut \in Int
      BY <1>1, <2>2 DEF IInv, TypeOK, Rows, Session
    <3>2. /\ sessions[s].effIn <= clock
          /\ sessions[s].effOut # NULL =>
               sessions[s].effIn < sessions[s].effOut /\ sessions[s].effOut <= clock
      BY <2>2, Zenon DEF RecordInv, TimesRunForward
    <3>3. clock \in Int /\ clock' \in Int /\ clock <= clock'
      BY <1>1
    <3> QED
      BY <2>2, <3>1, <3>2, <3>3
  <2>3. ASSUME NEW r \in Requests, Inserts(r), s = r
        PROVE  /\ sessions'[s].effIn <= clock'
               /\ sessions'[s].effOut = NULL
    <3>1. call[r] \in Call /\ call[r].now \in Instant /\ call[r].now <= clock /\ clock' = clock
      BY <1>1, <2>3 DEF Inserts, RecordInv, TimesRunForward
    <3>2. sessions'[r] = NewSession(call[r])
      BY <2>3 DEF Inserts, IInv, TypeOK
    <3> QED
      BY <2>3, <3>1, <3>2, NewRow
  <2>4. ASSUME NEW r \in Requests, Closes(r), s = call[r].target
        PROVE  /\ sessions'[s].effIn <= clock'
               /\ sessions'[s].effIn < sessions'[s].effOut /\ sessions'[s].effOut <= clock'
    <3>1. /\ call[r] \in Call /\ call[r].now \in Instant /\ call[r].now <= clock
          /\ call[r].rule \in Rules
          /\ sessions[s] \in Session /\ s \in Rows(sessions)
          /\ sessions[s].effIn < call[r].now /\ sessions[s].effIn <= clock
          /\ clock' = clock
      BY <1>1, <2>4 DEF Closes, RecordInv, TimesRunForward
    <3>2. sessions'[s] = Closed(sessions[s], call[r])
      BY <2>1, <2>4 DEF Closes, IInv, TypeOK
    <3> QED
      BY <3>1, <3>2, ClosedRowEffects
  <2>5. CASE UNCHANGED <<sessions, evidence, journals>>
    BY <2>2, <2>5 DEF Rows
  <2>6. ASSUME NEW r \in Requests, Inserts(r) \/ Closes(r),
               ~(Inserts(r) /\ s = r), ~(Closes(r) /\ s = call[r].target)
        PROVE  s \in Rows(sessions) /\ sessions'[s] = sessions[s]
    <3>1. sessions'[s] = sessions[s]
      BY <2>1, <2>6 DEF Inserts, Closes, IInv, TypeOK
    <3> QED
      BY <2>1, <3>1 DEF Rows
  <2> QED
    BY <2>2, <2>3, <2>4, <2>5, <2>6, TableSteps
<1>3. ASSUME NEW q \in Requests, call'[q] # NULL
      PROVE  /\ call'[q].now # NULL => call'[q].now <= clock'
             /\ call'[q].pc = "commit" => sessions'[call'[q].target].effIn < call'[q].now
  <2>1. call'[q].now # NULL => call'[q].now <= clock'
    <3>1. call'[q].now # NULL => call'[q].now \in Int
      BY <1>1, <1>3, NextKeeps DEF IInv, TypeOK, Call
    <3>2. CASE call'[q] = call[q] \/ (call[q] # NULL /\ call'[q].now = call[q].now)
      <4>1. call[q] # NULL /\ call'[q].now = call[q].now
        BY <1>3, <3>2
      <4> QED
        BY <1>1, <3>1, <4>1 DEF RecordInv, TimesRunForward
    <3>3. CASE call'[q].now \in {NULL, clock}
      BY <1>1, <3>3
    <3> QED
      BY <1>3, <3>2, <3>3, CallSteps DEF CallStep
  <2>2. ASSUME call'[q].pc = "commit"
        PROVE  sessions'[call'[q].target].effIn < call'[q].now
    <3>1. CASE call'[q] = call[q]
      <4>1. /\ call[q] # NULL /\ call[q].pc = "commit"
            /\ sessions[call[q].target].effIn < call[q].now
        BY <1>3, <2>2, <3>1 DEF RecordInv, TimesRunForward
      <4>2. call[q].target \in Rows(sessions) /\ call[q].target \in Requests
        BY <4>1, CommitFacts DEF Rows
      <4>3. sessions'[call[q].target] = sessions[call[q].target]
        <5>1. ASSUME NEW r \in Requests, Inserts(r)
              PROVE  sessions'[call[q].target] = sessions[call[q].target]
          BY <4>2, <5>1 DEF Inserts, IInv, TypeOK, Rows
        <5>2. ASSUME NEW r \in Requests, Closes(r)
              PROVE  sessions'[call[q].target] = sessions[call[q].target]
          <6>1. CASE call[r].target # call[q].target
            BY <4>2, <5>2, <6>1 DEF Closes, IInv, TypeOK
          <6>2. CASE call[r].target = call[q].target
            <7>1. r = q
              BY <4>1, <5>2, <6>2 DEF Closes, IInv, LockedRowsAreStable
            <7>2. evidence'[q] # NULL
              <8>1. NewEvidence(call[r]) # NULL
                BY <5>2, NewProof DEF Closes
              <8> QED
                BY <5>2, <7>1, <8>1 DEF Closes, IInv, TypeOK
            <7>3. call'[q] = NULL
              BY <7>2, NextKeeps DEF IInv, RowsAreAnswered
            <7> QED
              BY <1>3, <7>3
          <6> QED
            BY <6>1, <6>2
        <5> QED
          BY <5>1, <5>2, TableSteps
      <4> QED
        BY <3>1, <4>1, <4>3
    <3>2. CASE /\ call[q] # NULL
               /\ call'[q].now = call[q].now /\ call'[q].target = call[q].target
               /\ RowFree(call[q].target) /\ StillOpen(call[q])
               /\ sessions[call[q].target].effIn < call[q].now
               /\ locked' = locked \cup {call[q].target}
      <4>1. call[q].target \notin locked /\ call[q].target \in locked'
        BY <3>2 DEF RowFree
      <4>2. UNCHANGED <<sessions, evidence, journals>>
        <5>1. ~\E r \in Requests : Inserts(r) \/ Closes(r)
          BY <4>1 DEF Inserts, Closes
        <5> QED
          BY <5>1, TableSteps
      <4> QED
        BY <3>2, <4>2
    <3> QED
      BY <1>3, <2>2, <3>1, <3>2, CallSteps DEF CallStep
  <2> QED
    BY <2>1, <2>2
<1> QED
  BY <1>2, <1>3 DEF TimesRunForward

\* Every step of the write service keeps the record whole.
LEMMA RecordKeeps ==
  ASSUME IInv, RecordInv, [Next]_vars
  PROVE  RecordInv'
<1>1. CASE UNCHANGED <<sessions, evidence, journals>>
  <2>1. /\ EvidenceBacksSession' /\ FlagsTellTheEvidence'
        /\ CreditedIsComputed' /\ ClosedDayHasJournal' /\ OpenIsFresh'
    BY <1>1 DEF RecordInv, EvidenceBacksSession, FlagsTellTheEvidence,
                CreditedIsComputed, ClosedDayHasJournal, OpenIsFresh, Rows
  <2> QED
    BY <2>1, TimesKeep DEF RecordInv
<1> QED
  <2>1. ASSUME NEW r \in Requests, Closes(r) PROVE RecordInv'
    <3>1. call[r].target \in Requests
      BY <2>1 DEF Closes, Call
    <3> QED
      BY <2>1, <3>1, CloseKeepsRecord, TimesKeep DEF RecordInv
  <2> QED
    BY <1>1, <2>1, TableSteps, InsertKeepsRecord, TimesKeep DEF RecordInv

\* An empty record is whole.
LEMMA InitRecord == Init => RecordInv
  BY DEF Init, RecordInv, EvidenceBacksSession, FlagsTellTheEvidence, CreditedIsComputed,
         ClosedDayHasJournal, OpenIsFresh, TimesRunForward, Rows

\* Answers backed by the evidence of one client action tell of one session.
LEMMA BackedAnswersAgree == IInv => IdempotentReplies
<1> SUFFICES ASSUME IInv, NEW q \in Requests, NEW r \in Requests,
                    reply[q] # NULL, reply[r] # NULL,
                    reply[q].trainee = reply[r].trainee,
                    reply[q].key = reply[r].key
             PROVE  /\ /\ reply[q].code \in {"created", "replayed"}
                       /\ reply[r].code \in {"created", "replayed"}
                       => reply[q].session = reply[r].session
                    /\ reply[q].code = "created" /\ reply[r].code = "created" => q = r
  BY DEF IdempotentReplies
<1>1. ASSUME NEW x \in Requests, reply[x] # NULL,
             reply[x].code \in {"created", "replayed"}
      PROVE  \E e \in Rows(evidence) :
               /\ evidence[e].trainee = reply[x].trainee
               /\ evidence[e].key = reply[x].key
               /\ evidence[e].session = reply[x].session
               /\ reply[x].code = "created" => e = x
  BY <1>1 DEF IInv, RepliesAreBacked, Rows
<1> QED
  BY <1>1 DEF IInv, KeysOnce

-------------------------------------------------------------------------------
(* The theorems.                                                           *)

\* The invariant all others follow from: tables and handlers are typed, locals
\* can be trusted, every client action committed once, every answer is backed.
THEOREM Invariance == Spec => []IInv
<1>1. IInv /\ [Next]_vars => IInv'
  BY NextKeeps
<1> QED
  BY <1>1, InitInv, PTL DEF Spec

\* Every table and every handler always holds values of its columns and locals.
THEOREM TypeCorrect == Spec => []TypeOK
<1>1. IInv => TypeOK
  BY DEF IInv
<1> QED
  BY <1>1, Invariance, PTL

\* However Time In calls race, crash or are retried, a trainee never has two
\* sessions on one local date (service.go:6-7).
THEOREM OneSession == Spec => []OneSessionPerDay
<1>1. IInv => OneSessionPerDay
  BY DEF IInv
<1> QED
  BY <1>1, Invariance, PTL

\* Of all calls of a trainee with one client_action_id at most one did the
\* work, and all that were told of a session were told of the same one.
THEOREM Idempotency == Spec => []IdempotentReplies
  BY BackedAnswersAgree, Invariance, PTL

\* While a Time Out is between its row lock and its COMMIT, its session stays
\* open, locked and its own.
THEOREM LocksHold == Spec => []LockedRowsAreStable
<1>1. IInv => LockedRowsAreStable
  BY DEF IInv
<1> QED
  BY <1>1, Invariance, PTL

\* What a client was told was recorded stays recorded at that instant.
THEOREM Durability == Spec => []AcknowledgedIsDurable
<1>1. IInv => AcknowledgedIsDurable
  BY DEF IInv
<1> QED
  BY <1>1, Invariance, PTL

\* No action removes a row, rewrites an original time or reopens a day.
THEOREM RecordIsAppendOnly == Spec => OriginalsImmutable
<1>1. IInv /\ [Next]_vars => [RecordGrows]_vars
  BY GrowsOnly
<1> QED
  BY <1>1, Invariance, PTL DEF Spec, OriginalsImmutable, RecordGrows

\* The record is whole in every reachable state.
THEOREM RecordInvariance == Spec => []RecordInv
<1>1. IInv /\ RecordInv /\ [Next]_vars => RecordInv'
  BY RecordKeeps
<1> QED
  BY <1>1, InitRecord, Invariance, PTL DEF Spec

\* Every session stands on the evidence of its Time In, and has exactly one
\* evidence of a Time Out when and only when it was timed out.
THEOREM EvidenceStands == Spec => []EvidenceBacksSession
<1>1. RecordInv => EvidenceBacksSession
  BY DEF RecordInv
<1> QED
  BY <1>1, RecordInvariance, PTL

\* The flags of a session are those of its evidence and of its duration, and
\* its status says whether it has any (service.go:9).
THEOREM FlagsMatchEvidence == Spec => []FlagsTellTheEvidence
<1>1. RecordInv => FlagsTellTheEvidence
  BY DEF RecordInv
<1> QED
  BY <1>1, RecordInvariance, PTL
================================================================================
