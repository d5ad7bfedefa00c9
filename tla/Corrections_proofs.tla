--------------------------- MODULE Corrections_proofs ---------------------------
(***************************************************************************)
(* Proofs about Corrections: what the write service promises still holds   *)
(* when approvals rewrite days beside it, and a decision is whole, final   *)
(* and the last word on the day it amends.                                 *)
(***************************************************************************)
EXTENDS Corrections, Attendance_proofs, FiniteSetTheorems, SequenceTheorems

-------------------------------------------------------------------------------
(* The inductive invariant.                                                *)

\* No proposed time is in the future.
Passed(p) ==
  /\ p.pIn # NULL => p.pIn <= clock
  /\ p.pOut # NULL => p.pOut <= clock

\* Requests are about days that exist and times that have passed.
RequestsHold ==
  /\ \A c \in Proposals : asking[c] # NULL =>
       /\ corrections[c] = NULL
       /\ asking[c].session \in Rows(sessions)
       /\ Passed(asking[c])
  /\ \A c \in Filed :
       /\ corrections[c].session \in Rows(sessions)
       /\ Passed(corrections[c])

\* The credit of a projection is what the hours rule gives its times.
CreditedAs(a) ==
  IF a.effOut = NULL THEN a.credited = NULL
  ELSE \E q \in Rules : a.credited = CreditedMinutes(a.effIn, a.effOut, q)

\* An open approval is about its own request, with an ordered projection, and
\* no other approval is about the same day.
ApprovalsHold ==
  \A c \in Proposals : deciding[c] # NULL =>
    /\ c \in Filed
    /\ deciding[c].row.correction = c
    /\ deciding[c].row.session = corrections[c].session
    /\ EffectiveOrdered(deciding[c].row)
    /\ CreditedAs(deciding[c].row)
    /\ \A d \in Proposals :
         deciding[d] # NULL /\ corrections[d].session = corrections[c].session => d = c

Approved == {c \in Filed : corrections[c].status = "approved"}
Decided == {c \in Filed : corrections[c].status # "pending"}
CorrectedDays == {s \in Rows(sessions) : sessions[s].status = "corrected"}

\* The parts of DecisionLeavesItsRecord.
AdjustedAreApproved ==
  Approved = {adjustments[i].correction : i \in DOMAIN adjustments}
AdjustedOnce == Len(adjustments) = Cardinality(Approved)
AdjustedOwnDay ==
  \A i \in DOMAIN adjustments :
    adjustments[i].session = corrections[adjustments[i].correction].session
CorrectedAreApproved == CorrectedDays = {corrections[c].session : c \in Approved}
ToldOfDecisions == told = {<<c, corrections[c].status>> : c \in Decided}

RecordOfDecisions ==
  /\ AdjustedAreApproved
  /\ AdjustedOnce
  /\ AdjustedOwnDay
  /\ CorrectedAreApproved
  /\ ToldOfDecisions
  /\ IsFiniteSet(Approved)

\* The adjustments of a day and the latest of them.
AdjustmentsOf(s) == {i \in DOMAIN adjustments : adjustments[i].session = s}
Latest(s) == CHOOSE i \in AdjustmentsOf(s) : \A j \in AdjustmentsOf(s) : j <= i

Follows(row, s) ==
  IF AdjustmentsOf(s) = {} THEN row.effIn = row.origIn /\ row.effOut = row.origOut
  ELSE /\ row.effIn = adjustments[Latest(s)].effIn
       /\ row.effOut = adjustments[Latest(s)].effOut
       /\ row.credited = adjustments[Latest(s)].credited

\* Every day follows the latest of its adjustments, and there is a latest one.
HistoryHolds ==
  /\ \A s \in Rows(sessions) : Follows(sessions[s], s)
  /\ \A s \in Requests : AdjustmentsOf(s) # {} =>
       \E i \in AdjustmentsOf(s) : \A j \in AdjustmentsOf(s) : j <= i

CInv ==
  /\ CTypeOK
  /\ IInv
  /\ RecordInv
  /\ RequestsHold
  /\ ApprovalsHold
  /\ ApprovalHoldsItsRow
  /\ RecordOfDecisions
  /\ HistoryHolds

\* The parts of RecordOfDecisions say what DecisionLeavesItsRecord says.
LEMMA RecordIsWhole == RecordOfDecisions => DecisionLeavesItsRecord
  BY DEF RecordOfDecisions, AdjustedAreApproved, AdjustedOnce, AdjustedOwnDay,
         CorrectedAreApproved, ToldOfDecisions, DecisionLeavesItsRecord,
         Approved, Decided, CorrectedDays

\* HistoryHolds, and times that run forward, are EffectiveIsLatestAdjustment.
LEMMA HistoryIsLatest == HistoryHolds /\ RecordInv => EffectiveIsLatestAdjustment
<1> SUFFICES ASSUME HistoryHolds, RecordInv, NEW s \in Rows(sessions)
             PROVE  /\ Follows(sessions[s], s)
                    /\ sessions[s].effIn <= clock
                    /\ sessions[s].effOut # NULL =>
                         sessions[s].effIn < sessions[s].effOut /\ sessions[s].effOut <= clock
  BY Zenon DEF EffectiveIsLatestAdjustment, Follows, Latest, AdjustmentsOf
<1> QED
  BY DEF HistoryHolds, RecordInv, TimesRunForward

\* What the types say of a request and of its day.
LEMMA FiledFacts ==
  ASSUME CInv, NEW c \in Filed
  PROVE  /\ c \in Proposals /\ corrections[c] \in Correction
         /\ corrections[c].session \in Requests
         /\ sessions[corrections[c].session] \in Session
         /\ corrections[c].session \in Rows(sessions)
  BY DEF CInv, CTypeOK, IInv, TypeOK, RequestsHold, Filed, Rows, Correction

\* A day with an adjustment reads "corrected".
LEMMA AdjustedIsCorrected ==
  ASSUME RecordOfDecisions, NEW i \in DOMAIN adjustments
  PROVE  adjustments[i].session \in CorrectedDays
<1>1. adjustments[i].correction \in Approved
  BY DEF RecordOfDecisions, AdjustedAreApproved
<1> QED
  BY <1>1 DEF RecordOfDecisions, AdjustedOwnDay, CorrectedAreApproved

-------------------------------------------------------------------------------
(* What an approval does to the write service.                             *)

\* Taking or releasing a lock that no Time Out holds disturbs nothing.
LEMMA LockKeeps ==
  ASSUME IInv, RecordInv, locked' \subseteq Requests,
         \A r \in Requests : call[r] # NULL /\ call[r].pc = "commit" =>
           call[r].target \in locked',
         UNCHANGED <<clock, assignment, sessions, evidence, journals, announced, call,
                     reply>>
  PROVE  IInv' /\ RecordInv'
<1>1. TypeOK' /\ LocalsOK' /\ RowsAreAnswered' /\ OneSessionPerDay' /\ RepliesAreBacked'
      /\ OpenHasNoOut' /\ AcknowledgedIsDurable'
  BY DEF IInv, TypeOK, LocalsOK, HandlerOK, RowsAreAnswered, OneSessionPerDay,
         RepliesAreBacked, OpenHasNoOut, AcknowledgedIsDurable, Rows, Instant
<1>2. KeysOnce' /\ LockedRowsAreStable'
  BY DEF IInv, KeysOnce, KeyTaken, findReplay, Rows, LockedRowsAreStable
<1>3. EvidenceBacksSession' /\ FlagsTellTheEvidence' /\ CreditedIsComputed'
      /\ ClosedDayHasJournal' /\ OpenIsFresh' /\ TimesRunForward'
  BY DEF RecordInv, EvidenceBacksSession, FlagsTellTheEvidence, CreditedIsComputed,
         ClosedDayHasJournal, OpenIsFresh, TimesRunForward, Rows
<1> QED
  BY <1>1, <1>2, <1>3 DEF IInv, RecordInv

\* The row an approval leaves: the original times and the flags stay.
LEMMA CorrectedRow ==
  ASSUME NEW row \in Session, NEW a \in Adjustment
  PROVE  /\ Corrected(row, a) \in Session /\ Corrected(row, a) # NULL
         /\ Corrected(row, a).trainee = row.trainee
         /\ Corrected(row, a).date = row.date
         /\ Corrected(row, a).origIn = row.origIn
         /\ Corrected(row, a).origOut = row.origOut
         /\ Corrected(row, a).flags = row.flags
         /\ Corrected(row, a).effIn = a.effIn
         /\ Corrected(row, a).effOut = a.effOut
         /\ Corrected(row, a).credited = Coalesce(a.credited, row.credited)
         /\ Corrected(row, a).status = "corrected"
<1>1. Coalesce(a.credited, row.credited) \in Nat \cup {NULL}
  BY DEF Coalesce, Adjustment, Session
<1>2. Corrected(row, a) \in Session
  BY <1>1 DEF Corrected, Adjustment, Session, Statuses
<1> QED
  BY <1>1, <1>2, RowAssumption DEF Corrected, Session

\* A day whose row changes as an approval changes it, while no Time Out holds
\* it, disturbs no call, no other day and no evidence.
LEMMA AmendKeeps ==
  ASSUME IInv, RecordInv, NEW s \in Rows(sessions), NEW row \in Session,
         row.status = "corrected",
         row.trainee = sessions[s].trainee, row.date = sessions[s].date,
         row.origIn = sessions[s].origIn, row.origOut = sessions[s].origOut,
         row.flags = sessions[s].flags,
         IF row.effOut = NULL THEN row.credited = NULL
         ELSE \E q \in Rules : row.credited = CreditedMinutes(row.effIn, row.effOut, q),
         sessions[s].effOut # NULL => row.effOut # NULL,
         row.effIn <= clock,
         row.effOut # NULL => row.effIn < row.effOut /\ row.effOut <= clock,
         \A r \in Requests : call[r] # NULL /\ call[r].pc = "commit" =>
           call[r].target # s,
         sessions' = [sessions EXCEPT ![s] = row],
         journals' = (IF row.effOut # NULL THEN journals \cup {s} ELSE journals),
         announced' \subseteq Trainees,
         locked' = locked \ {s},
         UNCHANGED <<clock, assignment, evidence, call, reply>>
  PROVE  IInv' /\ RecordInv'
<1>1. s \in Requests /\ sessions[s] # NULL /\ row # NULL /\ Rows(sessions) \subseteq Requests
  BY RowAssumption DEF Rows
<1>2. /\ sessions'[s] = row
      /\ \A x \in Requests \ {s} : sessions'[x] = sessions[x]
  BY <1>1 DEF IInv, TypeOK
<1>3. Rows(sessions)' = Rows(sessions) /\ Rows(evidence)' = Rows(evidence)
  BY <1>1, <1>2 DEF Rows
<1>4. \A x \in Requests :
        /\ sessions'[x] # NULL <=> sessions[x] # NULL
        /\ sessions[x] # NULL =>
             /\ sessions'[x].trainee = sessions[x].trainee
             /\ sessions'[x].date = sessions[x].date
             /\ sessions'[x].origIn = sessions[x].origIn
             /\ sessions'[x].origOut = sessions[x].origOut
             /\ sessions'[x].flags = sessions[x].flags
             /\ sessions'[x].status = "open" => x # s
  BY <1>1, <1>2
<1>5. TypeOK'
  BY <1>1 DEF IInv, TypeOK
<1>6. LocalsOK' /\ RowsAreAnswered' /\ OneSessionPerDay' /\ RepliesAreBacked'
  <2>1. \A q \in Requests : \A x \in Call : HandlerOK(q, x) => HandlerOK(q, x)'
    BY <1>4 DEF HandlerOK, Instant, Call
  <2>2. LocalsOK'
    BY <2>1 DEF IInv, TypeOK, LocalsOK
  <2> QED
    BY <1>3, <1>4, <2>2 DEF IInv, RowsAreAnswered, OneSessionPerDay, RepliesAreBacked,
                            Rows, Instant
<1>7. KeysOnce' /\ OpenHasNoOut'
  BY <1>2, <1>3, <1>4 DEF IInv, KeysOnce, KeyTaken, findReplay, OpenHasNoOut, Rows
<1>8. LockedRowsAreStable'
  <2>1. \A r \in Requests : call[r] # NULL => call[r].target \in Requests
    BY DEF IInv, TypeOK, Call
  <2> QED
    BY <1>2, <2>1 DEF IInv, LockedRowsAreStable
<1>9. AcknowledgedIsDurable'
  BY <1>3, <1>4 DEF IInv, AcknowledgedIsDurable, Rows
<1>10. EvidenceBacksSession'
  <2>1. \A e \in Rows(evidence) : evidence[e].session \in Rows(sessions)
    BY DEF RecordInv, EvidenceBacksSession
  <2>2. \A x \in Rows(sessions) :
          /\ sessions'[x].trainee = sessions[x].trainee
          /\ sessions'[x].date = sessions[x].date
          /\ sessions'[x].origIn = sessions[x].origIn
          /\ sessions'[x].origOut = sessions[x].origOut
    BY <1>4 DEF Rows
  <2>3. evidence' = evidence
    OBVIOUS
  <2>4. \A x \in Rows(sessions)' :
          /\ evidence'[x] # NULL
          /\ evidence'[x].action = "time_in"
          /\ evidence'[x].session = x
          /\ evidence'[x].trainee = sessions'[x].trainee
          /\ evidence'[x].at = sessions'[x].origIn
          /\ LocalDate(evidence'[x].at) = sessions'[x].date
          /\ sessions'[x].origOut # NULL =>
               \E e \in Rows(evidence)' :
                 evidence'[e].action = "time_out" /\ evidence'[e].session = x
    BY <1>3, <2>2, <2>3 DEF RecordInv, EvidenceBacksSession
  <2>5. \A e \in Rows(evidence)' :
          /\ evidence'[e].session \in Rows(sessions)'
          /\ evidence'[e].trainee = sessions'[evidence'[e].session].trainee
          /\ evidence'[e].action = "time_in" => evidence'[e].session = e
          /\ evidence'[e].action = "time_out" =>
               /\ evidence'[e].at = sessions'[evidence'[e].session].origOut
               /\ \A d \in Rows(evidence)' :
                    evidence'[d].action = "time_out"
                    /\ evidence'[d].session = evidence'[e].session => d = e
    BY <1>3, <2>1, <2>2, <2>3 DEF RecordInv, EvidenceBacksSession
  <2> HIDE <2>3
  <2> QED
    BY <2>4, <2>5 DEF EvidenceBacksSession
<1>11. FlagsTellTheEvidence'
  <2>1. \A x : EvidenceFlags(x)' = EvidenceFlags(x)
    BY DEF EvidenceFlags, EvidenceOf, Rows
  <2>2. \A x \in Rows(sessions) : FlagsOf(sessions[x], EvidenceFlags(x))
    BY FlagsByRow DEF RecordInv
  <2>3. \A x \in Rows(sessions) : FlagsOf(sessions'[x], EvidenceFlags(x))
    BY <1>1, <1>2, <2>2 DEF FlagsOf
  <2> QED
    BY <1>3, <2>1, <2>3, FlagsByRow
<1>12. CreditedIsComputed'
  BY <1>1, <1>2, <1>3 DEF RecordInv, CreditedIsComputed
<1>13. ClosedDayHasJournal'
  BY <1>1, <1>2, <1>3 DEF RecordInv, ClosedDayHasJournal
<1>14. OpenIsFresh' /\ TimesRunForward'
  <2>1. OpenIsFresh'
    BY <1>1, <1>2, <1>3 DEF RecordInv, OpenIsFresh
  <2>2. \A r \in Requests : call[r] # NULL => call[r].target \in Requests
    BY DEF IInv, TypeOK, Call
  <2> QED
    BY <1>1, <1>2, <1>3, <2>1, <2>2 DEF RecordInv, TimesRunForward
<1> QED
  BY <1>5, <1>6, <1>7, <1>8, <1>9, <1>10, <1>11, <1>12, <1>13, <1>14 DEF IInv, RecordInv

-------------------------------------------------------------------------------
(* The initial states.                                                     *)

\* The services start with empty tables and idle handlers.
LEMMA CInitInv == CInit => CInv
<1> SUFFICES ASSUME CInit PROVE CInv
  OBVIOUS
<1>1. IInv /\ RecordInv
  BY InitInv, InitRecord DEF CInit
<1>2. Rows(sessions) = {} /\ Filed = {} /\ adjustments = <<>>
  BY DEF CInit, Init, Rows, Filed
<1>3. CTypeOK
  BY <1>1 DEF CInit, CTypeOK, IInv
<1>4. RequestsHold /\ ApprovalsHold /\ ApprovalHoldsItsRow
  BY <1>2 DEF CInit, RequestsHold, ApprovalsHold, ApprovalHoldsItsRow
<1>5. Approved = {} /\ Decided = {} /\ CorrectedDays = {}
  BY <1>2 DEF Approved, Decided, CorrectedDays
<1>6. RecordOfDecisions
  <2>1. AdjustedAreApproved /\ AdjustedOwnDay
    BY <1>2, <1>5 DEF AdjustedAreApproved, AdjustedOwnDay
  <2>2. AdjustedOnce /\ IsFiniteSet(Approved)
    BY <1>2, <1>5, FS_EmptySet DEF AdjustedOnce
  <2>3. CorrectedAreApproved
    BY <1>5 DEF CorrectedAreApproved
  <2>4. ToldOfDecisions
    BY <1>5 DEF ToldOfDecisions, CInit
  <2> QED
    BY <2>1, <2>2, <2>3, <2>4 DEF RecordOfDecisions
<1>7. HistoryHolds
  BY <1>2 DEF HistoryHolds, AdjustmentsOf
<1> QED
  BY <1>1, <1>3, <1>4, <1>6, <1>7 DEF CInv

-------------------------------------------------------------------------------
(* A step of the write service.                                            *)

\* What it does to the days: an open one may be closed by the Time Out that
\* holds it, and new ones are open.
LEMMA RowSteps ==
  ASSUME IInv, [Next]_vars
  PROVE  /\ Rows(sessions) \subseteq Rows(sessions)'
         /\ \A s \in Rows(sessions) :
              \/ sessions'[s] = sessions[s]
              \/ /\ sessions[s].status = "open"
                 /\ \E r \in Requests : /\ call[r] # NULL /\ call[r].pc = "commit"
                                        /\ call[r].target = s
                 /\ sessions'[s].origIn = sessions[s].origIn
                 /\ sessions'[s].effIn = sessions[s].effIn
                 /\ sessions'[s].effOut = sessions'[s].origOut
                 /\ sessions'[s].origOut # NULL
                 /\ sessions'[s].status \notin {"open", "corrected"}
         /\ \A s \in Rows(sessions)' \ Rows(sessions) :
              /\ sessions'[s].status = "open"
              /\ sessions'[s].effIn = sessions'[s].origIn
              /\ sessions'[s].effOut = sessions'[s].origOut
<1>1. CASE UNCHANGED <<sessions, evidence, journals>>
  BY <1>1 DEF Rows
<1>2. CASE \E r \in Requests : Inserts(r)
  <2>1. PICK r \in Requests : Inserts(r)
    BY <1>2
  <2>2. /\ NewSession(call[r]) # NULL /\ NewSession(call[r]).status = "open"
        /\ NewSession(call[r]).effIn = NewSession(call[r]).origIn
        /\ NewSession(call[r]).effOut = NewSession(call[r]).origOut
    BY <2>1, NewRow DEF Inserts
  <2>3. /\ sessions'[r] = NewSession(call[r]) /\ sessions[r] = NULL
        /\ \A x \in Requests \ {r} : sessions'[x] = sessions[x]
    BY <2>1 DEF Inserts, IInv, TypeOK
  <2> QED
    BY <2>2, <2>3 DEF Rows
<1>3. CASE \E r \in Requests : Closes(r)
  <2>1. PICK r \in Requests : Closes(r)
    BY <1>3
  <2> DEFINE s == call[r].target
             row == Closed(sessions[s], call[r])
  <2>2. /\ call[r] \in Call /\ call[r].now \in Instant /\ call[r].rule \in Rules
        /\ call[r] # NULL /\ call[r].pc = "commit"
        /\ s \in Requests /\ sessions[s] # NULL
        /\ sessions[s] \in Session /\ sessions[s].status = "open"
    BY <2>1 DEF Closes, Rows
  <2>3. /\ row # NULL /\ row.origIn = sessions[s].origIn /\ row.origOut = call[r].now
        /\ row.effIn = sessions[s].effIn /\ row.effOut = call[r].now
        /\ row.status \notin {"open", "corrected"}
    BY <2>2, ClosedRow, ClosedRowEffects, RowAssumption
  <2>4. call[r].now # NULL
    BY <2>2, NullAssumption, InputAssumption DEF Instant
  <2>5. sessions' = [sessions EXCEPT ![s] = row]
    BY <2>1 DEF Closes
  <2> HIDE DEF row
  <2>6. sessions'[s] = row /\ \A x \in Requests \ {s} : sessions'[x] = sessions[x]
    BY <2>2, <2>5 DEF IInv, TypeOK
  <2> QED
    BY <2>2, <2>3, <2>4, <2>6 DEF Rows
<1> QED
  BY <1>1, <1>2, <1>3, TableSteps

\* Handlers and approvals keep out of each other's days.
LEMMA ApprovedDayIsLeftAlone ==
  ASSUME CInv, [Next]_vars, UNCHANGED corrVars, NEW c \in Proposals, deciding[c] # NULL
  PROVE  /\ corrections[c].session \in locked'
         /\ sessions'[corrections[c].session] = sessions[corrections[c].session]
         /\ \A r \in Requests : call'[r] # NULL /\ call'[r].pc = "commit" =>
              call'[r].target # corrections[c].session
<1> DEFINE s == corrections[c].session
<1>1. /\ IInv /\ c \in Filed /\ s \in locked
      /\ \A r \in Requests : call[r] # NULL /\ call[r].pc = "commit" => call[r].target # s
  BY DEF CInv, ApprovalsHold, ApprovalHoldsItsRow
<1>2. s \in Rows(sessions)
  BY <1>1, FiledFacts
<1>3. s \in locked'
  BY <1>1, LockSteps
<1>4. sessions'[s] = sessions[s]
  BY <1>1, <1>2, RowSteps
<1>5. ASSUME NEW r \in Requests, call'[r] # NULL, call'[r].pc = "commit"
      PROVE  call'[r].target # s
  BY <1>1, <1>5, CallSteps DEF CallStep, RowFree
<1> QED
  BY <1>3, <1>4, <1>5

\* The write service keeps what the corrections rely on.
LEMMA AttendanceKeeps ==
  ASSUME CInv, [Next]_vars, UNCHANGED corrVars
  PROVE  CInv'
<1>1. IInv' /\ RecordInv' /\ IInv
  BY NextKeeps, RecordKeeps DEF CInv
<1>2. UNCHANGED <<corrections, adjustments, told, asking, deciding>>
  BY DEF corrVars
<1>3. CTypeOK'
  BY <1>1, <1>2 DEF CInv, CTypeOK, IInv
<1>4. /\ Rows(sessions) \subseteq Rows(sessions)' /\ Filed' = Filed
      /\ Rows(sessions) \subseteq Requests
  BY <1>1, <1>2, RowSteps DEF Filed, Rows
<1>5. clock \in Int /\ clock' \in Int /\ clock <= clock' /\ NULL \notin Int /\ Instant \subseteq Int
  <2>1. clock \in Int /\ clock' \in Int /\ Instant \subseteq Int
    BY <1>1, InputAssumption DEF IInv, TypeOK, Instant
  <2>2. clock <= clock'
    BY <1>1, <2>1, ClockSteps
  <2> QED
    BY <2>1, <2>2, NullAssumption
<1>6. RequestsHold'
  <2>1. ASSUME NEW p, p \in Proposal \cup Correction, Passed(p) PROVE Passed(p)'
    <3>1. /\ p.pIn # NULL => p.pIn \in Int
          /\ p.pOut # NULL => p.pOut \in Int
      BY <1>5, <2>1 DEF Proposal, Correction
    <3> QED
      BY <1>5, <2>1, <3>1 DEF Passed
  <2>2. /\ \A c \in Proposals : asking[c] # NULL => asking[c] \in Proposal
        /\ \A c \in Filed : corrections[c] \in Correction
    BY FiledFacts DEF CInv, CTypeOK
  <2>3. \A c \in Proposals : asking[c] # NULL => Passed(asking[c])'
    BY <1>2, <2>1, <2>2 DEF CInv, RequestsHold, Passed
  <2>4. \A c \in Filed : Passed(corrections[c])'
    BY <1>2, <2>1, <2>2 DEF CInv, RequestsHold, Passed
  <2> QED
    BY <1>2, <1>4, <2>3, <2>4 DEF CInv, RequestsHold
<1>7. ApprovalsHold'
  BY <1>2, <1>4 DEF CInv, ApprovalsHold, EffectiveOrdered, CreditedAs
<1>8. ApprovalHoldsItsRow'
  <2> SUFFICES ASSUME NEW c \in Proposals, deciding'[c] # NULL
               PROVE  /\ corrections'[c].status = "pending"
                      /\ corrections'[c].session \in locked'
                      /\ deciding'[c].row.effIn = Projection(c)'.effIn
                      /\ deciding'[c].row.effOut = Projection(c)'.effOut
                      /\ \A r \in Requests : call'[r] # NULL /\ call'[r].pc = "commit" =>
                           call'[r].target # corrections'[c].session
    BY Zenon DEF ApprovalHoldsItsRow
  <2>1. deciding[c] # NULL /\ deciding'[c] = deciding[c] /\ corrections'[c] = corrections[c]
    BY <1>2
  <2>2. /\ corrections[c].session \in locked'
        /\ sessions'[corrections[c].session] = sessions[corrections[c].session]
        /\ \A r \in Requests : call'[r] # NULL /\ call'[r].pc = "commit" =>
             call'[r].target # corrections[c].session
    BY <2>1, ApprovedDayIsLeftAlone
  <2>3. /\ Projection(c)'.effIn = Projection(c).effIn
        /\ Projection(c)'.effOut = Projection(c).effOut
    BY <2>1, <2>2 DEF Projection
  <2> QED
    BY <2>1, <2>2, <2>3 DEF CInv, ApprovalHoldsItsRow
<1>9. RecordOfDecisions'
  <2>1. Approved' = Approved /\ Decided' = Decided
    BY <1>2, <1>4 DEF Approved, Decided
  <2>2. CorrectedDays' = CorrectedDays
    BY <1>1, <1>4, RowSteps DEF CorrectedDays
  <2> QED
    BY <1>2, <2>1, <2>2 DEF CInv, RecordOfDecisions, AdjustedAreApproved, AdjustedOnce,
       AdjustedOwnDay, CorrectedAreApproved, ToldOfDecisions
<1>10. HistoryHolds'
  <2>1. \A s : AdjustmentsOf(s)' = AdjustmentsOf(s)
    BY <1>2 DEF AdjustmentsOf
  <2>2. ASSUME NEW s \in Rows(sessions)' PROVE Follows(sessions'[s], s)
    <3>1. CASE s \in Rows(sessions) /\ sessions'[s] = sessions[s]
      BY <3>1 DEF CInv, HistoryHolds
    <3>2. CASE s \notin Rows(sessions) \/ sessions[s].status = "open"
      <4>1. AdjustmentsOf(s) = {}
        BY <3>2, AdjustedIsCorrected DEF CInv, AdjustmentsOf, CorrectedDays
      <4>2. s \in Rows(sessions) => sessions[s].effIn = sessions[s].origIn
        BY <3>2 DEF CInv, RecordInv, OpenIsFresh
      <4>3. s \in Rows(sessions) => sessions[s].effOut = sessions[s].origOut
        BY <3>2 DEF CInv, RecordInv, OpenIsFresh
      <4> QED
        BY <1>1, <4>1, <4>2, <4>3, RowSteps DEF Follows
    <3> QED
      BY <1>1, <3>1, <3>2, RowSteps
  <2>3. \A s \in Rows(sessions)' : Follows(sessions[s], s)'
    BY <1>2, <2>1, <2>2 DEF Follows, Latest
  <2> QED
    BY <1>2, <2>1, <2>3 DEF CInv, HistoryHolds
<1> QED
  BY <1>1, <1>3, <1>6, <1>7, <1>8, <1>9, <1>10 DEF CInv

-------------------------------------------------------------------------------
(* Requests and rejections: no day changes.                                *)

\* A step that leaves the write service alone keeps its invariants.
LEMMA ServiceUnchanged ==
  ASSUME CInv, UNCHANGED vars
  PROVE  IInv' /\ RecordInv'
  BY NextKeeps, RecordKeeps DEF CInv

\* Approvals hold their rows as long as their requests and the service stay.
LEMMA ApprovalsUnchanged ==
  ASSUME CInv, UNCHANGED <<vars, deciding>>,
         \A c \in Proposals : deciding[c] # NULL => corrections'[c] = corrections[c]
  PROVE  ApprovalHoldsItsRow' /\ ApprovalsHold'
<1>1. ASSUME NEW c \in Proposals, deciding'[c] # NULL
      PROVE  /\ deciding[c] # NULL /\ deciding'[c] = deciding[c]
             /\ corrections'[c] = corrections[c] /\ c \in Filed /\ c \in Filed'
             /\ Projection(c)' = Projection(c)
  BY <1>1 DEF CInv, ApprovalsHold, Filed, vars, Projection
<1>2. ApprovalHoldsItsRow'
  <2> SUFFICES ASSUME NEW c \in Proposals, deciding'[c] # NULL
               PROVE  /\ corrections'[c].status = "pending"
                      /\ corrections'[c].session \in locked'
                      /\ deciding'[c].row.effIn = Projection(c)'.effIn
                      /\ deciding'[c].row.effOut = Projection(c)'.effOut
                      /\ \A r \in Requests : call'[r] # NULL /\ call'[r].pc = "commit" =>
                           call'[r].target # corrections'[c].session
    BY Zenon DEF ApprovalHoldsItsRow
  <2> QED
    BY <1>1 DEF CInv, ApprovalHoldsItsRow, vars
<1>3. ApprovalsHold'
  BY <1>1 DEF CInv, ApprovalsHold, EffectiveOrdered, CreditedAs
<1> QED
  BY <1>2, <1>3

\* The history of the days stays when neither they nor their adjustments change.
LEMMA HistoryUnchanged ==
  ASSUME CInv, UNCHANGED <<sessions, adjustments>>
  PROVE  HistoryHolds'
<1>1. /\ Rows(sessions)' = Rows(sessions)
      /\ \A s : AdjustmentsOf(s)' = AdjustmentsOf(s)
  BY DEF Rows, AdjustmentsOf
<1>2. \A s \in Rows(sessions) : Follows(sessions[s], s)' <=> Follows(sessions[s], s)
  BY <1>1 DEF Follows, Latest
<1> QED
  BY <1>1, <1>2 DEF CInv, HistoryHolds

\* A validated proposal is typed, of a day that exists, and in the past.
LEMMA RequestValidateKeeps ==
  ASSUME CInv, NEW c \in Proposals, NEW s \in Requests,
         NEW pIn \in Instant \cup {NULL}, NEW pOut \in Instant \cup {NULL},
         RequestValidate(c, s, pIn, pOut)
  PROVE  CInv'
<1> DEFINE p == [session |-> s, pIn |-> pIn, pOut |-> pOut]
<1>1. /\ corrections[c] = NULL /\ s \in Rows(sessions)
      /\ asking' = [asking EXCEPT ![c] = p]
      /\ UNCHANGED <<vars, corrections, adjustments, told, deciding>>
  BY DEF RequestValidate, Rows
<1>2. p \in Proposal /\ Passed(p)
  BY DEF RequestValidate, ValidProposal, Proposal, Passed
<1> HIDE DEF p
<1>3. IInv' /\ RecordInv' /\ UNCHANGED <<clock, sessions>>
  BY <1>1, ServiceUnchanged DEF vars
<1>4. CTypeOK'
  BY <1>1, <1>2, <1>3 DEF CInv, CTypeOK, IInv
<1>5. RequestsHold'
  <2>1. /\ asking'[c] = p /\ p.session = s
        /\ \A d \in Proposals \ {c} : asking'[d] = asking[d]
    BY <1>1 DEF CInv, CTypeOK, p
  <2> QED
    BY <1>1, <1>2, <1>3, <2>1 DEF CInv, RequestsHold, Filed, Rows, Passed
<1>6. ApprovalHoldsItsRow' /\ ApprovalsHold'
  BY <1>1, ApprovalsUnchanged
<1>7. RecordOfDecisions'
  BY <1>1, <1>3 DEF CInv, RecordOfDecisions, AdjustedAreApproved, AdjustedOnce,
     AdjustedOwnDay, CorrectedAreApproved, ToldOfDecisions, Approved, Decided,
     CorrectedDays, Filed, Rows
<1> QED
  BY <1>1, <1>3, <1>4, <1>5, <1>6, <1>7, HistoryUnchanged DEF CInv

\* A request is filed pending, or not at all.
LEMMA RequestInsertKeeps ==
  ASSUME CInv, NEW c \in Proposals, RequestInsert(c)
  PROVE  CInv'
<1> DEFINE p == asking[c]
           row == [session |-> p.session, pIn |-> p.pIn, pOut |-> p.pOut,
                   status |-> "pending"]
<1>1. /\ p # NULL /\ asking' = [asking EXCEPT ![c] = NULL]
      /\ UNCHANGED <<vars, adjustments, told, deciding>>
      /\ corrections' = corrections \/ corrections' = [corrections EXCEPT ![c] = row]
  BY DEF RequestInsert
<1>2. /\ p \in Proposal /\ corrections[c] = NULL /\ c \notin Filed
      /\ p.session \in Rows(sessions) /\ Passed(p)
  BY <1>1 DEF CInv, CTypeOK, RequestsHold, Filed
<1>3. /\ row \in Correction /\ row # NULL /\ row.status = "pending"
      /\ row.session = p.session /\ row.pIn = p.pIn /\ row.pOut = p.pOut
  <2>1. row \in Correction
    BY <1>2 DEF Proposal, Correction
  <2> QED
    BY <2>1, RequestAssumption
<1> HIDE DEF row
<1>4. IInv' /\ RecordInv' /\ UNCHANGED <<clock, sessions>>
  BY <1>1, ServiceUnchanged DEF vars
<1>5. CTypeOK'
  BY <1>1, <1>3, <1>4 DEF CInv, CTypeOK, IInv
<1>6. /\ \A d \in Proposals \ {c} : corrections'[d] = corrections[d]
      /\ corrections'[c] = row \/ corrections'[c] = NULL
  BY <1>1, <1>2 DEF CInv, CTypeOK
<1>7. /\ Filed' \subseteq Filed \cup {c} /\ Filed \subseteq Filed' /\ Filed \subseteq Proposals
      /\ c \in Filed' => corrections'[c] = row
  BY <1>2, <1>6 DEF Filed
<1>8. RequestsHold'
  BY <1>1, <1>2, <1>3, <1>4, <1>6, <1>7 DEF CInv, CTypeOK, RequestsHold, Rows, Passed
<1>9. ApprovalHoldsItsRow' /\ ApprovalsHold'
  <2>1. \A d \in Proposals : deciding[d] # NULL => corrections'[d] = corrections[d]
    BY <1>2, <1>6 DEF CInv, ApprovalsHold
  <2> QED
    BY <1>1, <2>1, ApprovalsUnchanged
<1>10. RecordOfDecisions'
  <2>1. /\ Approved' = Approved /\ Decided' = Decided /\ CorrectedDays' = CorrectedDays
        /\ Approved \subseteq Filed /\ Decided \subseteq Filed
    BY <1>2, <1>3, <1>4, <1>6, <1>7 DEF Approved, Decided, CorrectedDays, Rows
  <2>2. \A d \in Filed : corrections'[d] = corrections[d]
    BY <1>2, <1>6, <1>7
  <2>3. AdjustedAreApproved' /\ AdjustedOnce' /\ IsFiniteSet(Approved)'
    BY <1>1, <2>1 DEF CInv, RecordOfDecisions, AdjustedAreApproved, AdjustedOnce
  <2>4. AdjustedOwnDay'
    <3>1. \A i \in DOMAIN adjustments : adjustments[i].correction \in Filed
      BY <2>1 DEF CInv, RecordOfDecisions, AdjustedAreApproved
    <3> QED
      BY <1>1, <2>2, <3>1 DEF CInv, RecordOfDecisions, AdjustedOwnDay
  <2>5. CorrectedAreApproved' /\ ToldOfDecisions'
    BY <1>1, <2>1, <2>2 DEF CInv, RecordOfDecisions, CorrectedAreApproved, ToldOfDecisions
  <2> QED
    BY <2>3, <2>4, <2>5 DEF RecordOfDecisions
<1> QED
  BY <1>1, <1>4, <1>5, <1>8, <1>9, <1>10, HistoryUnchanged DEF CInv

\* A rejection decides a pending request that nobody is approving.
LEMMA DecideRejectKeeps ==
  ASSUME CInv, NEW c \in Proposals, DecideReject(c)
  PROVE  CInv'
<1> DEFINE row == [corrections[c] EXCEPT !.status = "rejected"]
<1>1. /\ c \in Filed /\ corrections[c].status = "pending" /\ deciding[c] = NULL
      /\ corrections' = [corrections EXCEPT ![c] = row]
      /\ told' = told \cup {<<c, "rejected">>}
      /\ UNCHANGED <<vars, adjustments, asking, deciding>>
  BY DEF DecideReject, Undecided
<1>2. corrections[c] \in Correction /\ c \in Proposals
  BY <1>1, FiledFacts
<1>3. /\ row \in Correction /\ row # NULL /\ row.status = "rejected"
      /\ row.session = corrections[c].session
      /\ row.pIn = corrections[c].pIn /\ row.pOut = corrections[c].pOut
  <2>1. row \in Correction
    BY <1>2 DEF Correction, Decisions
  <2> QED
    BY <1>2, <2>1, RequestAssumption DEF Correction
<1> HIDE DEF row
<1>4. IInv' /\ RecordInv' /\ UNCHANGED <<clock, sessions>>
  BY <1>1, ServiceUnchanged DEF vars
<1>5. CTypeOK'
  <2>1. told' \subseteq Proposals \X Decisions
    BY <1>1, <1>2 DEF CInv, CTypeOK, Decisions
  <2> QED
    BY <1>1, <1>3, <1>4, <2>1 DEF CInv, CTypeOK, IInv
<1>6. /\ \A d \in Proposals \ {c} : corrections'[d] = corrections[d]
      /\ corrections'[c] = row
      /\ corrections[c] # NULL
  BY <1>1, <1>2 DEF CInv, CTypeOK, Filed
<1>7. Filed' = Filed /\ Filed \subseteq Proposals
  BY <1>1, <1>3, <1>6 DEF Filed
<1>8. RequestsHold'
  BY <1>1, <1>3, <1>4, <1>6, <1>7 DEF CInv, CTypeOK, RequestsHold, Rows, Passed
<1>9. ApprovalHoldsItsRow' /\ ApprovalsHold'
  BY <1>1, <1>6, ApprovalsUnchanged
<1>10. RecordOfDecisions'
  <2>1. /\ Approved' = Approved /\ Decided' = Decided \cup {c}
        /\ CorrectedDays' = CorrectedDays
        /\ c \notin Approved /\ c \notin Decided
        /\ Approved \subseteq Filed /\ Decided \subseteq Filed
    BY <1>1, <1>3, <1>4, <1>6, <1>7 DEF Approved, Decided, CorrectedDays, Rows
  <2>2. \A d \in Filed : corrections'[d].session = corrections[d].session
    BY <1>3, <1>6, <1>7
  <2>3. AdjustedAreApproved' /\ AdjustedOnce' /\ IsFiniteSet(Approved)'
    BY <1>1, <2>1 DEF CInv, RecordOfDecisions, AdjustedAreApproved, AdjustedOnce
  <2>4. AdjustedOwnDay'
    <3>1. \A i \in DOMAIN adjustments : adjustments[i].correction \in Filed
      BY <2>1 DEF CInv, RecordOfDecisions, AdjustedAreApproved
    <3> QED
      BY <1>1, <2>2, <3>1 DEF CInv, RecordOfDecisions, AdjustedOwnDay
  <2>5. CorrectedAreApproved'
    BY <1>1, <2>1, <2>2 DEF CInv, RecordOfDecisions, CorrectedAreApproved
  <2>6. ToldOfDecisions'
    <3>1. \A d \in Decided : corrections'[d].status = corrections[d].status
      BY <1>6, <1>7, <2>1
    <3> QED
      BY <1>1, <1>3, <1>6, <2>1, <3>1 DEF CInv, RecordOfDecisions, ToldOfDecisions
  <2> QED
    BY <2>3, <2>4, <2>5, <2>6 DEF RecordOfDecisions
<1> QED
  BY <1>1, <1>4, <1>5, <1>8, <1>9, <1>10, HistoryUnchanged DEF CInv

-------------------------------------------------------------------------------
(* Approvals.                                                              *)

\* The projection is typed, credited by the rule the assignment has now, in
\* the past, and drops no time out the day already had.
LEMMA ProjectionFacts ==
  ASSUME CInv, NEW c \in Filed
  PROVE  /\ Projection(c) \in Adjustment
         /\ Projection(c).correction = c
         /\ Projection(c).session = corrections[c].session
         /\ CreditedAs(Projection(c))
         /\ Projection(c).effIn <= clock
         /\ Projection(c).effOut # NULL => Projection(c).effOut <= clock
         /\ sessions[corrections[c].session].effOut # NULL => Projection(c).effOut # NULL
<1> DEFINE p == corrections[c]
           row == sessions[p.session]
           effIn == Coalesce(p.pIn, row.effIn)
           effOut == Coalesce(p.pOut, row.effOut)
           rule == assignment[row.trainee].rule
           credited == IF effOut = NULL THEN NULL ELSE CreditedMinutes(effIn, effOut, rule)
<1>1. /\ c \in Proposals /\ p \in Correction /\ p.session \in Requests
      /\ row \in Session /\ p.session \in Rows(sessions) /\ Passed(p)
  BY FiledFacts DEF CInv, RequestsHold
<1>2. rule \in Rules
  BY <1>1 DEF CInv, IInv, TypeOK, Session, Assignment
<1>3. effIn \in Instant /\ effOut \in Instant \cup {NULL}
  BY <1>1 DEF Correction, Session, Coalesce
<1>4. effIn <= clock /\ (effOut # NULL => effOut <= clock) /\ (row.effOut # NULL => effOut # NULL)
  BY <1>1 DEF CInv, RecordInv, TimesRunForward, Passed, Coalesce
<1>5. credited \in Nat \cup {NULL}
  <2>1. effOut # NULL => CreditedMinutes(effIn, effOut, rule) \in Nat
    BY <1>2, <1>3, CreditedBounds, InputAssumption DEF Instant
  <2> QED
    BY <2>1
<1>6. effOut # NULL => \E q \in Rules : credited = CreditedMinutes(effIn, effOut, q)
  BY <1>2
<1>7. effOut = NULL => credited = NULL
  OBVIOUS
<1>8. Projection(c) = [correction |-> c, session |-> p.session, effIn |-> effIn,
                       effOut |-> effOut, credited |-> credited]
  BY DEF Projection
<1> HIDE DEF p, effIn, effOut, credited, row, rule
<1>9. p = corrections[c] /\ row = sessions[corrections[c].session]
  BY DEF p, row
<1> QED
  BY <1>1, <1>3, <1>4, <1>5, <1>6, <1>7, <1>8, <1>9 DEF Adjustment, CreditedAs

\* An approval takes a free row, and sees in it what it will write.
LEMMA DecideApproveTxKeeps ==
  ASSUME CInv, NEW c \in Proposals, DecideApproveTx(c)
  PROVE  CInv'
<1> DEFINE s == corrections[c].session
           a == Projection(c)
<1>1. PICK m \in BOOLEAN :
        deciding' = [deciding EXCEPT ![c] = [row |-> a, milestone |-> m]]
  <2>1. ASSUME NEW t, NEW after PROVE MilestoneReached(t, after) \in BOOLEAN
    BY DEF MilestoneReached
  <2> QED
    BY <2>1 DEF DecideApproveTx
<1>2. /\ c \in Filed /\ corrections[c].status = "pending" /\ deciding[c] = NULL
      /\ s \notin locked /\ EffectiveOrdered(a)
      /\ locked' = locked \cup {s}
      /\ UNCHANGED <<clock, assignment, sessions, evidence, journals, announced, call,
                     reply, corrections, adjustments, told, asking>>
  BY DEF DecideApproveTx, Undecided, RowFree, dbVars
<1>3. /\ s \in Requests /\ a \in Adjustment
      /\ a.correction = c /\ a.session = s /\ CreditedAs(a)
  BY <1>2, FiledFacts, ProjectionFacts
<1> DEFINE d0 == [row |-> a, milestone |-> m]
<1>4. /\ d0 \in [row : Adjustment, milestone : BOOLEAN] /\ d0 # NULL /\ d0.row = a
  <2>1. d0 \in [row : Adjustment, milestone : BOOLEAN] /\ d0.row = a
    BY <1>3
  <2> QED
    BY <2>1, RequestAssumption
<1>5. /\ \A r \in Requests : call[r] # NULL /\ call[r].pc = "commit" =>
           call[r].target \in locked /\ call[r].target # s
      /\ \A d \in Proposals : deciding[d] # NULL =>
           corrections[d].session \in locked /\ corrections[d].session # s
  BY <1>2 DEF CInv, IInv, LockedRowsAreStable, ApprovalHoldsItsRow
<1>6. IInv' /\ RecordInv'
  BY <1>2, <1>3, <1>5, LockKeeps DEF CInv, IInv, TypeOK
<1> HIDE DEF d0
<1>7. deciding'[c] = d0 /\ \A d \in Proposals \ {c} : deciding'[d] = deciding[d]
  BY <1>1 DEF CInv, CTypeOK, d0
<1>8. CTypeOK'
  BY <1>1, <1>2, <1>4, <1>6 DEF CInv, CTypeOK, IInv, d0
<1>9. /\ Filed' = Filed /\ Rows(sessions)' = Rows(sessions)
      /\ \A d : Projection(d)' = Projection(d)
  BY <1>2 DEF Filed, Rows, Projection
<1>10. RequestsHold'
  BY <1>2, <1>9 DEF CInv, RequestsHold, Passed
<1>11. ApprovalHoldsItsRow'
  <2> SUFFICES ASSUME NEW d \in Proposals, deciding'[d] # NULL
               PROVE  /\ corrections'[d].status = "pending"
                      /\ corrections'[d].session \in locked'
                      /\ deciding'[d].row.effIn = Projection(d)'.effIn
                      /\ deciding'[d].row.effOut = Projection(d)'.effOut
                      /\ \A r \in Requests : call'[r] # NULL /\ call'[r].pc = "commit" =>
                           call'[r].target # corrections'[d].session
    BY Zenon DEF ApprovalHoldsItsRow
  <2>1. CASE d = c
    BY <1>2, <1>4, <1>5, <1>7, <1>9, <2>1
  <2>2. CASE d # c
    BY <1>2, <1>7, <1>9, <2>2 DEF CInv, ApprovalHoldsItsRow
  <2> QED
    BY <2>1, <2>2
<1>12. ApprovalsHold'
  <2> SUFFICES ASSUME NEW d \in Proposals, deciding'[d] # NULL
               PROVE  /\ d \in Filed
                      /\ deciding'[d].row.correction = d
                      /\ deciding'[d].row.session = corrections[d].session
                      /\ EffectiveOrdered(deciding'[d].row)
                      /\ CreditedAs(deciding'[d].row)
                      /\ \A e \in Proposals :
                           deciding'[e] # NULL /\ corrections[e].session = corrections[d].session
                           => e = d
    BY <1>2, <1>9, Zenon DEF ApprovalsHold, EffectiveOrdered, CreditedAs
  <2>1. CASE d = c
    BY <1>2, <1>3, <1>4, <1>5, <1>7, <2>1
  <2>2. CASE d # c
    BY <1>5, <1>7, <2>2 DEF CInv, ApprovalsHold
  <2> QED
    BY <2>1, <2>2
<1>13. RecordOfDecisions'
  BY <1>2, <1>9 DEF CInv, RecordOfDecisions, AdjustedAreApproved, AdjustedOnce,
     AdjustedOwnDay, CorrectedAreApproved, ToldOfDecisions, Approved, Decided,
     CorrectedDays
<1> QED
  BY <1>2, <1>6, <1>8, <1>10, <1>11, <1>12, <1>13, HistoryUnchanged DEF CInv

\* The approvals that are left when one ends hold other days.
LEMMA OthersHold ==
  ASSUME CInv, NEW c \in Proposals, deciding[c] # NULL,
         deciding' = [deciding EXCEPT ![c] = NULL],
         locked' = locked \ {corrections[c].session},
         UNCHANGED <<assignment, call>>,
         \A d \in Proposals \ {c} : corrections'[d] = corrections[d],
         \A x \in Requests \ {corrections[c].session} : sessions'[x] = sessions[x]
  PROVE  ApprovalHoldsItsRow' /\ ApprovalsHold'
<1>1. ASSUME NEW d \in Proposals, deciding'[d] # NULL
      PROVE  /\ d # c /\ deciding[d] # NULL /\ deciding'[d] = deciding[d]
             /\ corrections'[d] = corrections[d] /\ d \in Filed /\ d \in Filed'
             /\ corrections[d].session \in Requests
             /\ corrections[d].session # corrections[c].session
             /\ sessions'[corrections[d].session] = sessions[corrections[d].session]
             /\ Projection(d)' = Projection(d)
  <2>1. d # c /\ deciding[d] # NULL /\ deciding'[d] = deciding[d]
    BY <1>1 DEF CInv, CTypeOK
  <2>2. corrections'[d] = corrections[d] /\ d \in Filed /\ d \in Filed'
    BY <2>1 DEF CInv, ApprovalsHold, Filed
  <2>3. corrections[d].session # corrections[c].session
    BY <2>1 DEF CInv, ApprovalsHold
  <2>4. corrections[d].session \in Requests
    BY <2>2, FiledFacts
  <2>5. Projection(d)' = Projection(d)
    BY <2>2, <2>3, <2>4 DEF Projection
  <2> QED
    BY <2>1, <2>2, <2>3, <2>4, <2>5
<1>2. ApprovalHoldsItsRow'
  <2> SUFFICES ASSUME NEW d \in Proposals, deciding'[d] # NULL
               PROVE  /\ corrections'[d].status = "pending"
                      /\ corrections'[d].session \in locked'
                      /\ deciding'[d].row.effIn = Projection(d)'.effIn
                      /\ deciding'[d].row.effOut = Projection(d)'.effOut
                      /\ \A r \in Requests : call'[r] # NULL /\ call'[r].pc = "commit" =>
                           call'[r].target # corrections'[d].session
    BY Zenon DEF ApprovalHoldsItsRow
  <2> QED
    BY <1>1 DEF CInv, ApprovalHoldsItsRow
<1>3. ApprovalsHold'
  BY <1>1 DEF CInv, ApprovalsHold, EffectiveOrdered, CreditedAs
<1> QED
  BY <1>2, <1>3

\* An approval that dies releases its own row and nothing else.
LEMMA DecideAbortKeeps ==
  ASSUME CInv, NEW c \in Proposals, DecideAbort(c)
  PROVE  CInv'
<1> DEFINE s == corrections[c].session
<1>1. /\ deciding[c] # NULL /\ locked' = locked \ {s}
      /\ deciding' = [deciding EXCEPT ![c] = NULL]
      /\ UNCHANGED <<clock, assignment, sessions, evidence, journals, announced, call,
                     reply, corrections, adjustments, told, asking>>
  BY DEF DecideAbort, Released, dbVars
<1>2. \A r \in Requests : call[r] # NULL /\ call[r].pc = "commit" =>
        call[r].target \in locked'
  BY <1>1 DEF CInv, IInv, LockedRowsAreStable, ApprovalHoldsItsRow
<1>3. IInv' /\ RecordInv'
  BY <1>1, <1>2, LockKeeps DEF CInv, IInv, TypeOK
<1>4. CTypeOK'
  BY <1>1, <1>3 DEF CInv, CTypeOK, IInv
<1>5. RequestsHold'
  BY <1>1 DEF CInv, RequestsHold, Passed, Filed, Rows
<1>6. ApprovalHoldsItsRow' /\ ApprovalsHold'
  BY <1>1, OthersHold
<1>7. RecordOfDecisions'
  BY <1>1 DEF CInv, RecordOfDecisions, AdjustedAreApproved, AdjustedOnce,
     AdjustedOwnDay, CorrectedAreApproved, ToldOfDecisions, Approved, Decided,
     CorrectedDays, Filed, Rows
<1> QED
  BY <1>1, <1>3, <1>4, <1>5, <1>6, <1>7, HistoryUnchanged DEF CInv

\* What appending an adjustment does to the list.
LEMMA Appended ==
  ASSUME NEW a \in Adjustment, adjustments \in Seq(Adjustment),
         adjustments' = Append(adjustments, a)
  PROVE  /\ adjustments' \in Seq(Adjustment)
         /\ Len(adjustments) \in Nat
         /\ Len(adjustments') = Len(adjustments) + 1
         /\ DOMAIN adjustments = 1 .. Len(adjustments)
         /\ DOMAIN adjustments' = DOMAIN adjustments \cup {Len(adjustments) + 1}
         /\ Len(adjustments) + 1 \notin DOMAIN adjustments
         /\ \A i \in DOMAIN adjustments : adjustments'[i] = adjustments[i]
         /\ adjustments'[Len(adjustments) + 1] = a
         /\ \A i \in DOMAIN adjustments : i \in Int /\ i <= Len(adjustments)
  OBVIOUS

\* A day's history when an adjustment is appended: hers is the latest, and the
\* other days keep theirs.
LEMMA AppendedHistory ==
  ASSUME HistoryHolds, NEW a \in Adjustment, adjustments \in Seq(Adjustment),
         adjustments' = Append(adjustments, a)
  PROVE  /\ AdjustmentsOf(a.session)' = AdjustmentsOf(a.session) \cup {Len(adjustments) + 1}
         /\ Latest(a.session)' = Len(adjustments) + 1
         /\ \A j \in AdjustmentsOf(a.session)' : j <= Len(adjustments) + 1
         /\ \A s \in Requests : s # a.session =>
              /\ AdjustmentsOf(s)' = AdjustmentsOf(s)
              /\ AdjustmentsOf(s) # {} =>
                   /\ Latest(s)' = Latest(s)
                   /\ Latest(s) \in DOMAIN adjustments
                   /\ adjustments'[Latest(s)] = adjustments[Latest(s)]
<1> DEFINE n == Len(adjustments) + 1
<1>1. /\ DOMAIN adjustments' = DOMAIN adjustments \cup {n} /\ n \notin DOMAIN adjustments
      /\ \A i \in DOMAIN adjustments : adjustments'[i] = adjustments[i] /\ i \in Int /\ i < n
      /\ adjustments'[n] = a /\ n \in Int
  BY Appended
<1> HIDE DEF n
<1>2. AdjustmentsOf(a.session)' = AdjustmentsOf(a.session) \cup {n}
  BY <1>1 DEF AdjustmentsOf
<1>3. \A j \in AdjustmentsOf(a.session)' : j \in Int /\ j <= n
  BY <1>1, <1>2 DEF AdjustmentsOf
<1>4. Latest(a.session)' = n
  <2>1. n \in AdjustmentsOf(a.session)'
    BY <1>2
  <2>2. ASSUME NEW i \in AdjustmentsOf(a.session)',
               \A j \in AdjustmentsOf(a.session)' : j <= i
        PROVE  i = n
    <3>1. n <= i /\ i <= n /\ i \in Int /\ n \in Int
      BY <1>1, <1>3, <2>1, <2>2
    <3> QED
      BY <3>1
  <2> QED
    BY <1>3, <2>1, <2>2 DEF Latest
<1>5. ASSUME NEW s \in Requests, s # a.session
      PROVE  /\ AdjustmentsOf(s)' = AdjustmentsOf(s)
             /\ AdjustmentsOf(s) # {} =>
                  /\ Latest(s)' = Latest(s)
                  /\ Latest(s) \in DOMAIN adjustments
                  /\ adjustments'[Latest(s)] = adjustments[Latest(s)]
  <2>1. AdjustmentsOf(s)' = AdjustmentsOf(s)
    BY <1>1, <1>5 DEF AdjustmentsOf
  <2>2. Latest(s)' = Latest(s)
    BY <2>1 DEF Latest
  <2>3. AdjustmentsOf(s) # {} => Latest(s) \in AdjustmentsOf(s)
    BY DEF HistoryHolds, Latest
  <2> QED
    BY <1>1, <2>1, <2>2, <2>3 DEF AdjustmentsOf
<1> QED
  BY <1>2, <1>3, <1>4, <1>5 DEF n

\* The COMMIT of an approval: it writes what it saw, and the record with it.
LEMMA DecideCommitKeeps ==
  ASSUME CInv, NEW c \in Proposals, DecideCommit(c),
         NEW s \in Requests, corrections[c].session = s,
         NEW a, deciding[c].row = a
  PROVE  CInv'
<1> DEFINE old == sessions[s]
           row == Corrected(old, a)
           done == [corrections[c] EXCEPT !.status = "approved"]
           n == Len(adjustments) + 1
<1>1. /\ deciding[c] # NULL
      /\ adjustments' = Append(adjustments, a)
      /\ sessions' = [sessions EXCEPT ![s] = row]
      /\ corrections' = [corrections EXCEPT ![c] = done]
      /\ journals' = JournalFor(a, s)
      /\ told' = told \cup {<<c, "approved">>}
      /\ locked' = locked \ {s}
      /\ deciding' = [deciding EXCEPT ![c] = NULL]
      /\ UNCHANGED <<clock, assignment, evidence, call, reply, asking>>
  BY DEF DecideCommit, Released
<1>2. /\ c \in Filed /\ corrections[c] \in Correction /\ corrections[c].status = "pending"
      /\ old \in Session /\ s \in Rows(sessions)
      /\ a \in Adjustment /\ a.correction = c /\ a.session = s
      /\ EffectiveOrdered(a) /\ CreditedAs(a)
      /\ a.effIn = Projection(c).effIn /\ a.effOut = Projection(c).effOut
      /\ s \in locked
      /\ \A r \in Requests : call[r] # NULL /\ call[r].pc = "commit" => call[r].target # s
  <2>1. c \in Filed
    BY <1>1 DEF CInv, ApprovalsHold
  <2>2. a \in Adjustment
    BY <1>1 DEF CInv, CTypeOK
  <2> QED
    BY <1>1, <2>1, <2>2, FiledFacts DEF CInv, ApprovalsHold, ApprovalHoldsItsRow
<1>3. /\ a.effIn <= clock
      /\ a.effOut # NULL => a.effIn < a.effOut /\ a.effOut <= clock
      /\ old.effOut # NULL => a.effOut # NULL
      /\ a.effIn \in Int
  <2>1. a.effIn \in Int /\ (a.effOut # NULL => a.effOut \in Int)
    BY <1>2, InputAssumption DEF Adjustment, Instant
  <2> QED
    BY <1>2, <2>1, ProjectionFacts DEF EffectiveOrdered
<1>4. /\ row \in Session /\ row # NULL
      /\ row.trainee = old.trainee /\ row.date = old.date
      /\ row.origIn = old.origIn /\ row.origOut = old.origOut
      /\ row.flags = old.flags
      /\ row.effIn = a.effIn /\ row.effOut = a.effOut
      /\ row.credited = Coalesce(a.credited, old.credited)
      /\ row.status = "corrected"
  BY <1>2, CorrectedRow
\* An approval without a time out is of a day without credit.
<1>5. row.credited = a.credited
  <2>1. CASE a.effOut = NULL
    BY <1>2, <1>3, <1>4, <2>1 DEF CreditedAs, Coalesce, CInv, RecordInv, CreditedIsComputed
  <2>2. CASE a.effOut # NULL
    <3>1. PICK q \in Rules : a.credited = CreditedMinutes(a.effIn, a.effOut, q)
      BY <1>2, <2>2 DEF CreditedAs
    <3>2. a.effIn \in Int /\ a.effOut \in Int /\ q \in BreakRule
      BY <1>2, <2>2, InputAssumption DEF Adjustment, Instant
    <3>3. a.credited # NULL
      BY <3>1, <3>2, CreditedBounds, NullAssumption
    <3> QED
      BY <1>4, <3>3 DEF Coalesce
  <2> QED
    BY <2>1, <2>2
<1>6. /\ done \in Correction /\ done # NULL /\ done.status = "approved"
      /\ done.session = s
      /\ done.pIn = corrections[c].pIn /\ done.pOut = corrections[c].pOut
  <2>1. done \in Correction
    BY <1>2 DEF Correction, Decisions
  <2> QED
    BY <1>2, <2>1, RequestAssumption DEF Correction
<1>7. journals' = IF row.effOut # NULL THEN journals \cup {s} ELSE journals
  BY <1>1, <1>2, <1>4 DEF JournalFor, EnsureDraft, CInv, RecordInv, ClosedDayHasJournal
<1>8. announced' \subseteq Trainees
  <2>1. announced \subseteq Trainees /\ old.trainee \in Trainees
    BY <1>2 DEF CInv, IInv, TypeOK, Session
  <2> QED
    BY <2>1 DEF DecideCommit
<1>9. IInv /\ RecordInv
  BY DEF CInv
<1>10. IF row.effOut = NULL THEN row.credited = NULL
       ELSE \E q \in Rules : row.credited = CreditedMinutes(row.effIn, row.effOut, q)
  BY <1>2, <1>4, <1>5 DEF CreditedAs
<1> HIDE DEF row, done, old
<1>11. IInv' /\ RecordInv'
  <2>1. old = sessions[s]
    BY DEF old
  <2> QED
    BY <1>1, <1>2, <1>3, <1>4, <1>7, <1>8, <1>9, <1>10, <2>1, AmendKeeps
<1>12. /\ sessions'[s] = row /\ corrections'[c] = done
       /\ \A x \in Requests \ {s} : sessions'[x] = sessions[x]
       /\ \A d \in Proposals \ {c} : corrections'[d] = corrections[d]
  BY <1>1, <1>9 DEF CInv, CTypeOK, IInv, TypeOK
<1>13. /\ Rows(sessions)' = Rows(sessions) /\ Filed' = Filed
       /\ Rows(sessions) \subseteq Requests /\ Filed \subseteq Proposals
  BY <1>2, <1>4, <1>6, <1>12 DEF Rows, Filed
<1>14. adjustments \in Seq(Adjustment)
  BY DEF CInv, CTypeOK
<1>15. /\ adjustments' \in Seq(Adjustment) /\ Len(adjustments') = n
       /\ DOMAIN adjustments' = DOMAIN adjustments \cup {n}
       /\ \A i \in DOMAIN adjustments : adjustments'[i] = adjustments[i]
       /\ adjustments'[n] = a
  BY <1>1, <1>2, <1>14, Appended
<1>16. CTypeOK'
  <2>1. told' \subseteq Proposals \X Decisions
    BY <1>1 DEF CInv, CTypeOK, Decisions
  <2> QED
    BY <1>1, <1>6, <1>11, <1>15, <2>1 DEF CInv, CTypeOK, IInv
<1>17. RequestsHold'
  <2>1. corrections[c] # NULL /\ corrections[c].session = s /\ UNCHANGED <<clock, asking>>
    BY <1>1, <1>2 DEF Filed
  <2>2. \A d \in Filed :
          /\ corrections'[d].session = corrections[d].session
          /\ corrections'[d].pIn = corrections[d].pIn
          /\ corrections'[d].pOut = corrections[d].pOut
    BY <1>6, <1>12, <1>13, <2>1
  <2>3. \A d \in Filed : corrections'[d].session \in Rows(sessions) /\ Passed(corrections[d])'
    BY <2>1, <2>2 DEF CInv, RequestsHold, Passed
  <2>4. \A d \in Proposals : asking[d] # NULL =>
          /\ corrections'[d] = NULL
          /\ asking[d].session \in Rows(sessions)
          /\ Passed(asking[d])'
    BY <1>12, <2>1 DEF CInv, RequestsHold, Passed
  <2> QED
    BY <1>13, <2>1, <2>3, <2>4 DEF RequestsHold
<1>18. ApprovalHoldsItsRow' /\ ApprovalsHold'
  BY <1>1, <1>12, OthersHold
<1>19. RecordOfDecisions'
  <2>1. /\ Approved' = Approved \cup {c} /\ c \notin Approved /\ Approved \subseteq Filed
        /\ Decided' = Decided \cup {c} /\ Decided \subseteq Filed /\ c \notin Decided
    BY <1>2, <1>6, <1>12, <1>13 DEF Approved, Decided
  <2>2. CorrectedDays' = CorrectedDays \cup {s}
    BY <1>2, <1>4, <1>12, <1>13 DEF CorrectedDays
  <2>3. \A d \in Filed : corrections'[d].session = corrections[d].session
    BY <1>6, <1>12, <1>13
  <2>4. AdjustedAreApproved'
    BY <1>2, <1>15, <2>1 DEF CInv, RecordOfDecisions, AdjustedAreApproved
  <2>5. AdjustedOnce' /\ IsFiniteSet(Approved)'
    <3>1. IsFiniteSet(Approved) /\ Len(adjustments) = Cardinality(Approved)
      BY DEF CInv, RecordOfDecisions, AdjustedOnce
    <3>2. /\ IsFiniteSet(Approved \cup {c})
          /\ Cardinality(Approved \cup {c}) = Cardinality(Approved) + 1
      BY <2>1, <3>1, FS_AddElement
    <3> QED
      BY <1>15, <2>1, <3>1, <3>2 DEF AdjustedOnce
  <2>6. AdjustedOwnDay'
    <3>1. \A i \in DOMAIN adjustments : adjustments[i].correction \in Filed
      BY <2>1 DEF CInv, RecordOfDecisions, AdjustedAreApproved
    <3>2. \A i \in DOMAIN adjustments :
            adjustments'[i].session = corrections'[adjustments'[i].correction].session
      BY <1>15, <2>3, <3>1 DEF CInv, RecordOfDecisions, AdjustedOwnDay
    <3>3. adjustments'[n].session = corrections'[adjustments'[n].correction].session
      BY <1>2, <1>6, <1>12, <1>15
    <3> QED
      BY <1>15, <3>2, <3>3 DEF AdjustedOwnDay
  <2>7. CorrectedAreApproved'
    <3>1. CorrectedDays = {corrections[d].session : d \in Approved}
      BY DEF CInv, RecordOfDecisions, CorrectedAreApproved
    <3>2. \A d \in Approved : corrections'[d].session = corrections[d].session
      BY <2>1, <2>3
    <3>3. corrections'[c].session = s
      BY <1>6, <1>12
    <3> QED
      BY <2>1, <2>2, <3>1, <3>2, <3>3 DEF CorrectedAreApproved
  <2>8. ToldOfDecisions'
    <3>1. \A d \in Decided : corrections'[d].status = corrections[d].status
      BY <1>12, <1>13, <2>1
    <3> QED
      BY <1>1, <1>6, <1>12, <2>1, <3>1 DEF CInv, RecordOfDecisions, ToldOfDecisions
  <2> QED
    BY <2>4, <2>5, <2>6, <2>7, <2>8 DEF RecordOfDecisions
<1>20. HistoryHolds'
  <2>1. /\ AdjustmentsOf(s)' = AdjustmentsOf(s) \cup {n}
        /\ Latest(s)' = n
        /\ \A j \in AdjustmentsOf(s)' : j <= n
        /\ \A x \in Requests : x # s =>
              /\ AdjustmentsOf(x)' = AdjustmentsOf(x)
              /\ AdjustmentsOf(x) # {} =>
                   /\ Latest(x)' = Latest(x)
                   /\ adjustments'[Latest(x)] = adjustments[Latest(x)]
    BY <1>1, <1>2, <1>14, AppendedHistory DEF CInv
  <2>2. ASSUME NEW x \in Rows(sessions)' PROVE Follows(sessions[x], x)'
    <3>1. x \in Requests /\ x \in Rows(sessions)
      BY <1>13
    <3>2. CASE x = s
      <4>1. AdjustmentsOf(s)' # {} /\ Latest(s)' = n
        BY <2>1
      <4>2. sessions'[s] = row /\ adjustments'[n] = a
        BY <1>12, <1>15
      <4> QED
        BY <1>4, <1>5, <3>2, <4>1, <4>2 DEF Follows
    <3>3. CASE x # s
      <4>1. Follows(sessions[x], x)
        BY <3>1 DEF CInv, HistoryHolds
      <4> QED
        BY <1>12, <2>1, <3>1, <3>3, <4>1 DEF Follows
    <3> QED
      BY <3>2, <3>3
  <2>3. ASSUME NEW x \in Requests, AdjustmentsOf(x)' # {}
        PROVE  \E i \in AdjustmentsOf(x)' : \A j \in AdjustmentsOf(x)' : j <= i
    BY <2>1, <2>3 DEF CInv, HistoryHolds
  <2> QED
    BY <2>2, <2>3 DEF HistoryHolds
<1> QED
  BY <1>11, <1>16, <1>17, <1>18, <1>19, <1>20 DEF CInv

-------------------------------------------------------------------------------
(* The theorems.                                                           *)

\* Every step of the composition keeps CInv.
LEMMA CNextKeeps ==
  ASSUME CInv, [CNext]_allVars
  PROVE  CInv'
<1>1. CASE [Next]_vars /\ UNCHANGED corrVars
  BY <1>1, AttendanceKeeps
<1>2. ASSUME NEW c \in Proposals, DecideCommit(c) PROVE CInv'
  <2>1. corrections[c].session \in Requests
    BY <1>2, FiledFacts DEF DecideCommit, CInv, ApprovalsHold
  <2> QED
    BY <1>2, <2>1, DecideCommitKeeps
<1> QED
  BY <1>1, <1>2, RequestValidateKeeps, RequestInsertKeeps, DecideRejectKeeps,
     DecideApproveTxKeeps, DecideAbortKeeps DEF CNext, allVars

\* The invariant of the composition: the write service's own, and what holds
\* requests, open approvals, decisions and days together.
THEOREM CInvariance == CSpec => []CInv
<1>1. CInv /\ [CNext]_allVars => CInv'
  BY CNextKeeps
<1> QED
  BY <1>1, CInitInv, PTL DEF CSpec

\* Every table and every handler of the composition is always typed.
THEOREM CTypeCorrect == CSpec => []CTypeOK
<1>1. CInv => CTypeOK
  BY DEF CInv
<1> QED
  BY <1>1, CInvariance, PTL

\* What the write service promises survives every approval: one session a day,
\* idempotent and durable answers, evidence and flags that tell the truth.
THEOREM PromisesSurvive ==
  CSpec => [](/\ OneSessionPerDay
              /\ IdempotentReplies
              /\ AcknowledgedIsDurable
              /\ LockedRowsAreStable
              /\ EvidenceBacksSession
              /\ FlagsTellTheEvidence)
<1>1. CInv => /\ OneSessionPerDay
              /\ IdempotentReplies
              /\ AcknowledgedIsDurable
              /\ LockedRowsAreStable
              /\ EvidenceBacksSession
              /\ FlagsTellTheEvidence
  BY BackedAnswersAgree DEF CInv, IInv, RecordInv
<1> QED
  BY <1>1, CInvariance, PTL

\* Credited minutes are always those the hours rule gives the effective times,
\* and only days with a time out have any.
THEOREM CreditIsComputed == CSpec => []CreditedIsComputed
<1>1. CInv => CreditedIsComputed
  BY DEF CInv, RecordInv
<1> QED
  BY <1>1, CInvariance, PTL

\* "A completed day can never exist without its journal" (service.go:474-475),
\* whether a Time Out or an approval completed it.
THEOREM CompletedDayHasJournal == CSpec => []ClosedDayHasJournal
<1>1. CInv => ClosedDayHasJournal
  BY DEF CInv, RecordInv
<1> QED
  BY <1>1, CInvariance, PTL

\* The two kinds of transaction that lock a day never hold the same one, and an
\* approval commits the projection of the row it locked.
THEOREM ApprovalsAreExclusive == CSpec => []ApprovalHoldsItsRow
<1>1. CInv => ApprovalHoldsItsRow
  BY DEF CInv
<1> QED
  BY <1>1, CInvariance, PTL

\* A decision leaves its record whole: adjustment, day and notification.
THEOREM DecisionIsRecorded == CSpec => []DecisionLeavesItsRecord
<1>1. CInv => DecisionLeavesItsRecord
  BY RecordIsWhole DEF CInv
<1> QED
  BY <1>1, CInvariance, PTL

\* A day always shows its latest adjustment, or its own two instants.
THEOREM LatestAdjustmentCounts == CSpec => []EffectiveIsLatestAdjustment
<1>1. CInv => EffectiveIsLatestAdjustment
  BY HistoryIsLatest DEF CInv
<1> QED
  BY <1>1, CInvariance, PTL

\* What a COMMIT of an approval changes.
LEMMA CommitEffects ==
  ASSUME CInv, NEW c \in Proposals, DecideCommit(c)
  PROVE  /\ corrections[c].session \in Rows(sessions)
         /\ corrections[c].status = "pending"
         /\ sessions[corrections[c].session] \in Session
         /\ deciding[c].row \in Adjustment
         /\ deciding[c].row.session = corrections[c].session
         /\ sessions' = [sessions EXCEPT ![corrections[c].session] =
                           Corrected(sessions[corrections[c].session], deciding[c].row)]
         /\ corrections' = [corrections EXCEPT ![c].status = "approved"]
         /\ adjustments' = Append(adjustments, deciding[c].row)
         /\ journals \subseteq journals' /\ UNCHANGED evidence
<1>1. c \in Filed /\ deciding[c] # NULL
  BY DEF DecideCommit, CInv, ApprovalsHold
<1>2. deciding[c].row \in Adjustment
  BY <1>1 DEF CInv, CTypeOK
<1> QED
  BY <1>1, <1>2, FiledFacts DEF DecideCommit, CInv, ApprovalsHold, ApprovalHoldsItsRow,
     JournalFor, EnsureDraft

\* Approvals included, no step removes a row, rewrites an original time or
\* reopens a day.
THEOREM OriginalsSurvive == CSpec => OriginalsImmutable
<1>1. ASSUME CInv, [CNext]_allVars PROVE RecordGrows
  <2>1. CASE [Next]_vars
    BY <1>1, <2>1, GrowsOnly DEF CInv
  <2>2. CASE UNCHANGED <<sessions, evidence, journals>>
    BY <2>2 DEF RecordGrows, Rows
  <2>3. ASSUME NEW c \in Proposals, DecideCommit(c) PROVE RecordGrows
    <3> DEFINE s == corrections[c].session
               row == Corrected(sessions[s], deciding[c].row)
    <3>1. /\ s \in Rows(sessions) /\ sessions[s] \in Session
          /\ deciding[c].row \in Adjustment
          /\ sessions' = [sessions EXCEPT ![s] = row]
          /\ journals \subseteq journals' /\ UNCHANGED evidence
      BY <1>1, <2>3, CommitEffects
    <3>2. /\ row # NULL /\ row.trainee = sessions[s].trainee
          /\ row.date = sessions[s].date /\ row.origIn = sessions[s].origIn
          /\ row.origOut = sessions[s].origOut /\ row.status = "corrected"
      BY <3>1, CorrectedRow
    <3> HIDE DEF s, row
    <3> QED
      BY <1>1, <3>1, <3>2 DEF RecordGrows, CInv, IInv, TypeOK, Rows
  <2> QED
    BY <1>1, <2>1, <2>2, <2>3 DEF CNext, allVars, RequestValidate, RequestInsert,
       DecideReject, DecideApproveTx, DecideAbort, vars, dbVars
<1>2. CInv /\ [CNext]_allVars => [RecordGrows]_vars
  BY <1>1
<1> QED
  BY <1>2, CInvariance, PTL DEF CSpec, OriginalsImmutable, RecordGrows

\* What DecisionIsFinal says of a step.
Final ==
  /\ \A c \in Filed : corrections[c].status # "pending" =>
       corrections'[c] = corrections[c]
  /\ Len(adjustments) <= Len(adjustments')
  /\ \A i \in DOMAIN adjustments : adjustments'[i] = adjustments[i]
  /\ \A s \in Rows(sessions) :
       <<sessions'[s].effIn, sessions'[s].effOut, sessions'[s].credited>>
          # <<sessions[s].effIn, sessions[s].effOut, sessions[s].credited>>
       => \/ sessions[s].status = "open" /\ sessions'[s].origOut # NULL
          \/ /\ Len(adjustments') > Len(adjustments)
             /\ adjustments'[Len(adjustments')].session = s

\* A decided request is never decided again, adjustments are only appended, and
\* the effective times of a day change only with its Time Out or with a new
\* adjustment of it.
THEOREM DecisionsAreFinal == CSpec => DecisionIsFinal
<1>1. ASSUME CInv, [CNext]_allVars PROVE Final
  <2>1. adjustments \in Seq(Adjustment) /\ Len(adjustments) \in Nat
    BY <1>1 DEF CInv, CTypeOK
  <2>2. CASE [Next]_vars /\ UNCHANGED corrVars
    BY <1>1, <2>1, <2>2, RowSteps DEF CInv, Final, corrVars
  <2>3. ASSUME UNCHANGED <<sessions, adjustments>>, NEW c \in Proposals,
               \/ UNCHANGED corrections
               \/ /\ c \notin Filed \/ corrections[c].status = "pending"
                  /\ \E x : corrections' = [corrections EXCEPT ![c] = x]
        PROVE  Final
    <3>1. \A d \in Filed : corrections[d].status # "pending" =>
            corrections'[d] = corrections[d]
      BY <1>1, <2>3 DEF CInv, CTypeOK, Filed
    <3> QED
      BY <2>1, <2>3, <3>1 DEF Final
  <2>4. ASSUME NEW c \in Proposals, RequestInsert(c) PROVE Final
    <3>1. c \notin Filed
      BY <1>1, <2>4 DEF RequestInsert, CInv, RequestsHold, Filed
    <3> QED
      BY <2>3, <2>4, <3>1 DEF RequestInsert, vars
  <2>5. ASSUME NEW c \in Proposals, DecideReject(c) PROVE Final
    BY <2>3, <2>5 DEF DecideReject, Undecided, vars
  <2>6. ASSUME NEW c \in Proposals, DecideCommit(c) PROVE Final
    <3> DEFINE s == corrections[c].session
               a == deciding[c].row
    <3>1. /\ s \in Rows(sessions) /\ corrections[c].status = "pending"
          /\ a \in Adjustment /\ a.session = s
          /\ sessions' = [sessions EXCEPT ![s] = Corrected(sessions[s], a)]
          /\ corrections' = [corrections EXCEPT ![c].status = "approved"]
          /\ adjustments' = Append(adjustments, a)
      BY <1>1, <2>6, CommitEffects
    <3> HIDE DEF s, a
    <3>2. \A d \in Filed : corrections[d].status # "pending" =>
            corrections'[d] = corrections[d]
      BY <1>1, <3>1 DEF CInv, CTypeOK, Filed
    <3>3. /\ Len(adjustments') = Len(adjustments) + 1
          /\ \A i \in DOMAIN adjustments : adjustments'[i] = adjustments[i]
          /\ adjustments'[Len(adjustments')].session = s
      BY <2>1, <3>1, Appended
    <3>4. \A x \in Rows(sessions) : x # s => sessions'[x] = sessions[x]
      BY <1>1, <3>1 DEF CInv, IInv, TypeOK, Rows
    <3> QED
      BY <2>1, <3>2, <3>3, <3>4 DEF Final
  <2>7. ASSUME NEW c \in Proposals,
               \/ \E s \in Requests, pIn, pOut \in Instant \cup {NULL} :
                    RequestValidate(c, s, pIn, pOut)
               \/ DecideApproveTx(c)
               \/ DecideAbort(c)
        PROVE  Final
    <3>1. UNCHANGED <<sessions, adjustments, corrections>>
      BY <2>7 DEF RequestValidate, DecideApproveTx, DecideAbort, vars, dbVars
    <3> QED
      BY <2>3, <3>1
  <2> QED
    BY <1>1, <2>2, <2>4, <2>5, <2>6, <2>7 DEF CNext, allVars
<1>2. CInv /\ [CNext]_allVars => [Final]_allVars
  BY <1>1
<1> QED
  BY <1>2, CInvariance, PTL DEF CSpec, DecisionIsFinal, Final

-------------------------------------------------------------------------------
(* Corrections implements DayBook.                                         *)

\* The page of a row.
LEMMA PageFacts ==
  ASSUME NEW row \in Session
  PROVE  /\ PageOf(row) # NULL
         /\ PageOf(row).trainee = row.trainee
         /\ PageOf(row).stampedIn = row.origIn /\ PageOf(row).stampedOut = row.origOut
         /\ PageOf(row).in = row.effIn /\ PageOf(row).out = row.effOut
         /\ PageOf(row).credited = row.credited
         /\ PageOf(row).state = "open" <=> row.status = "open"
<1>1. PageOf(row) \in Page
  BY DEF PageOf, Page, Session, Statuses
<1> QED
  BY <1>1, PageAssumption DEF PageOf

\* A page is what its row says, and blank as long as there is none.
LEMMA BookReads ==
  ASSUME TypeOK, NEW s \in Requests
  PROVE  /\ sessions[s] = NULL => TheBook[s] = NULL
         /\ sessions[s] # NULL =>
              sessions[s] \in Session /\ TheBook[s] = PageOf(sessions[s]) /\ TheBook[s] # NULL
<1>1. sessions[s] # NULL => sessions[s] \in Session
  BY DEF TypeOK
<1> QED
  BY <1>1, PageFacts DEF TheBook

\* A row that changes changes its own page.
LEMMA PageTurns ==
  ASSUME TypeOK, NEW s \in Requests, NEW row \in Session,
         sessions' = [sessions EXCEPT ![s] = row]
  PROVE  TheBook' = [TheBook EXCEPT ![s] = PageOf(row)]
<1>1. row # NULL
  BY RowAssumption
<1>2. /\ sessions'[s] = row
      /\ \A x \in Requests \ {s} : sessions'[x] = sessions[x]
  BY DEF TypeOK
<1>3. \A x \in Requests :
        (IF sessions'[x] = NULL THEN NULL ELSE PageOf(sessions'[x]))
          = IF x = s THEN PageOf(row) ELSE TheBook[x]
  BY <1>1, <1>2 DEF TheBook
<1> QED
  BY <1>3 DEF TheBook

\* The book's rules are those of the service.
LEMMA SameRules ==
  /\ \A t : DB!LocalDate(t) = LocalDate(t)
  /\ \A tin, tout, rule :
       DB!CreditedMinutes(tin, tout, rule) = CreditedMinutes(tin, tout, rule)
BY Zenon DEF DB!LocalDate, LocalDate, DB!CreditedMinutes, CreditedMinutes, DB!Elapsed,
   Elapsed, DB!Deducted, Deducted, DB!BreakApplies, BreakApplies

\* An INSERT of a session begins a page, at an instant that has passed.
LEMMA InsertsIsTimeIn ==
  ASSUME CInv, CInv', NEW r \in Requests, Inserts(r), UNCHANGED corrVars
  PROVE  DB!TimeIn(r, call[r].trainee) /\ call[r].trainee \in Trainees
<1> DEFINE c == call[r]
<1>1. /\ c \in Call /\ c.now \in Instant /\ c # NULL /\ sessions[r] = NULL
      /\ sessions' = [sessions EXCEPT ![r] = NewSession(c)]
      /\ UNCHANGED <<clock, journals, announced, corrections>>
  BY DEF Inserts, corrVars
<1>2. TypeOK /\ TypeOK' /\ OneSessionPerDay' /\ EvidenceBacksSession /\ TimesRunForward
  BY DEF CInv, IInv, RecordInv
<1>3. c.now \in 0 .. clock
  <2>1. c.now <= clock
    BY <1>1, <1>2, NullAssumption, InputAssumption DEF TimesRunForward, Instant
  <2> QED
    BY <1>1, <1>2, <2>1, InputAssumption DEF TypeOK, Instant
<1> DEFINE row == NewSession(c)
<1>4. /\ row \in Session /\ row.trainee = c.trainee /\ row.date = LocalDate(c.now)
      /\ PageOf(row) = [trainee |-> c.trainee, stampedIn |-> c.now, stampedOut |-> NULL,
                        in |-> c.now, out |-> NULL, credited |-> NULL, state |-> "open"]
  BY <1>1, NewRow DEF PageOf
<1>5. row # NULL /\ sessions' = [sessions EXCEPT ![r] = row]
  BY <1>1, <1>4, RowAssumption
<1> HIDE DEF row
<1>6. TheBook' = [TheBook EXCEPT ![r] = PageOf(row)] /\ TheBook[r] = NULL
  BY <1>1, <1>2, <1>4, <1>5, PageTurns, BookReads
\* The unique index on the date.
<1>7. ASSUME NEW q \in Requests, TheBook[q] # NULL, TheBook[q].trainee = c.trainee
      PROVE  LocalDate(TheBook[q].stampedIn) # LocalDate(c.now)
  <2>1. /\ sessions[q] # NULL /\ sessions[q] \in Session /\ q # r
        /\ TheBook[q] = PageOf(sessions[q])
    BY <1>1, <1>2, <1>7, BookReads
  <2>2. /\ sessions[q].trainee = c.trainee
        /\ TheBook[q].stampedIn = sessions[q].origIn
    BY <1>7, <2>1, PageFacts
  <2>3. sessions[q].date = LocalDate(sessions[q].origIn)
    BY <1>2, <2>1 DEF EvidenceBacksSession, Rows
  <2>4. sessions'[q] = sessions[q] /\ sessions'[r] = row
    BY <1>1, <1>2, <2>1 DEF TypeOK, row
  <2>5. q \in Rows(sessions)' /\ r \in Rows(sessions)'
    BY <1>5, <2>1, <2>4 DEF Rows
  <2> QED
    BY <1>2, <1>4, <2>1, <2>2, <2>3, <2>4, <2>5 DEF OneSessionPerDay
<1> HIDE DEF c
<1>8. DB!TimeIn(r, c.trainee)
  BY <1>1, <1>3, <1>4, <1>6, <1>7, SameRules DEF DB!TimeIn, DB!Blank
<1> QED
  BY <1>1, <1>8 DEF Call, c

\* A row that gets other times, credited by the hours rule, settles its page.
LEMMA RowSettles ==
  ASSUME TypeOK, NEW s \in Requests, sessions[s] # NULL, NEW row \in Session, NEW state,
         sessions' = [sessions EXCEPT ![s] = row],
         row.trainee = sessions[s].trainee, row.origIn = sessions[s].origIn,
         row.effOut # NULL => row.effIn < row.effOut,
         IF row.effOut = NULL THEN row.credited = NULL
         ELSE \E q \in Rules : row.credited = CreditedMinutes(row.effIn, row.effOut, q),
         PageOf(row).state = state,
         journals' = (IF row.effOut # NULL THEN journals \cup {s} ELSE journals),
         announced' \in {announced, announced \cup {sessions[s].trainee}},
         UNCHANGED clock
  PROVE  DB!Settle(s, row.effIn, row.effOut, row.origOut, state)
<1> DEFINE credits == IF row.effOut = NULL THEN {NULL}
                      ELSE {CreditedMinutes(row.effIn, row.effOut, q) : q \in Rules}
<1>1. row.credited \in credits
  OBVIOUS
<1>2. /\ TheBook[s] = PageOf(sessions[s]) /\ TheBook[s].trainee = sessions[s].trainee
      /\ TheBook[s].stampedIn = sessions[s].origIn
  BY BookReads, PageFacts
<1>3. TheBook' = [TheBook EXCEPT ![s] = PageOf(row)]
  BY PageTurns
<1>4. PageOf(row) = [trainee |-> TheBook[s].trainee, stampedIn |-> TheBook[s].stampedIn,
                     stampedOut |-> row.origOut, in |-> row.effIn, out |-> row.effOut,
                     credited |-> row.credited, state |-> state]
  BY <1>2 DEF PageOf
<1>5. credits = IF row.effOut = NULL THEN {NULL}
                ELSE {DB!CreditedMinutes(row.effIn, row.effOut, q) : q \in Rules}
  BY SameRules
<1>6. announced' \in {announced, announced \cup {TheBook[s].trainee}}
  BY <1>2
<1> HIDE DEF credits
<1> QED
  BY <1>1, <1>3, <1>4, <1>5, <1>6 DEF DB!Settle

\* Adding one element on a condition adds it or nothing.
LEMMA NoneOrOne ==
  ASSUME NEW S, NEW x, NEW b
  PROVE  S \cup (IF b THEN {x} ELSE {}) \in {S, S \cup {x}}
OBVIOUS

\* The COMMIT of a Time Out closes the page it held.
LEMMA ClosesIsTimeOut ==
  ASSUME CInv, NEW r \in Requests, Closes(r), UNCHANGED corrVars
  PROVE  call[r].target \in Requests /\ DB!TimeOut(call[r].target)
<1> DEFINE c == call[r]
           s == c.target
           old == sessions[s]
           row == Closed(old, c)
<1>1. /\ c \in Call /\ c # NULL /\ c.pc = "commit" /\ c.now \in Instant /\ c.rule \in Rules
      /\ s \in Requests /\ old # NULL /\ old \in Session /\ old.status = "open"
      /\ old.trainee = c.trainee
      /\ sessions' = [sessions EXCEPT ![s] = row]
      /\ journals' = journals \cup {s}
      /\ announced' \in {announced, announced \cup {c.trainee}}
      /\ UNCHANGED <<clock, corrections>>
  BY NoneOrOne DEF Closes, Rows, corrVars
<1>2. TypeOK /\ TimesRunForward
  BY DEF CInv, IInv, RecordInv
<1>3. c.now \in 0 .. clock /\ old.effIn < c.now /\ c.now # NULL
  <2>1. c.now <= clock /\ old.effIn < c.now /\ c.now # NULL
    BY <1>1, <1>2, NullAssumption, InputAssumption DEF TimesRunForward, Instant
  <2> QED
    BY <1>1, <1>2, <2>1, InputAssumption DEF TypeOK, Instant
<1>4. /\ row \in Session /\ row.trainee = old.trainee /\ row.origIn = old.origIn
      /\ row.origOut = c.now /\ row.effIn = old.effIn /\ row.effOut = c.now
      /\ row.credited = CreditedMinutes(row.effIn, row.effOut, c.rule)
      /\ row.status \in {"valid", "flagged"}
  BY <1>1, ClosedRow, ClosedRowEffects
<1>5. PageOf(row).state = "closed"
  BY <1>4 DEF PageOf
<1>6. /\ TheBook[s] # NULL /\ TheBook[s].in = old.effIn /\ TheBook[s].state = "open"
  BY <1>1, <1>2, BookReads, PageFacts
<1> HIDE DEF row, old, s, c
<1>7. old = sessions[s]
  BY DEF old
<1>8. DB!Settle(s, row.effIn, row.effOut, row.origOut, "closed")
  BY <1>1, <1>2, <1>3, <1>4, <1>5, <1>7, RowSettles
<1>9. DB!TimeOut(s)
  BY <1>1, <1>3, <1>4, <1>6, <1>8 DEF DB!TimeOut, DB!Blank
<1> QED
  BY <1>1, <1>9 DEF s, c

\* An INSERT of a request asks for its day to be corrected, or is refused.
LEMMA InsertIsAsk ==
  ASSUME CInv, NEW c \in Proposals, RequestInsert(c)
  PROVE  \/ UNCHANGED <<clock, sessions, journals, announced, corrections>>
         \/ \E p \in Requests, tin, tout \in (0 .. clock) \cup {NULL} : DB!Ask(c, p, tin, tout)
<1> DEFINE a == asking[c]
<1>1. /\ a # NULL
      /\ UNCHANGED <<clock, sessions, journals, announced>>
      /\ \/ UNCHANGED corrections
         \/ /\ Pending(a.session) = {}
            /\ corrections' = [corrections EXCEPT ![c] =
                 [session |-> a.session, pIn |-> a.pIn, pOut |-> a.pOut,
                  status |-> "pending"]]
  BY DEF RequestInsert, PendingTaken, vars
<1>2. /\ a \in Proposal /\ corrections[c] = NULL /\ a.session \in Rows(sessions)
      /\ Passed(a) /\ TypeOK
  BY <1>1 DEF CInv, IInv, CTypeOK, RequestsHold
<1>3. /\ a.session \in Requests /\ TheBook[a.session] # NULL
      /\ UNCHANGED TheBook
  BY <1>1, <1>2, BookReads DEF Rows, TheBook
<1>4. a.pIn \in (0 .. clock) \cup {NULL} /\ a.pOut \in (0 .. clock) \cup {NULL}
  BY <1>2, InputAssumption DEF Proposal, Passed, Instant, TypeOK
<1> HIDE DEF a
<1>5. CASE Pending(a.session) = {}
  <2>1. \A d \in Proposals : corrections[d] # NULL /\ corrections[d].status = "pending" =>
          corrections[d].session # a.session
    BY <1>5 DEF Pending, Filed
  <2>2. corrections' = [corrections EXCEPT ![c] =
          [session |-> a.session, pIn |-> a.pIn, pOut |-> a.pOut, status |-> "pending"]]
        => DB!Ask(c, a.session, a.pIn, a.pOut)
    BY <1>1, <1>2, <1>3, <2>1 DEF DB!Ask, DB!Blank, DB!Undecided
  <2> QED
    BY <1>1, <1>3, <1>4, <2>2
<1> QED
  BY <1>1, <1>5

\* A rejection leaves the page as it is.
LEMMA RejectIsReject ==
  ASSUME CInv, NEW c \in Proposals, DecideReject(c)
  PROVE  DB!Reject(c)
<1>1. /\ corrections[c] # NULL /\ corrections[c].status = "pending"
      /\ corrections' = [corrections EXCEPT ![c].status = "rejected"]
      /\ UNCHANGED <<clock, sessions, journals, announced>>
  BY DEF DecideReject, Undecided, Filed, vars
<1>2. UNCHANGED TheBook
  BY <1>1 DEF TheBook
<1> QED
  BY <1>1, <1>2 DEF DB!Reject, DB!Undecided

\* The COMMIT of an approval writes what was asked over what the page says now.
LEMMA CommitIsApprove ==
  ASSUME CInv, CInv', NEW c \in Proposals, DecideCommit(c)
  PROVE  DB!Approve(c)
<1> DEFINE s == corrections[c].session
           a == deciding[c].row
           old == sessions[s]
           row == Corrected(old, a)
<1>1. /\ s \in Rows(sessions) /\ corrections[c].status = "pending"
      /\ a \in Adjustment
      /\ sessions' = [sessions EXCEPT ![s] = row]
      /\ corrections' = [corrections EXCEPT ![c].status = "approved"]
      /\ journals \subseteq journals'
  BY CommitEffects
<1>2. /\ TypeOK /\ RecordInv' /\ RecordInv
      /\ s \in Requests /\ old # NULL /\ old \in Session
  BY <1>1 DEF CInv, IInv, TypeOK, Rows
<1>3. /\ row \in Session /\ row # NULL /\ row.trainee = old.trainee
      /\ row.origIn = old.origIn /\ row.origOut = old.origOut
      /\ row.effIn = a.effIn /\ row.effOut = a.effOut /\ row.status = "corrected"
  BY <1>1, <1>2, CorrectedRow
<1>4. /\ UNCHANGED clock
      /\ announced' \in {announced, announced \cup {old.trainee}}
  BY NoneOrOne DEF DecideCommit
<1>5. PageOf(row).state = "corrected"
  BY <1>3 DEF PageOf
<1>6. /\ corrections[c] # NULL
      /\ row.effIn = Coalesce(corrections[c].pIn, old.effIn)
      /\ row.effOut = Coalesce(corrections[c].pOut, old.effOut)
  <2>1. deciding[c] # NULL
    BY DEF DecideCommit
  <2>2. c \in Filed /\ a.effIn = Projection(c).effIn /\ a.effOut = Projection(c).effOut
    BY <2>1 DEF CInv, ApprovalsHold, ApprovalHoldsItsRow
  <2> QED
    BY <1>3, <2>2 DEF Projection, Filed
<1>7. /\ TheBook[s] # NULL /\ TheBook[s].in = old.effIn /\ TheBook[s].out = old.effOut
      /\ TheBook[s].stampedOut = row.origOut
  BY <1>2, <1>3, BookReads, PageFacts
<1>8. DB!OrElse(corrections[c].pIn, TheBook[s].in) = row.effIn
      /\ DB!OrElse(corrections[c].pOut, TheBook[s].out) = row.effOut
  BY <1>6, <1>7 DEF DB!OrElse, Coalesce
<1> HIDE DEF row
<1>9. /\ sessions'[s] = row /\ s \in Rows(sessions)'
      /\ \A x \in Requests \ {s} : sessions'[x] = sessions[x]
  BY <1>1, <1>2, <1>3 DEF TypeOK, Rows
<1>10. /\ row.effOut # NULL => row.effIn < row.effOut
       /\ IF row.effOut = NULL THEN row.credited = NULL
          ELSE \E q \in Rules : row.credited = CreditedMinutes(row.effIn, row.effOut, q)
  BY <1>2, <1>9 DEF RecordInv, TimesRunForward, CreditedIsComputed
<1>11. journals' = IF row.effOut # NULL THEN journals \cup {s} ELSE journals
  <2>1. /\ journals = {x \in Rows(sessions) : sessions[x].effOut # NULL}
        /\ journals' = {x \in Rows(sessions)' : sessions'[x].effOut # NULL}
    BY <1>2 DEF RecordInv, ClosedDayHasJournal
  <2>2. /\ s \in journals' <=> row.effOut # NULL
        /\ \A x : x # s => (x \in journals' <=> x \in journals)
    BY <1>9, <2>1 DEF Rows
  <2> QED
    BY <1>1, <2>2
<1> HIDE DEF s, old
<1>12. old = sessions[s] /\ s = corrections[c].session
  BY DEF old, s
<1>13. DB!Settle(s, row.effIn, row.effOut, row.origOut, "corrected")
  BY <1>1, <1>2, <1>3, <1>4, <1>5, <1>10, <1>11, <1>12, RowSettles
<1> QED
  BY <1>1, <1>6, <1>7, <1>8, <1>12, <1>13 DEF DB!Approve, DB!Undecided, DB!Blank

\* A step that changes no page, diary, petition or announcement lets time pass,
\* at most.
LEMMA QuietIsStutter ==
  ASSUME UNCHANGED <<sessions, journals, announced, corrections>>,
         clock \in Int, clock' \in Int, clock <= clock'
  PROVE  DB!TimePasses \/ UNCHANGED DB!bookVars
<1>1. UNCHANGED TheBook
  BY DEF TheBook
<1>2. clock < clock' \/ clock' = clock
  OBVIOUS
<1> QED
  BY <1>1, <1>2, Zenon DEF DB!TimePasses, DB!bookVars

\* Every step of the composition is a step of the book or none.
LEMMA StepsAreBookSteps ==
  ASSUME CInv, CInv', [CNext]_allVars
  PROVE  DB!BookNext \/ UNCHANGED DB!bookVars
<1>1. IInv /\ clock \in Int /\ clock' \in Int
  BY InputAssumption DEF CInv, IInv, TypeOK, Instant
<1>2. CASE [Next]_vars /\ UNCHANGED corrVars
  <2>1. ASSUME NEW r \in Requests, Inserts(r) PROVE DB!BookNext
    BY <1>2, <2>1, InsertsIsTimeIn, Zenon DEF DB!BookNext
  <2>2. ASSUME NEW r \in Requests, Closes(r) PROVE DB!BookNext
    BY <1>2, <2>2, ClosesIsTimeOut, Zenon DEF DB!BookNext
  <2>3. CASE UNCHANGED <<sessions, evidence, journals, announced>>
    <3>1. clock <= clock' /\ UNCHANGED <<sessions, journals, announced, corrections>>
      BY <1>1, <1>2, <2>3, ClockSteps DEF corrVars
    <3> QED
      BY <1>1, <3>1, QuietIsStutter, Zenon DEF DB!BookNext
  <2> QED
    BY <1>1, <1>2, <2>1, <2>2, <2>3, TableSteps
<1>3. ASSUME NEW c \in Proposals, RequestInsert(c)
      PROVE  DB!BookNext \/ UNCHANGED DB!bookVars
  <2>1. CASE UNCHANGED <<clock, sessions, journals, announced, corrections>>
    <3>1. clock <= clock'
      BY <1>1, <2>1
    <3> QED
      BY <1>1, <2>1, <3>1, QuietIsStutter, Zenon DEF DB!BookNext
  <2>2. CASE \E p \in Requests, tin, tout \in (0 .. clock) \cup {NULL} :
               DB!Ask(c, p, tin, tout)
    BY <2>2, Zenon DEF DB!BookNext
  <2> QED
    BY <1>3, <2>1, <2>2, InsertIsAsk
<1>4. ASSUME NEW c \in Proposals, DecideReject(c) PROVE DB!BookNext
  BY <1>4, RejectIsReject, Zenon DEF DB!BookNext
<1>5. ASSUME NEW c \in Proposals, DecideCommit(c) PROVE DB!BookNext
  BY <1>5, CommitIsApprove, Zenon DEF DB!BookNext
<1>6. ASSUME NEW c \in Proposals,
             \/ \E s \in Requests, pIn, pOut \in Instant \cup {NULL} :
                  RequestValidate(c, s, pIn, pOut)
             \/ DecideApproveTx(c)
             \/ DecideAbort(c)
      PROVE  DB!BookNext \/ UNCHANGED DB!bookVars
  <2>1. UNCHANGED <<clock, sessions, journals, announced, corrections>>
    BY <1>6 DEF RequestValidate, DecideApproveTx, DecideAbort, vars, dbVars
  <2>2. clock <= clock'
    BY <1>1, <2>1
  <2> QED
    BY <1>1, <2>1, <2>2, QuietIsStutter, Zenon DEF DB!BookNext
<1> QED
  BY <1>2, <1>3, <1>4, <1>5, <1>6 DEF CNext, allVars

\* However calls, requests and decisions overlap, fail and are sent again, what
\* the tables say of days is a behaviour of the book.
THEOREM DaysAreABook == CSpec => ImplementsBook
<1>1. CInit => DB!BookInit
  BY DEF CInit, Init, DB!BookInit, TheBook
<1>2. CInv /\ CInv' /\ [CNext]_allVars => [DB!BookNext]_(DB!bookVars)
  BY StepsAreBookSteps
<1> QED
  BY <1>1, <1>2, CInvariance, PTL DEF CSpec, ImplementsBook, DB!Book

-------------------------------------------------------------------------------
(* The milestone, when the transactions of a trainee follow one another.   *)

\* Whoever has the hours was told, also while calls are in flight.
CompletionsAnnounced ==
  \A t \in Trainees : MilestoneReached(t, sessions) => t \in announced

\* The sessions as an open transaction will leave them.
AfterTimeOut(r) ==
  [sessions EXCEPT ![call[r].target] = Closed(sessions[call[r].target], call[r])]
AfterApproval(c) ==
  [sessions EXCEPT ![corrections[c].session] =
     Corrected(sessions[corrections[c].session], deciding[c].row)]

\* What an open transaction found of the milestone is what its COMMIT makes true.
MilestonesStand ==
  /\ \A r \in Requests : call[r] # NULL /\ call[r].pc = "commit" =>
       call[r].milestone = MilestoneReached(call[r].trainee, AfterTimeOut(r))
  /\ \A c \in Proposals : deciding[c] # NULL =>
       deciding[c].milestone =
         MilestoneReached(sessions[corrections[c].session].trainee, AfterApproval(c))

SInv == CInv /\ OneDayAtATime /\ CompletionsAnnounced /\ MilestonesStand

RequirementsStay ==
  \A t \in Trainees : assignment'[t].required = assignment[t].required

\* A row that counts for the hours of a trainee.
Counts(t, row) == row # NULL /\ row.trainee = t /\ row.credited # NULL

\* Only those rows matter, and of them only the credit.
LEMMA SameCredit ==
  ASSUME NEW t, NEW T1, NEW T2,
         \A s \in Requests : /\ Counts(t, T1[s]) <=> Counts(t, T2[s])
                             /\ Counts(t, T1[s]) => T1[s].credited = T2[s].credited
  PROVE  Completed(t, T1) = Completed(t, T2)
<1> DEFINE S(T) == {s \in Requests : T[s] # NULL /\ T[s].trainee = t /\ T[s].credited # NULL}
<1>1. \A T : S(T) = {s \in Requests : Counts(t, T[s])}
  BY DEF Counts
<1>2. S(T1) = S(T2)
  BY <1>1
<1>3. \A s \in S(T1) : T1[s].credited = T2[s].credited
  BY <1>1
<1> HIDE DEF S
<1>4. [s \in S(T1) |-> T1[s].credited] = [s \in S(T2) |-> T2[s].credited]
  BY <1>2, <1>3
<1> QED
  BY <1>4 DEF Completed, S

\* Without such a row nothing is completed.
LEMMA NothingCompleted ==
  ASSUME NEW t, NEW T, \A s \in Requests : ~Counts(t, T[s])
  PROVE  Completed(t, T) = 0
<1> DEFINE credited == {s \in Requests : /\ T[s] # NULL
                                         /\ T[s].trainee = t
                                         /\ T[s].credited # NULL}
           f == [s \in credited |-> T[s].credited]
           adds(g) == [s \in SUBSET {} |-> IF s = {} THEN 0
                         ELSE f[CHOOSE x \in s : TRUE] + g[s \ {CHOOSE x \in s : TRUE}]]
           total == CHOOSE g : g = adds(g)
<1>1. credited = {}
  BY DEF Counts
<1>2. Completed(t, T) = SumFunction(f)
  BY DEF Completed
<1>3. DOMAIN f = {}
  BY <1>1
<1> HIDE DEF f, credited
<1>4. SumFunction(f) = total[{}]
  BY <1>3, Zenon DEF SumFunction, SumFunctionOnSet, FoldFunctionOnSet, MapThenFoldSet
<1>5. \E g : g = adds(g)
  <2> DEFINE z == [s \in SUBSET {} |-> 0]
  <2>1. z = adds(z)
    OBVIOUS
  <2> QED
    BY <2>1
<1>6. total = adds(total)
  BY <1>5
<1>7. total[{}] = 0
  BY <1>6
<1> QED
  BY <1>2, <1>4, <1>7

\* No row that changes counts for the trainee, before or after.
Elsewhere(t) ==
  \A x \in Requests : sessions'[x] # sessions[x] =>
    ~Counts(t, sessions[x]) /\ ~Counts(t, sessions'[x])

\* Then the hours of the trainee stay, and so do those that an open transaction
\* of the trainee found, which holds row s.
LEMMA HoursStay ==
  ASSUME TypeOK, TypeOK', NEW t, Elsewhere(t)
  PROVE  /\ Completed(t, sessions') = Completed(t, sessions)
         /\ \A s \in Requests : \A row :
              Completed(t, [sessions' EXCEPT ![s] = row])
                = Completed(t, [sessions EXCEPT ![s] = row])
<1>1. Completed(t, sessions') = Completed(t, sessions)
  BY SameCredit DEF Elsewhere
<1>2. ASSUME NEW s \in Requests, NEW row
      PROVE  Completed(t, [sessions' EXCEPT ![s] = row])
               = Completed(t, [sessions EXCEPT ![s] = row])
  <2> DEFINE T1 == [sessions' EXCEPT ![s] = row]
             T2 == [sessions EXCEPT ![s] = row]
  <2>1. /\ T1[s] = row /\ T2[s] = row
        /\ \A x \in Requests \ {s} : T1[x] = sessions'[x] /\ T2[x] = sessions[x]
    BY DEF TypeOK
  <2> HIDE DEF T1, T2
  <2>2. \A x \in Requests : /\ Counts(t, T1[x]) <=> Counts(t, T2[x])
                            /\ Counts(t, T1[x]) => T1[x].credited = T2[x].credited
    BY <2>1 DEF Elsewhere
  <2>3. Completed(t, T1) = Completed(t, T2)
    BY <2>2, SameCredit
  <2> QED
    BY <2>3 DEF T1, T2
<1> QED
  BY <1>1, <1>2

\* What a step does to the session rows: nothing, a Time In, or one COMMIT.
LEMMA RowsChange ==
  ASSUME CInv, [CNext]_allVars
  PROVE  \/ UNCHANGED <<sessions, announced>>
         \/ \E r \in Requests : (Inserts(r) \/ Closes(r)) /\ UNCHANGED corrVars
         \/ \E c \in Proposals : DecideCommit(c)
<1>1. CASE [Next]_vars /\ UNCHANGED corrVars
  BY <1>1, TableSteps DEF CInv
<1>2. ASSUME NEW c \in Proposals,
             \/ \E s \in Requests, pIn, pOut \in Instant \cup {NULL} :
                  RequestValidate(c, s, pIn, pOut)
             \/ RequestInsert(c)
             \/ DecideReject(c)
             \/ DecideApproveTx(c)
             \/ DecideAbort(c)
      PROVE  UNCHANGED <<sessions, announced>>
  BY <1>2 DEF RequestValidate, RequestInsert, DecideReject, DecideApproveTx, DecideAbort,
     vars, dbVars
<1> QED
  BY <1>1, <1>2 DEF CNext, allVars

\* The row a COMMIT changes, locked and of its trainee before and after.
LEMMA CloseFacts ==
  ASSUME CInv, NEW r \in Requests, Closes(r)
  PROVE  /\ call[r].target \in locked /\ call[r].target \in Requests
         /\ sessions[call[r].target].trainee = call[r].trainee
         /\ sessions' = AfterTimeOut(r)
         /\ sessions'[call[r].target].trainee = call[r].trainee
         /\ sessions'[call[r].target].status # "open"
         /\ \A x \in Requests : x # call[r].target => sessions'[x] = sessions[x]
<1> DEFINE s == call[r].target
           row == Closed(sessions[s], call[r])
<1>1. /\ call[r] # NULL /\ call[r].pc = "commit" /\ call[r] \in Call
      /\ call[r].now \in Instant /\ call[r].rule \in Rules
      /\ s \in Requests /\ sessions[s] \in Session
      /\ sessions[s].trainee = call[r].trainee
      /\ sessions' = [sessions EXCEPT ![s] = row]
  BY DEF Closes, Rows
<1>2. row.trainee = sessions[s].trainee /\ row.status # "open"
  BY <1>1, ClosedRow
<1>3. s \in locked /\ TypeOK
  BY <1>1 DEF CInv, IInv, LockedRowsAreStable
<1>4. sessions' = AfterTimeOut(r)
  BY <1>1 DEF AfterTimeOut
<1> HIDE DEF row
<1>5. sessions'[s] = row /\ \A x \in Requests : x # s => sessions'[x] = sessions[x]
  BY <1>1, <1>3 DEF TypeOK
<1> QED
  BY <1>1, <1>2, <1>3, <1>4, <1>5

\* And so for the COMMIT of an approval.
LEMMA ApprovalFacts ==
  ASSUME CInv, NEW c \in Proposals, DecideCommit(c)
  PROVE  /\ corrections[c].session \in locked /\ corrections[c].session \in Requests
         /\ sessions' = AfterApproval(c)
         /\ sessions'[corrections[c].session].trainee = sessions[corrections[c].session].trainee
         /\ sessions'[corrections[c].session].status # "open"
         /\ \A x \in Requests : x # corrections[c].session => sessions'[x] = sessions[x]
         /\ deciding[c] # NULL /\ deciding'[c] = NULL
         /\ announced' = announced \cup
              (IF deciding[c].milestone THEN {sessions[corrections[c].session].trainee}
               ELSE {})
<1> DEFINE s == corrections[c].session
           row == Corrected(sessions[s], deciding[c].row)
<1>1. /\ s \in Rows(sessions) /\ sessions[s] \in Session
      /\ deciding[c].row \in Adjustment
      /\ sessions' = [sessions EXCEPT ![s] = row]
  BY CommitEffects
<1>2. row.trainee = sessions[s].trainee /\ row.status = "corrected"
  BY <1>1, CorrectedRow
<1>3. /\ deciding[c] # NULL /\ deciding' = [deciding EXCEPT ![c] = NULL]
      /\ announced' = announced \cup
           (IF deciding[c].milestone THEN {sessions[s].trainee} ELSE {})
  BY DEF DecideCommit
<1>4. s \in locked /\ deciding'[c] = NULL /\ TypeOK
  BY <1>3 DEF CInv, CTypeOK, IInv, ApprovalHoldsItsRow
<1>5. sessions' = AfterApproval(c)
  BY <1>1 DEF AfterApproval
<1> HIDE DEF row
<1>6. sessions'[s] = row /\ \A x \in Requests : x # s => sessions'[x] = sessions[x]
  BY <1>1, <1>4 DEF TypeOK, Rows
<1> QED
  BY <1>1, <1>2, <1>3, <1>4, <1>5, <1>6 DEF Rows

\* Only the COMMIT of a transaction of the trainee moves the trainee's hours.
LEMMA HoursElsewhere ==
  ASSUME CInv, [CNext]_allVars, NEW t,
         \A r \in Requests : Closes(r) => call[r].trainee # t,
         \A c \in Proposals :
           DecideCommit(c) => sessions[corrections[c].session].trainee # t
  PROVE  Elsewhere(t)
<1>1. CASE UNCHANGED <<sessions, announced>>
  BY <1>1 DEF Elsewhere
<1>2. ASSUME NEW r \in Requests, Inserts(r) PROVE Elsewhere(t)
  <2>1. /\ call[r] \in Call /\ call[r].now \in Instant /\ sessions[r] = NULL
        /\ sessions' = [sessions EXCEPT ![r] = NewSession(call[r])]
    BY <1>2 DEF Inserts
  <2>2. NewSession(call[r]).credited = NULL
    BY <2>1, NewRow
  <2>3. \A x \in Requests : IF x = r THEN sessions'[x] = NewSession(call[r])
                            ELSE sessions'[x] = sessions[x]
    BY <2>1 DEF CInv, IInv, TypeOK
  <2> QED
    BY <2>1, <2>2, <2>3 DEF Elsewhere, Counts
<1>3. ASSUME NEW r \in Requests, Closes(r) PROVE Elsewhere(t)
  BY <1>3, CloseFacts DEF Elsewhere, Counts
<1>4. ASSUME NEW c \in Proposals, DecideCommit(c) PROVE Elsewhere(t)
  BY <1>4, ApprovalFacts DEF Elsewhere, Counts
<1> QED
  BY <1>1, <1>2, <1>3, <1>4, RowsChange

\* While an open transaction of the trainee holds row s, other rows of the
\* trainee have no open transaction: the COMMIT of another is of another trainee.
LEMMA AloneWithTheTrainee ==
  ASSUME CInv, OneDayAtATime, [CNext]_allVars, NEW s \in locked, sessions[s] # NULL,
         \A r \in Requests : Closes(r) => call[r].target # s,
         \A c \in Proposals : DecideCommit(c) => corrections[c].session # s
  PROVE  /\ Elsewhere(sessions[s].trainee)
         /\ sessions'[s] = sessions[s]
<1>1. \A r \in Requests : Closes(r) => call[r].trainee # sessions[s].trainee
  BY CloseFacts DEF OneDayAtATime
<1>2. \A c \in Proposals : DecideCommit(c) =>
        sessions[corrections[c].session].trainee # sessions[s].trainee
  BY ApprovalFacts DEF OneDayAtATime
<1>3. Elsewhere(sessions[s].trainee)
  BY <1>1, <1>2, HoursElsewhere
<1>4. sessions'[s] = sessions[s]
  <2>1. s \in Requests
    BY DEF CInv, IInv, TypeOK
  <2>2. ASSUME NEW r \in Requests, Inserts(r) PROVE sessions'[s] = sessions[s]
    BY <2>1, <2>2 DEF Inserts, CInv, IInv, TypeOK
  <2> QED
    BY <2>1, <2>2, RowsChange, CloseFacts, ApprovalFacts
<1> QED
  BY <1>3, <1>4

\* Calls change only by a step of the write service.
LEMMA OnlyTheServiceCalls ==
  ASSUME [CNext]_allVars, call' # call
  PROVE  [Next]_vars
BY DEF CNext, allVars, RequestValidate, RequestInsert, DecideReject, DecideApproveTx,
   DecideCommit, DecideAbort, vars

\* An approval is opened by its own statements.
LEMMA OnlyApprovalsDecide ==
  ASSUME CTypeOK, [CNext]_allVars, NEW c \in Proposals, deciding'[c] # NULL,
         deciding'[c] # deciding[c]
  PROVE  DecideApproveTx(c)
<1>1. ASSUME NEW d \in Proposals, DecideApproveTx(d) PROVE d = c
  <2>1. \E x : deciding' = [deciding EXCEPT ![d] = x]
    BY <1>1, Zenon DEF DecideApproveTx
  <2> QED
    BY <2>1 DEF CTypeOK
<1>2. ASSUME NEW d \in Proposals, DecideCommit(d) \/ DecideAbort(d) PROVE FALSE
  BY <1>2 DEF DecideCommit, DecideAbort, CTypeOK
<1>3. ~UNCHANGED deciding
  OBVIOUS
<1> QED
  BY <1>1, <1>2, <1>3 DEF CNext, allVars, corrVars, RequestValidate, RequestInsert,
     DecideReject

\* A request stays about its day.
LEMMA FiledDayStays ==
  ASSUME CInv, [CNext]_allVars, NEW c \in Filed
  PROVE  corrections'[c].session = corrections[c].session
<1>1. corrections \in [Proposals -> Correction \cup {NULL}] /\ corrections[c] \in Correction
  BY FiledFacts DEF CInv, CTypeOK
<1>2. ASSUME NEW d \in Proposals, RequestInsert(d) PROVE d # c
  BY <1>2 DEF RequestInsert, CInv, RequestsHold, Filed
<1>3. ASSUME NEW d \in Proposals, RequestInsert(d)
      PROVE  corrections'[c] = corrections[c]
  BY <1>1, <1>2, <1>3 DEF RequestInsert, Filed
<1>4. ASSUME NEW d \in Proposals, NEW x,
             corrections' = [corrections EXCEPT ![d].status = x]
      PROVE  corrections'[c].session = corrections[c].session
  BY <1>1, <1>4 DEF Filed, Correction
<1>5. ASSUME NEW d \in Proposals, DecideReject(d) \/ DecideCommit(d)
      PROVE  corrections'[c].session = corrections[c].session
  BY <1>4, <1>5 DEF DecideReject, DecideCommit
<1>6. ASSUME NEW d \in Proposals,
             \/ \E s \in Requests, pIn, pOut \in Instant \cup {NULL} :
                  RequestValidate(d, s, pIn, pOut)
             \/ DecideApproveTx(d)
             \/ DecideAbort(d)
      PROVE  UNCHANGED corrections
  BY <1>6 DEF RequestValidate, DecideApproveTx, DecideAbort
<1> QED
  BY <1>3, <1>5, <1>6 DEF CNext, allVars, corrVars

\* What an open Time Out found of the milestone stands, or has just been found.
LEMMA TimeOutsStand ==
  ASSUME SInv, CInv', [CNext]_allVars, RequirementsStay,
         NEW r \in Requests, call'[r] # NULL, call'[r].pc = "commit"
  PROVE  call'[r].milestone = MilestoneReached(call[r].trainee, AfterTimeOut(r))'
<1> DEFINE c == call[r]
           s == c.target
           t == c.trainee
           row == Closed(sessions[s], c)
<1>1. /\ CInv /\ IInv /\ TypeOK /\ TypeOK' /\ OneDayAtATime /\ MilestonesStand
      /\ LockedRowsAreStable' /\ LockedRowsAreStable
  BY DEF SInv, CInv, IInv
<1>2. CASE call'[r] = c
  <2>1. c # NULL /\ c.pc = "commit" /\ c \in Call
    BY <1>1, <1>2 DEF TypeOK
  <2>2. /\ HandlerOK(r, c) /\ c.action = "time_out"
        /\ s \in Rows(sessions) /\ s \in locked
    BY <1>1, <2>1, CallFacts, CommitFacts DEF LockedRowsAreStable
  <2>3. sessions[s] # NULL /\ sessions[s].trainee = t /\ t \in Trainees /\ s \in Requests
    BY <2>1, <2>2 DEF HandlerOK, Rows, Call
  <2>4. sessions'[s].status = "open"
    BY <1>1, <1>2 DEF LockedRowsAreStable
  <2>5. /\ \A q \in Requests : Closes(q) => call[q].target # s
        /\ \A d \in Proposals : DecideCommit(d) => corrections[d].session # s
    BY <1>1, <2>4, CloseFacts, ApprovalFacts
  <2>6. Elsewhere(t) /\ sessions'[s] = sessions[s]
    BY <1>1, <2>2, <2>3, <2>5, AloneWithTheTrainee
  <2>7. c.milestone = MilestoneReached(t, AfterTimeOut(r))
    BY <1>1, <2>1 DEF MilestonesStand
  <2>8. AfterTimeOut(r)' = [sessions' EXCEPT ![s] = row]
    BY <1>2, <2>6 DEF AfterTimeOut
  <2>9. Completed(t, AfterTimeOut(r)') = Completed(t, AfterTimeOut(r))
    <3>1. AfterTimeOut(r) = [sessions EXCEPT ![s] = row]
      BY DEF AfterTimeOut
    <3> HIDE DEF row, s, t
    <3>2. Completed(t, [sessions' EXCEPT ![s] = row])
            = Completed(t, [sessions EXCEPT ![s] = row])
      BY <1>1, <2>3, <2>6, HoursStay
    <3> QED
      BY <2>8, <3>1, <3>2, Zenon
  <2> QED
    BY <1>2, <2>3, <2>7, <2>9 DEF MilestoneReached, RequirementsStay
<1>3. CASE call'[r] # c
  <2>1. [Next]_vars
    BY <1>3, OnlyTheServiceCalls
  <2>2. CallStep(r)
    BY <1>1, <2>1, CallSteps
  <2>3. c # NULL /\ TimeOutTx(r)
    BY <1>3, <2>2 DEF CallStep
  <2>4. c \in Call
    BY <1>1, <2>3 DEF TypeOK
  <2>5. /\ call' = [call EXCEPT ![r].pc = "commit",
                                ![r].milestone = MilestoneReached(t, AfterTimeOut(r))]
        /\ UNCHANGED <<assignment, sessions>>
    <3>1. \A code, x : Return(r, code, x) => call'[r] = NULL
      BY <1>1 DEF Return, Finish, TypeOK
    <3>2. Goto(r, "recheck") => call'[r].pc = "recheck"
      BY <1>1, <2>4 DEF Goto, TypeOK, Call
    <3> QED
      BY <2>3, <3>1, <3>2 DEF TimeOutTx, AfterTimeOut, dbVars
  <2>6. /\ call'[r].milestone = MilestoneReached(t, AfterTimeOut(r))
        /\ call'[r].target = s /\ call'[r].trainee = t
        /\ call'[r].now = c.now /\ call'[r].fix = c.fix /\ call'[r].rule = c.rule
    <3> DEFINE m == MilestoneReached(t, AfterTimeOut(r))
    <3>1. call' = [call EXCEPT ![r].pc = "commit", ![r].milestone = m]
      BY <2>5
    <3> HIDE DEF m
    <3>2. call'[r] = [c EXCEPT !.pc = "commit", !.milestone = m]
      BY <1>1, <3>1 DEF TypeOK
    <3> QED
      BY <2>4, <3>2 DEF Call, m
  <2>7. AfterTimeOut(r)' = AfterTimeOut(r)
    BY <2>5, <2>6 DEF AfterTimeOut, Closed
  <2> QED
    BY <2>5, <2>6, <2>7 DEF MilestoneReached
<1> QED
  BY <1>2, <1>3

\* And so does what an open approval found.
LEMMA ApprovalsStand ==
  ASSUME SInv, CInv', [CNext]_allVars, RequirementsStay,
         NEW c \in Proposals, deciding'[c] # NULL
  PROVE  deciding'[c].milestone =
           MilestoneReached(sessions[corrections[c].session].trainee, AfterApproval(c))'
<1> DEFINE s == corrections[c].session
           t == sessions[s].trainee
           row == Corrected(sessions[s], deciding[c].row)
<1>1. /\ CInv /\ IInv /\ TypeOK /\ TypeOK' /\ OneDayAtATime /\ MilestonesStand
      /\ CTypeOK /\ ApprovalHoldsItsRow /\ ApprovalsHold
  BY DEF SInv, CInv, IInv
<1>2. CASE deciding'[c] = deciding[c]
  <2>1. deciding[c] # NULL /\ c \in Filed /\ s \in locked /\ s \in Rows(sessions)
    BY <1>1, <1>2, FiledFacts DEF ApprovalHoldsItsRow, ApprovalsHold
  <2>2. /\ sessions[s] # NULL /\ s \in Requests /\ t \in Trainees
        /\ corrections[c].status = "pending"
    BY <1>1, <2>1, FiledFacts DEF Rows, Session, ApprovalHoldsItsRow
  <2>3. \A d \in Proposals : DecideCommit(d) => corrections[d].session # s
    <3>1. ASSUME NEW d \in Proposals, DecideCommit(d), corrections[d].session = s
          PROVE  FALSE
      <4>1. deciding[d] # NULL /\ deciding'[d] = NULL
        BY <1>1, <3>1, ApprovalFacts
      <4>2. d = c
        BY <1>1, <2>1, <3>1, <4>1 DEF ApprovalsHold
      <4> QED
        BY <1>2, <2>1, <4>1, <4>2
    <3> QED
      BY <3>1
  <2>4. \A q \in Requests : Closes(q) => call[q].target # s
    BY <1>1, <2>1 DEF Closes, ApprovalHoldsItsRow
  <2>5. Elsewhere(t) /\ sessions'[s] = sessions[s]
    BY <1>1, <2>1, <2>2, <2>3, <2>4, AloneWithTheTrainee
  <2>6. corrections'[c].session = s
    BY <1>1, <2>1, FiledDayStays
  <2>7. deciding[c].milestone = MilestoneReached(t, AfterApproval(c))
    BY <1>1, <2>1 DEF MilestonesStand
  <2>8. AfterApproval(c)' = [sessions' EXCEPT ![s] = row]
    BY <1>2, <2>5, <2>6 DEF AfterApproval
  <2>9. Completed(t, AfterApproval(c)') = Completed(t, AfterApproval(c))
    <3>1. AfterApproval(c) = [sessions EXCEPT ![s] = row]
      BY DEF AfterApproval
    <3> HIDE DEF row, s, t
    <3>2. Completed(t, [sessions' EXCEPT ![s] = row])
            = Completed(t, [sessions EXCEPT ![s] = row])
      BY <1>1, <2>2, <2>5, HoursStay
    <3> QED
      BY <2>8, <3>1, <3>2, Zenon
  <2> QED
    BY <1>2, <2>2, <2>5, <2>6, <2>7, <2>9 DEF MilestoneReached, RequirementsStay
<1>3. CASE deciding'[c] # deciding[c]
  <2>1. DecideApproveTx(c)
    BY <1>1, <1>3, OnlyApprovalsDecide
  <2> DEFINE after == [sessions EXCEPT ![s] = Corrected(sessions[s], Projection(c))]
             m == MilestoneReached(t, after)
  <2>2. /\ deciding' = [deciding EXCEPT ![c] = [row |-> Projection(c), milestone |-> m]]
        /\ UNCHANGED <<assignment, sessions, corrections>>
    BY <2>1 DEF DecideApproveTx, dbVars
  <2>3. deciding'[c].row = Projection(c) /\ deciding'[c].milestone = m
    <3> HIDE DEF m
    <3> QED
      BY <1>1, <2>2 DEF CTypeOK
  <2>4. AfterApproval(c)' = after
    BY <2>2, <2>3 DEF AfterApproval
  <2> QED
    BY <2>2, <2>3, <2>4 DEF MilestoneReached
<1> QED
  BY <1>2, <1>3

\* Whoever gets the hours is told by the COMMIT that completes them.
LEMMA CompletionIsTold ==
  ASSUME SInv, CInv', [CNext]_allVars, RequirementsStay
  PROVE  CompletionsAnnounced'
<1>1. CInv /\ TypeOK /\ TypeOK' /\ CompletionsAnnounced /\ MilestonesStand
  BY DEF SInv, CInv, IInv
<1>2. announced \subseteq announced'
  BY <1>1, RowsChange, ApprovalFacts DEF Inserts, Closes
<1> SUFFICES ASSUME NEW t \in Trainees, Completed(t, sessions') >= assignment'[t].required
             PROVE  t \in announced'
  BY DEF CompletionsAnnounced, MilestoneReached
<1>3. assignment'[t].required = assignment[t].required
  BY DEF RequirementsStay
<1>4. ASSUME NEW r \in Requests, Closes(r), call[r].trainee = t PROVE t \in announced'
  <2>1. sessions' = AfterTimeOut(r)
    BY <1>1, <1>4, CloseFacts
  <2>2. call[r].milestone = MilestoneReached(t, AfterTimeOut(r))
    BY <1>1, <1>4 DEF MilestonesStand, Closes
  <2>3. MilestoneReached(t, AfterTimeOut(r))
    BY <1>3, <2>1 DEF MilestoneReached
  <2> QED
    BY <1>4, <2>2, <2>3 DEF Closes
<1>5. ASSUME NEW c \in Proposals, DecideCommit(c),
             sessions[corrections[c].session].trainee = t
      PROVE  t \in announced'
  <2>1. /\ sessions' = AfterApproval(c) /\ deciding[c] # NULL
        /\ announced' = announced \cup (IF deciding[c].milestone THEN {t} ELSE {})
    BY <1>1, <1>5, ApprovalFacts
  <2>2. deciding[c].milestone = MilestoneReached(t, AfterApproval(c))
    BY <1>1, <1>5, <2>1 DEF MilestonesStand
  <2>3. MilestoneReached(t, AfterApproval(c))
    BY <1>3, <2>1 DEF MilestoneReached
  <2> QED
    BY <2>1, <2>2, <2>3
<1>6. CASE Elsewhere(t)
  <2>1. Completed(t, sessions') = Completed(t, sessions)
    BY <1>1, <1>6, HoursStay
  <2>2. MilestoneReached(t, sessions)
    BY <1>3, <2>1 DEF MilestoneReached
  <2> QED
    BY <1>1, <1>2, <2>2 DEF CompletionsAnnounced
<1> QED
  BY <1>1, <1>4, <1>5, <1>6, HoursElsewhere

\* At first nobody has any hours, and every assignment requires some.
LEMMA SInitInv == CInit => SInv
<1> SUFFICES ASSUME CInit PROVE SInv
  OBVIOUS
<1>1. CInv
  BY CInitInv
<1>2. OneDayAtATime /\ MilestonesStand
  BY DEF CInit, Init, OneDayAtATime, MilestonesStand
<1>3. ASSUME NEW t \in Trainees PROVE ~MilestoneReached(t, sessions)
  <2>1. \A s \in Requests : ~Counts(t, sessions[s])
    BY DEF CInit, Init, Counts
  <2>2. Completed(t, sessions) = 0
    BY <2>1, NothingCompleted
  <2>3. assignment[t].required \in Nat \ {0}
    BY InputAssumption DEF CInit, Init, Assignment
  <2> QED
    BY <2>2, <2>3 DEF MilestoneReached
<1> QED
  BY <1>1, <1>2, <1>3 DEF SInv, CompletionsAnnounced

\* One transaction of a trainee at a time keeps all of it.
LEMMA SerialKeeps ==
  ASSUME SInv, [SerialNext]_allVars
  PROVE  SInv'
<1>1. CASE UNCHANGED allVars
  <2>1. CInv'
    BY <1>1, CNextKeeps DEF SInv
  <2> QED
    BY <1>1, <2>1 DEF SInv, allVars, vars, corrVars, OneDayAtATime, CompletionsAnnounced,
       MilestonesStand, MilestoneReached, AfterTimeOut, AfterApproval
<1>2. CASE SerialNext
  <2>1. [CNext]_allVars /\ OneDayAtATime' /\ RequirementsStay
    BY <1>2 DEF SerialNext, RequirementsStay
  <2>2. CInv'
    BY <2>1, CNextKeeps DEF SInv
  <2>3. CompletionsAnnounced'
    BY <2>1, <2>2, CompletionIsTold
  <2>4. MilestonesStand'
    <3>1. ASSUME NEW r \in Requests, call'[r] # NULL, call'[r].pc = "commit"
          PROVE  call'[r].milestone = MilestoneReached(call[r].trainee, AfterTimeOut(r))'
      BY <2>1, <2>2, <3>1, TimeOutsStand
    <3>2. ASSUME NEW c \in Proposals, deciding'[c] # NULL
          PROVE  deciding'[c].milestone =
                   MilestoneReached(sessions[corrections[c].session].trainee,
                                    AfterApproval(c))'
      BY <2>1, <2>2, <3>2, ApprovalsStand
    <3> QED
      BY <3>1, <3>2 DEF MilestonesStand
  <2> QED
    BY <2>1, <2>2, <2>3, <2>4 DEF SInv
<1> QED
  BY <1>1, <1>2

\* The notification is not lost to the order of statements: as long as the
\* transactions of a trainee follow one another and the required hours stay,
\* whoever reaches them is told (notifications.go:28-31), by a Time Out or by
\* an approval.
THEOREM SerialMilestone == SerialSpec => []MilestoneAnnounced
<1>1. SInv /\ [SerialNext]_allVars => SInv'
  BY SerialKeeps
<1>2. SInv => MilestoneAnnounced
  BY DEF SInv, CompletionsAnnounced, MilestoneReached, MilestoneAnnounced
<1> QED
  BY <1>1, <1>2, SInitInv, PTL DEF SerialSpec
================================================================================
