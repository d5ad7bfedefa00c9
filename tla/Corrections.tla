------------------------------ MODULE Corrections ------------------------------
(***************************************************************************)
(* Attendance corrections (internal/corrections) composed with the write   *)
(* service: a trainee proposes other times for a session, staff approve or *)
(* reject, and an approval rewrites the effective times, never the         *)
(* original ones.  Both sides lock the session row, so the composition is  *)
(* an interleaving of the actions of Attendance with those below.          *)
(***************************************************************************)
EXTENDS Attendance, Sequences

CONSTANT Proposals   \* ids of correction_requests rows

ASSUME ProposalAssumption == NULL \notin Proposals

VARIABLES
  corrections,  \* correction_requests: id -> row, NULL when there is no row
  adjustments,  \* attendance_adjustments, oldest first
  told,         \* notifications "correction:<id>:<decision>"
  asking,       \* Request between its validation and its INSERT
  deciding      \* Decide between its statements and its COMMIT

corrVars == <<corrections, adjustments, told, asking, deciding>>
allVars == <<vars, corrVars>>

Decisions == {"approved", "rejected"}
Proposal == [session : Requests, pIn : Instant \cup {NULL}, pOut : Instant \cup {NULL}]
Correction == [session : Requests, pIn : Instant \cup {NULL},
               pOut : Instant \cup {NULL}, status : {"pending"} \cup Decisions]
Adjustment == [correction : Proposals, session : Requests, effIn : Instant,
               effOut : Instant \cup {NULL}, credited : Nat \cup {NULL}]

Filed == {c \in Proposals : corrections[c] # NULL}
Pending(s) ==
  {c \in Filed : corrections[c].session = s /\ corrections[c].status = "pending"}

Coalesce(x, y) == IF x # NULL THEN x ELSE y

\* NULL is no row, and nothing being asked or decided.
ASSUME RequestAssumption ==
  NULL \notin Correction \cup Proposal \cup [row : Adjustment, milestone : BOOLEAN]

-------------------------------------------------------------------------------
(* POST /attendance/{id}/corrections.                                      *)

\* validateProposal, against the effective time in read without a lock.  The
\* types gps_issue and other may carry no proposed time at all.
ValidProposal(s, pIn, pOut) ==
  /\ pIn # NULL => pIn <= clock
  /\ pOut # NULL => pOut <= clock
  /\ pOut # NULL => pOut > Coalesce(pIn, sessions[s].effIn)

RequestValidate(c, s, pIn, pOut) ==
  /\ corrections[c] = NULL /\ asking[c] = NULL
  /\ sessions[s] # NULL
  /\ ValidProposal(s, pIn, pOut)
  /\ asking' = [asking EXCEPT ![c] = [session |-> s, pIn |-> pIn, pOut |-> pOut]]
  /\ UNCHANGED <<vars, corrections, adjustments, told, deciding>>

\* A slip: the insert relies on a look at the pending requests made before.
PendingUnchecked(s) == FALSE

\* Partial unique index correction_requests_one_pending.
PendingTaken(s) == Pending(s) # {}

\* The INSERT waits while the pending request it collides with is being decided.
RequestInsert(c) ==
  LET p == asking[c]
  IN  /\ p # NULL
      /\ \A d \in Pending(p.session) : deciding[d] = NULL
      /\ asking' = [asking EXCEPT ![c] = NULL]
      /\ corrections' =
           IF PendingTaken(p.session) THEN corrections
           ELSE [corrections EXCEPT ![c] =
                   [session |-> p.session, pIn |-> p.pIn, pOut |-> p.pOut,
                    status |-> "pending"]]
      /\ UNCHANGED <<vars, adjustments, told, deciding>>

-------------------------------------------------------------------------------
(* POST /staff/corrections/{id}/decision.                                  *)

\* A slip: the decision trusts the list the staff member looked at.
UndecidedAsListed(c) == c \in Filed /\ deciding[c] = NULL

Undecided(c) ==
  c \in Filed /\ corrections[c].status = "pending" /\ deciding[c] = NULL

DecideReject(c) ==
  /\ Undecided(c)
  /\ corrections' = [corrections EXCEPT ![c].status = "rejected"]
  /\ told' = told \cup {<<c, "rejected">>}
  /\ UNCHANGED <<vars, adjustments, asking, deciding>>

\* A slip: the approval keeps the credited minutes of the old times.
ProjectionKeepingCredit(c) ==
  LET p == corrections[c]
      row == sessions[p.session]
  IN  [correction |-> c, session |-> p.session,
       effIn |-> Coalesce(p.pIn, row.effIn), effOut |-> Coalesce(p.pOut, row.effOut),
       credited |-> row.credited]

\* The effective projection an approval of c gives its session.
Projection(c) ==
  LET p == corrections[c]
      row == sessions[p.session]
      effIn == Coalesce(p.pIn, row.effIn)
      effOut == Coalesce(p.pOut, row.effOut)
  IN  [correction |-> c, session |-> p.session, effIn |-> effIn, effOut |-> effOut,
       credited |-> IF effOut = NULL THEN NULL
                    ELSE CreditedMinutes(effIn, effOut, assignment[row.trainee].rule)]

EffectiveUnordered(a) == TRUE

\* 422 INVALID_EFFECTIVE_DURATION otherwise: nothing changes, c stays pending.
EffectiveOrdered(a) == a.effOut # NULL => a.effOut > a.effIn

\* A slip that "heals" the originals along with the projection.
CorrectedRewritingOriginals(row, a) ==
  [row EXCEPT !.effIn = a.effIn, !.effOut = a.effOut, !.origIn = a.effIn,
              !.credited = Coalesce(a.credited, row.credited), !.status = "corrected"]

\* The session row after an approval: the original times and the flag codes
\* stay, a status "flagged" does not: it is "corrected" in either case.
Corrected(row, a) ==
  [row EXCEPT !.effIn = a.effIn, !.effOut = a.effOut,
              !.credited = Coalesce(a.credited, row.credited), !.status = "corrected"]

\* The statements of an approval: both rows locked, the projection computed,
\* the milestone tested over what the transaction sees.
DecideApproveTx(c) ==
  LET s == corrections[c].session
      a == Projection(c)
      after == [sessions EXCEPT ![s] = Corrected(sessions[s], a)]
  IN  /\ Undecided(c)
      /\ RowFree(s)
      /\ EffectiveOrdered(a)
      /\ locked' = locked \cup {s}
      /\ deciding' = [deciding EXCEPT ![c] =
           [row |-> a, milestone |-> MilestoneReached(sessions[s].trainee, after)]]
      /\ UNCHANGED <<clock, dbVars, call, reply, corrections, adjustments, told, asking>>

\* An approval that gives an open day its time out yields its journal.
JournalFor(a, s) ==
  IF a.effOut # NULL /\ sessions[s].effOut = NULL THEN EnsureDraft(s) ELSE journals

DecideCommit(c) ==
  LET s == corrections[c].session
      a == deciding[c].row
  IN  /\ deciding[c] # NULL
      /\ adjustments' = Append(adjustments, a)
      /\ sessions' = [sessions EXCEPT ![s] = Corrected(sessions[s], a)]
      /\ corrections' = [corrections EXCEPT ![c].status = "approved"]
      /\ journals' = JournalFor(a, s)
      /\ announced' = announced \cup
           (IF deciding[c].milestone THEN {sessions[s].trainee} ELSE {})
      /\ told' = told \cup {<<c, "approved">>}
      /\ locked' = Released(s)
      /\ deciding' = [deciding EXCEPT ![c] = NULL]
      /\ UNCHANGED <<clock, assignment, evidence, call, reply, asking>>

\* A slip: the adjustment is inserted beside the transaction.
DecideAbortAdjusted(c) ==
  /\ deciding[c] # NULL
  /\ locked' = Released(corrections[c].session)
  /\ deciding' = [deciding EXCEPT ![c] = NULL]
  /\ adjustments' = Append(adjustments, deciding[c].row)
  /\ UNCHANGED <<clock, dbVars, call, reply, corrections, told, asking>>

\* The server dies, or the connection drops, before the COMMIT.
DecideAbort(c) ==
  /\ deciding[c] # NULL
  /\ locked' = Released(corrections[c].session)
  /\ deciding' = [deciding EXCEPT ![c] = NULL]
  /\ UNCHANGED <<clock, dbVars, call, reply, corrections, adjustments, told, asking>>

-------------------------------------------------------------------------------
CInit ==
  /\ Init
  /\ corrections = [c \in Proposals |-> NULL]
  /\ adjustments = <<>>
  /\ told = {}
  /\ asking = [c \in Proposals |-> NULL]
  /\ deciding = [c \in Proposals |-> NULL]

CNext ==
  \/ Next /\ UNCHANGED corrVars
  \/ \E c \in Proposals :
       \/ \E s \in Requests, pIn, pOut \in Instant \cup {NULL} :
            RequestValidate(c, s, pIn, pOut)
       \/ RequestInsert(c)
       \/ DecideReject(c)
       \/ DecideApproveTx(c)
       \/ DecideCommit(c)
       \/ DecideAbort(c)

\* What a handler started it goes on with; staff need not decide.  A Time Out
\* and a request wait for a row that approvals may take again and again: the
\* lock queue of PostgreSQL is first come first served, so a waiter that the
\* row is free for infinitely often gets it.
CFairness ==
  /\ \A r \in Requests : /\ WF_allVars(Handler(r) /\ UNCHANGED corrVars)
                        /\ SF_allVars(TimeOutTx(r) /\ UNCHANGED corrVars)
  /\ \A c \in Proposals : SF_allVars(RequestInsert(c)) /\ WF_allVars(DecideCommit(c))

CSpec == CInit /\ [][CNext]_allVars
CFairSpec == CSpec /\ CFairness

\* What the milestone would need: the transactions of a trainee one after the
\* other, and the hours an assignment requires as they are.  The code ensures
\* neither.
OneDayAtATime ==
  \A s1, s2 \in locked : sessions[s1].trainee = sessions[s2].trainee => s1 = s2
SerialNext ==
  /\ CNext
  /\ OneDayAtATime'
  /\ \A t \in Trainees : assignment'[t].required = assignment[t].required
SerialSpec == CInit /\ [][SerialNext]_allVars

-------------------------------------------------------------------------------
(* Properties.                                                             *)

\* Every table and every handler holds values of its columns and locals.
CTypeOK ==
  /\ TypeOK
  /\ corrections \in [Proposals -> Correction \cup {NULL}]
  /\ adjustments \in Seq(Adjustment)
  /\ told \subseteq Proposals \X Decisions
  /\ asking \in [Proposals -> Proposal \cup {NULL}]
  /\ deciding \in [Proposals -> [row : Adjustment, milestone : BOOLEAN] \cup {NULL}]

\* A decision leaves its record whole: exactly the approved requests have an
\* adjustment, one each, on their own session, which then reads "corrected",
\* flagged before or not (FlaggedStaysMarked is the comment that says otherwise);
\* no other session does; and the trainee was told of exactly the decision made.
DecisionLeavesItsRecord ==
  LET Approved == {c \in Filed : corrections[c].status = "approved"}
  IN  /\ Approved = {adjustments[i].correction : i \in DOMAIN adjustments}
      /\ Len(adjustments) = Cardinality(Approved)
      /\ \A i \in DOMAIN adjustments :
           adjustments[i].session = corrections[adjustments[i].correction].session
      /\ {s \in Rows(sessions) : sessions[s].status = "corrected"}
           = {corrections[c].session : c \in Approved}
      /\ told = {<<c, corrections[c].status>> :
                   c \in {d \in Filed : corrections[d].status # "pending"}}

\* The effective times and credited minutes of a day are those of its latest
\* adjustment, and of its Time In and Time Out when it has none
\* (corrections/service.go:1-8), and run forward within the past.
EffectiveIsLatestAdjustment ==
  \A s \in Rows(sessions) :
    LET mine == {i \in DOMAIN adjustments : adjustments[i].session = s}
        row == sessions[s]
    IN  /\ IF mine = {} THEN row.effIn = row.origIn /\ row.effOut = row.origOut
           ELSE LET last == adjustments[CHOOSE i \in mine : \A j \in mine : j <= i]
                IN  /\ row.effIn = last.effIn
                    /\ row.effOut = last.effOut
                    /\ row.credited = last.credited
        /\ row.effIn <= clock
        /\ row.effOut # NULL => row.effIn < row.effOut /\ row.effOut <= clock

\* The two kinds of transaction that lock a session row, Time Out and
\* approval, never hold the same one, and an approval commits exactly the
\* projection of the row it locked.
ApprovalHoldsItsRow ==
  \A c \in Proposals :
    deciding[c] # NULL =>
      /\ corrections[c].status = "pending"
      /\ corrections[c].session \in locked
      /\ deciding[c].row.effIn = Projection(c).effIn
      /\ deciding[c].row.effOut = Projection(c).effOut
      /\ \A r \in Requests :
           call[r] # NULL /\ call[r].pc = "commit" =>
             call[r].target # corrections[c].session

\* A decided request is never decided again, adjustments are only appended,
\* and the effective times of a day change only with its Time Out while it is
\* open or with a new adjustment of it.
DecisionIsFinal ==
  [][/\ \A c \in Filed : corrections[c].status # "pending" =>
          corrections'[c] = corrections[c]
     /\ Len(adjustments) <= Len(adjustments')
     /\ \A i \in DOMAIN adjustments : adjustments'[i] = adjustments[i]
     /\ \A s \in Rows(sessions) :
          <<sessions'[s].effIn, sessions'[s].effOut, sessions'[s].credited>>
             # <<sessions[s].effIn, sessions[s].effOut, sessions[s].credited>>
          => \/ sessions[s].status = "open" /\ sessions'[s].origOut # NULL
             \/ /\ Len(adjustments') > Len(adjustments)
                /\ adjustments'[Len(adjustments')].session = s]_allVars

\* "A completed day can never exist without its journal" (service.go:474-475)
\* and "A correction that closes an open day must yield its journal"
\* (corrections/service.go:347): a day that is no longer open has its journal.
LeftOpenHasJournal ==
  \A s \in Rows(sessions) : sessions[s].status # "open" => s \in journals

\* "Keep a flagged marker if the session was flagged." (corrections/service.go:320,
\* where an approval chooses the new status): no step takes the status "flagged"
\* from a day.
FlaggedStaysMarked ==
  [][\A s \in Rows(sessions) :
       sessions[s].status = "flagged" => sessions'[s].status = "flagged"]_allVars

\* What the book of days says of a session row: the stamps, the effective
\* projection, and whether a Time Out or a correction has settled it.
PageOf(row) ==
  [trainee |-> row.trainee, stampedIn |-> row.origIn, stampedOut |-> row.origOut,
   in |-> row.effIn, out |-> row.effOut, credited |-> row.credited,
   state |-> IF row.status \in {"valid", "flagged"} THEN "closed" ELSE row.status]

TheBook == [s \in Requests |-> IF sessions[s] = NULL THEN NULL ELSE PageOf(sessions[s])]

Page == [trainee : Trainees, stampedIn : Instant, stampedOut : Instant \cup {NULL},
         in : Instant, out : Instant \cup {NULL}, credited : Nat \cup {NULL},
         state : {"open", "closed", "corrected"}]

\* NULL is no page.
ASSUME PageAssumption == NULL \notin Page

DB == INSTANCE DayBook WITH
        Pages <- Requests, Petitions <- Proposals, now <- clock,
        book <- TheBook, diary <- journals, petitions <- corrections

\* Whatever calls and decisions overlap, fail or are sent again, days are
\* recorded as if every Time In, Time Out, request and decision happened at one
\* instant, its COMMIT, on what the day says then (service.go:1-9,
\* corrections/service.go:1-8).
ImplementsBook == DB!Book

\* Every Time In and Time Out that has begun is answered or lost with its
\* server, and every approval that has begun ends, even when approvals of the
\* same day are begun and rolled back over and over.
HandlersReturn ==
  /\ \A r \in Requests : call[r] # NULL ~> call[r] = NULL
  /\ \A c \in Proposals : deciding[c] # NULL ~> deciding[c] = NULL
================================================================================
