-------------------------------- MODULE Journal --------------------------------
(***************************************************************************)
(* One daily journal (internal/journals): drafts, submission, reviews and  *)
(* supporting images, whose bytes are objects of the store and whose rows  *)
(* are in journal_evidence.  Journals share nothing but the code, so one   *)
(* is enough.                                                              *)
(*                                                                         *)
(* Every mutation but the draft runs a transaction that takes the journal  *)
(* row FOR UPDATE and tests its status, one step, and writes and commits,  *)
(* another.  Around the transaction of an image are calls to the store,    *)
(* which no transaction covers.                                            *)
(***************************************************************************)
EXTENDS Naturals, FiniteSets, Sequences

CONSTANTS
  Calls,       \* HTTP calls in flight, staff and trainee
  Texts,       \* narratives the client may send
  LongTexts,   \* those of at least narrativeMinLen characters
  Images,      \* object keys, and the rows that name them
  MaxImages,   \* maxEvidencePerJournal
  MaxReviews,  \* bound: reviews after which none begins
  NULL

ASSUME JournalAssumption ==
  /\ NULL \notin Texts \cup Calls \cup Images
  /\ LongTexts \subseteq Texts
  /\ MaxImages \in Nat /\ MaxReviews \in Nat

VARIABLES
  status,     \* daily_journals.status
  narrative,  \* daily_journals.narrative
  revisions,  \* daily_journals.revision_count
  reviews,    \* journal_reviews, oldest first
  images,     \* journal_evidence
  objects,    \* objects of the store under journals/
  told,       \* event keys "journal:<id>:review:<n>" notified: the set of n
  trail,      \* audit_events of the journal, oldest first
  holder,     \* the call whose transaction holds the row, NULL if none
  call,       \* handler locals of a call in flight, NULL otherwise
  unheard     \* images whose INSERT committed though the server was not told

table == <<status, narrative, revisions, reviews, images, told, trail>>
journalVars == <<table, objects, holder, call, unheard>>

Statuses == {"draft", "submitted", "reviewed", "needs_revision"}
Decisions == {"reviewed", "needs_revision"}
Locals == [op : {"submit"}, text : LongTexts, pc : {"commit"}]
  \cup [op : {"review"}, decision : Decisions, pc : {"commit"}]
  \cup [op : {"add"}, image : Images, pc : {"put", "lock", "commit", "cleanup"}]
  \cup [op : {"delete"}, image : Images, pc : {"commit", "drop"}]

ASSUME LocalsAssumption == NULL \notin Locals

\* A server has finitely many calls in flight.
ASSUME CallsAssumption == IsFiniteSet(Calls)

InFlight == {c \in Calls : call[c] # NULL}
Of(op) == {c \in InFlight : call[c].op = op}

\* A new key is a fresh UUID: one that nothing refers to any more will do.
Fresh(i) ==
  /\ i \notin images \cup objects \cup unheard
  /\ \A c \in Of("add") \cup Of("delete") : call[c].image # i

\* A slip: the status is tested without FOR UPDATE.
RowNeverBusy == TRUE

\* SELECT ... FOR UPDATE and UPDATE wait for the transaction that has the row.
RowFree == holder = NULL

\* A slip: only a reviewed journal is closed to its trainee.
EditableUntilReviewed == status # "reviewed"

Editable == status \in {"draft", "needs_revision"}

\* The transaction of c has the row and goes on with these locals.
Lock(c, locals) ==
  /\ RowFree
  /\ holder' = c
  /\ call' = [call EXCEPT ![c] = locals]
  /\ UNCHANGED <<table, objects, unheard>>

-------------------------------------------------------------------------------
(* PUT /journals/{id}/draft: one UPDATE that tests the status of the row   *)
(* it finds when it has waited for it; 409 changes nothing.                *)

SaveDraft(t) ==
  /\ RowFree /\ Editable
  /\ narrative' = t
  /\ UNCHANGED <<status, revisions, reviews, images, told, trail, objects, holder, call, unheard>>

-------------------------------------------------------------------------------
(* POST /journals/{id}/submit and POST /staff/journals/{id}/review.        *)

SubmitLock(c, t) ==
  /\ call[c] = NULL /\ Editable
  /\ Lock(c, [op |-> "submit", text |-> t, pc |-> "commit"])

SubmitWrites(c) ==
  /\ narrative' = call[c].text
  /\ status' = "submitted"
  /\ trail' = Append(trail, "submitted")
  /\ UNCHANGED <<revisions, reviews, images, told>>

\* A slip: any journal that was handed in once can be decided.
ReviewableAgain == status \in {"submitted", "needs_revision"}

Reviewable == status = "submitted"

ReviewLock(c, d) ==
  /\ call[c] = NULL /\ Reviewable /\ Len(reviews) < MaxReviews
  /\ Lock(c, [op |-> "review", decision |-> d, pc |-> "commit"])

\* A slip: the event is numbered by the revisions, which "reviewed" is not.
EventByRevision(d) == revisions + (IF d = "needs_revision" THEN 1 ELSE 0)

\* The event key counts the reviews, the one just inserted among them.
Event(d) == Len(reviews) + 1

ReviewWrites(c) ==
  LET d == call[c].decision
  IN  /\ reviews' = Append(reviews, d)
      /\ status' = d
      /\ revisions' = revisions + (IF d = "needs_revision" THEN 1 ELSE 0)
      /\ told' = told \cup {Event(d)}
      /\ trail' = Append(trail, d)
      /\ UNCHANGED <<narrative, images>>

-------------------------------------------------------------------------------
(* POST /journals/{id}/evidence: count, store, then insert under the lock. *)

\* The count is read outside the transaction, and without the lock.
CountUnchecked == TRUE

BelowCap == Cardinality(images) < MaxImages

AddCount(c, i) ==
  /\ call[c] = NULL /\ Fresh(i) /\ BelowCap
  /\ call' = [call EXCEPT ![c] = [op |-> "add", image |-> i, pc |-> "put"]]
  /\ UNCHANGED <<table, objects, holder, unheard>>

\* A Put that fails, 503, may have stored the object all the same.
AddPut(c) ==
  /\ c \in Of("add") /\ call[c].pc = "put"
  /\ \/ /\ objects' = objects \cup {call[c].image}
        /\ call' = [call EXCEPT ![c].pc = "lock"]
     \/ /\ objects' \in {objects, objects \cup {call[c].image}}
        /\ call' = [call EXCEPT ![c] = NULL]
  /\ UNCHANGED <<table, holder, unheard>>

AddLock(c) ==
  /\ c \in Of("add") /\ call[c].pc = "lock" /\ RowFree
  /\ IF Editable THEN Lock(c, [call[c] EXCEPT !.pc = "commit"])
     ELSE /\ call' = [call EXCEPT ![c].pc = "cleanup"]
          /\ UNCHANGED <<table, objects, holder, unheard>>

AddWrites(c) ==
  /\ images' = images \cup {call[c].image}
  /\ UNCHANGED <<status, narrative, revisions, reviews, told, trail>>

\* The transaction failed: the object is removed, and an error of that ignored.
AddCleanup(c) ==
  /\ c \in Of("add") /\ call[c].pc = "cleanup"
  /\ objects' \in {objects, objects \ {call[c].image}}
  /\ call' = [call EXCEPT ![c] = NULL]
  /\ UNCHANGED <<table, holder, unheard>>

-------------------------------------------------------------------------------
(* DELETE /journals/{id}/evidence/{eid}: the row, then its object.         *)

DeleteLock(c, i) ==
  /\ call[c] = NULL /\ Editable /\ i \in images
  /\ Lock(c, [op |-> "delete", image |-> i, pc |-> "commit"])

DeleteWrites(c) ==
  /\ images' = images \ {call[c].image}
  /\ UNCHANGED <<status, narrative, revisions, reviews, told, trail>>

DeleteDrop(c) ==
  /\ c \in Of("delete") /\ call[c].pc = "drop"
  /\ objects' \in {objects, objects \ {call[c].image}}
  /\ call' = [call EXCEPT ![c] = NULL]
  /\ UNCHANGED <<table, holder, unheard>>

-------------------------------------------------------------------------------
(* The end of a transaction.                                               *)

InTx(c) == c \in InFlight /\ holder = c

Writes(c) ==
  \/ call[c].op = "submit" /\ SubmitWrites(c)
  \/ call[c].op = "review" /\ ReviewWrites(c)
  \/ call[c].op = "add"    /\ AddWrites(c)
  \/ call[c].op = "delete" /\ DeleteWrites(c)

\* A slip: the object goes although the row may still be there.
FailedDropping(c) ==
  IF call[c].op = "add" THEN [call[c] EXCEPT !.pc = "cleanup"]
  ELSE IF call[c].op = "delete" THEN [call[c] EXCEPT !.pc = "drop"] ELSE NULL

\* What InTx returning an error leaves to do.
Failed(c) == IF call[c].op = "add" THEN [call[c] EXCEPT !.pc = "cleanup"] ELSE NULL

Commit(c) ==
  /\ InTx(c) /\ Writes(c) /\ holder' = NULL
  /\ call' = [call EXCEPT ![c] =
       IF call[c].op = "delete" THEN [call[c] EXCEPT !.pc = "drop"] ELSE NULL]
  /\ UNCHANGED <<objects, unheard>>

\* The transaction commits, the answer of the database is lost.
CommitUnheard(c) ==
  /\ InTx(c) /\ Writes(c) /\ holder' = NULL
  /\ call' = [call EXCEPT ![c] = Failed(c)]
  /\ unheard' = unheard \cup (IF call[c].op = "add" THEN {call[c].image} ELSE {})
  /\ UNCHANGED objects

\* A statement or the COMMIT fails: nothing was written.
Rollback(c) ==
  /\ InTx(c) /\ holder' = NULL
  /\ call' = [call EXCEPT ![c] = Failed(c)]
  /\ UNCHANGED <<table, objects, unheard>>

\* The server dies with the call; the database drops its transaction.
Crash(c) ==
  /\ c \in InFlight
  /\ call' = [call EXCEPT ![c] = NULL]
  /\ holder' = IF holder = c THEN NULL ELSE holder
  /\ UNCHANGED <<table, objects, unheard>>

-------------------------------------------------------------------------------
JournalInit ==
  /\ status = "draft" /\ narrative = NULL /\ revisions = 0
  /\ reviews = <<>> /\ images = {} /\ told = {} /\ trail = <<>>
  /\ objects = {} /\ unheard = {}
  /\ holder = NULL /\ call = [c \in Calls |-> NULL]

JournalNext ==
  \/ \E t \in Texts : SaveDraft(t)
  \/ \E c \in Calls :
       \/ \E t \in LongTexts : SubmitLock(c, t)
       \/ \E d \in Decisions : ReviewLock(c, d)
       \/ \E i \in Images : AddCount(c, i) \/ DeleteLock(c, i)
       \/ AddPut(c) \/ AddLock(c) \/ AddCleanup(c) \/ DeleteDrop(c)
       \/ Commit(c) \/ CommitUnheard(c) \/ Rollback(c) \/ Crash(c)

JournalSpec == JournalInit /\ [][JournalNext]_journalVars

-------------------------------------------------------------------------------
(* Properties.                                                             *)

\* Every column and every local holds a value of its type, and the row is
\* held by the one call that is between its lock and its COMMIT.
JTypeOK ==
  /\ status \in Statuses /\ narrative \in Texts \cup {NULL} /\ revisions \in Nat
  /\ reviews \in Seq(Decisions) /\ trail \in Seq(Decisions \cup {"submitted"})
  /\ images \subseteq Images /\ objects \subseteq Images /\ unheard \subseteq Images
  /\ told \subseteq Nat
  /\ holder \in Calls \cup {NULL}
  /\ call \in [Calls -> Locals \cup {NULL}]
  /\ \A c \in Calls : holder = c <=> call[c] # NULL /\ call[c].pc = "commit"

\* However calls race and fail, the journal behaves as JournalLife promises:
\* what was handed in does not change while it is judged, it is judged once,
\* and nothing follows "reviewed" (service.go:249-251, evidence.go:22-23).
Promise == INSTANCE JournalLife
  WITH state <- status, text <- narrative, pictures <- images,
       verdicts <- reviews, NoText <- NULL
ImplementsLife == Promise!Life

\* The three records of a review agree: the audit trail alternates between a
\* submission and its decision and ends with the status, the history holds the
\* decisions of the trail, and revision_count is how many asked for changes.
TrailTellsTheStatus ==
  /\ \A k \in DOMAIN trail : trail[k] = "submitted" <=> k % 2 = 1
  /\ Len(trail) = 2 * Len(reviews) + (IF status = "submitted" THEN 1 ELSE 0)
  /\ \A k \in DOMAIN reviews : trail[2 * k] = reviews[k]
  /\ status = IF trail = <<>> THEN "draft" ELSE trail[Len(trail)]
  /\ revisions = Len(reviews) - (IF status = "reviewed" THEN 1 ELSE 0)

\* Every decision reaches the trainee: no two share an event key, which ON
\* CONFLICT DO NOTHING would swallow (service.go:334-340).
EveryDecisionIsTold == told = 1..Len(reviews)

\* A journal that staff judge has a narrative of the required length, even
\* when a draft is saved while it is being submitted.
JudgedTextIsLong ==
  status \in {"submitted", "reviewed"} => narrative \in LongTexts

\* No page shows a broken image: the object of every row is in the store,
\* unless the database committed the row and the server was told it had not.
ImageHasItsObject == images \subseteq objects \cup unheard

\* The cap is counted before the lock is taken: only uploads that counted at
\* the same time exceed it, so by less than the number of calls in flight.
CapOverrunIsBounded ==
  MaxImages > 0 =>
    Cardinality(images) + Cardinality({c \in Of("add") : call[c].pc # "cleanup"})
      <= MaxImages + Cardinality(Calls) - 1

\* "maxEvidencePerJournal caps supporting images per journal" (service.go:25).
ImageCap == Cardinality(images) <= MaxImages
================================================================================
