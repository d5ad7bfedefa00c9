-------------------------------- MODULE DayBook --------------------------------
(***************************************************************************)
(* What the attendance record promises its readers, without calls,         *)
(* retries, locks, transactions or crashes: a book with a page for each    *)
(* day of a trainee.  Every entry is made at once and from what the page   *)
(* says at that moment, never from what somebody read of it earlier.       *)
(* Corrections implements this.                                            *)
(***************************************************************************)
EXTENDS AttendanceRules

CONSTANTS Pages, Trainees, Rules, Petitions

VARIABLES
  now,        \* the time
  book,       \* page -> what it says, NULL while it is blank
  diary,      \* the pages that have a journal
  petitions,  \* what trainees have asked to be corrected, NULL when unused
  announced   \* the trainees told that they have completed their hours

bookVars == <<now, book, diary, petitions, announced>>

Blank(p) == book[p] = NULL
OrElse(x, y) == IF x # NULL THEN x ELSE y
Undecided(c) == petitions[c] # NULL /\ petitions[c].status = "pending"

\* A page is begun once a day, at an instant that has passed.
TimeIn(p, t) ==
  /\ Blank(p)
  /\ \E at \in 0 .. now :
       /\ \A q \in Pages : ~Blank(q) /\ book[q].trainee = t =>
            LocalDate(book[q].stampedIn) # LocalDate(at)
       /\ book' = [book EXCEPT ![p] =
            [trainee |-> t, stampedIn |-> at, stampedOut |-> NULL,
             in |-> at, out |-> NULL, credited |-> NULL, state |-> "open"]]
  /\ UNCHANGED <<now, diary, petitions, announced>>

\* The times of p become those, with the credit of the hours rule, and its
\* trainee may be told that this completes the hours.
Settle(p, tin, tout, stampedOut, state) ==
  /\ tout # NULL => tin < tout
  /\ \E credited \in IF tout = NULL THEN {NULL}
                     ELSE {CreditedMinutes(tin, tout, rule) : rule \in Rules} :
       book' = [book EXCEPT ![p] =
         [trainee |-> book[p].trainee, stampedIn |-> book[p].stampedIn,
          stampedOut |-> stampedOut, in |-> tin, out |-> tout,
          credited |-> credited, state |-> state]]
  /\ diary' = IF tout # NULL THEN diary \cup {p} ELSE diary
  /\ announced' \in {announced, announced \cup {book[p].trainee}}
  /\ UNCHANGED now

\* A page is closed once.
TimeOut(p) ==
  /\ ~Blank(p) /\ book[p].state = "open"
  /\ \E at \in 0 .. now : Settle(p, book[p].in, at, at, "closed")
  /\ UNCHANGED petitions

\* A page is under one petition at a time, for times that have passed.
Ask(c, p, tin, tout) ==
  /\ petitions[c] = NULL /\ ~Blank(p)
  /\ \A d \in Petitions : Undecided(d) => petitions[d].session # p
  /\ petitions' = [petitions EXCEPT ![c] =
       [session |-> p, pIn |-> tin, pOut |-> tout, status |-> "pending"]]
  /\ UNCHANGED <<now, book, diary, announced>>

Reject(c) ==
  /\ Undecided(c)
  /\ petitions' = [petitions EXCEPT ![c].status = "rejected"]
  /\ UNCHANGED <<now, book, diary, announced>>

\* What was asked replaces what the page says, the stamps excepted.
Approve(c) ==
  LET asked == petitions[c]
      page == book[asked.session]
  IN  /\ Undecided(c) /\ ~Blank(asked.session)
      /\ Settle(asked.session, OrElse(asked.pIn, page.in), OrElse(asked.pOut, page.out),
                page.stampedOut, "corrected")
      /\ petitions' = [petitions EXCEPT ![c].status = "approved"]

TimePasses ==
  /\ now < now'
  /\ UNCHANGED <<book, diary, petitions, announced>>

BookInit ==
  /\ now = 0
  /\ book = [p \in Pages |-> NULL]
  /\ diary = {}
  /\ petitions = [c \in Petitions |-> NULL]
  /\ announced = {}

BookNext ==
  \/ \E p \in Pages : TimeOut(p) \/ \E t \in Trainees : TimeIn(p, t)
  \/ \E c \in Petitions :
       \/ Reject(c) \/ Approve(c)
       \/ \E p \in Pages, tin, tout \in (0 .. now) \cup {NULL} : Ask(c, p, tin, tout)
  \/ TimePasses

Book == BookInit /\ [][BookNext]_bookVars
================================================================================
