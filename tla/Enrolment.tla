------------------------------- MODULE Enrolment -------------------------------
(***************************************************************************)
(* How trainees come to be and who may see them: manual creation, the CSV  *)
(* import in two steps, and the scope lists of the coordinators            *)
(* (internal/trainees/trainees.go, import.go; internal/users/users.go).    *)
(*                                                                         *)
(* A call that writes runs one transaction, statement by statement: what   *)
(* it inserted is its own (task) until COMMIT, and an INSERT of a key that *)
(* another transaction has inserted waits for it.  A key that is taken, a  *)
(* deadlock, any failure ends in Rollback.  The snapshots of validated     *)
(* uploads are in memory.  A person is an e-mail and a student number;     *)
(* other columns, and passwords, are left out (Accounts has them).         *)
(***************************************************************************)
EXTENDS Naturals, FiniteSets, Sequences, Functions

CONSTANTS
  Workers,       \* HTTP calls in flight
  Coordinators,
  Admin,         \* the other role that may create trainees
  Addresses,     \* e-mail addresses
  Numbers,       \* student numbers
  Files,         \* uploads: sequences of CSV rows
  Applicants,    \* the people that are entered by hand
  Tokens,        \* import tokens (bound: uploads)
  Enrolled,      \* the people there are at first
  StoreLimit,    \* staged batches above which put evicts (1000)
  Missing        \* no value: an empty or malformed cell, an idle worker

Staff == Coordinators \cup {Admin}
Manual == "manual"     \* not by an import
Person == [email : Addresses, number : Numbers]
CsvRow == [email : Addresses \cup {Missing}, number : Numbers \cup {Missing},
           readable : BOOLEAN]
Batch == [rows : Seq(Person), creator : Staff, expired : BOOLEAN]

ASSUME EnrolmentAssumption ==
  /\ Admin \notin Coordinators
  /\ Missing \notin Addresses \cup Numbers \cup Batch
  /\ Manual \notin Tokens
  /\ Files \subseteq Seq(CsvRow)
  /\ Enrolled \subseteq Person /\ Applicants \subseteq Person
  /\ \A p, q \in Enrolled : p.email = q.email \/ p.number = q.number => p = q
  /\ StoreLimit \in Nat

VARIABLES
  users,     \* e-mails of the users table
  profiles,  \* trainee_profiles, each with its user, creator and origin
  scopes,    \* coordinator_scopes: pairs of coordinator and student number
  staged,    \* ImportStore.batches
  task,      \* locals and uncommitted writes of a call, Missing when idle
  answer,    \* history: what the client was told of an import
  snapshot,  \* history: the rows a token stands for
  latest,    \* history: the list of the last scope update to commit
  dropped    \* history: scope rows deleted by a scope update

enrolmentVars ==
  <<users, profiles, scopes, staged, task, answer, snapshot, latest, dropped>>

Profile == [email : Addresses, number : Numbers, creator : Staff,
            origin : Tokens \cup {Manual}]
Busy == {w \in Workers : task[w] # Missing}
Doing(op) == {w \in Busy : task[w].op = op}
Others(op, w) == Doing(op) \ {w}

\* Uncommitted keys of the other transactions.
PendingEmails(w) == UNION {task[v].users : v \in Others("enrol", w)}
PendingNumbers(w) == {p.number : p \in UNION {task[v].profiles : v \in Others("enrol", w)}}
Taken == {p.number : p \in profiles}

-------------------------------------------------------------------------------
(* ParseAndValidate, Stage: the valid rows of an upload are put aside.     *)

\* The first row of an upload with a value keeps it, even if invalid itself.
Repeats(file, i, column) ==
  \E j \in 1 .. i - 1 : file[j].readable /\ file[j][column] = file[i][column]

\* A row counts as new if its values are not in the tables, or if the lookup
\* (checked = FALSE) failed, an error the code ignores.
ValidRow(file, i, checked) ==
  /\ file[i].readable
  /\ file[i].email # Missing /\ ~Repeats(file, i, "email")
  /\ file[i].number # Missing /\ ~Repeats(file, i, "number")
  /\ checked => file[i].email \notin users /\ file[i].number \notin Taken

ParseAndValidate(file, checked) ==
  LET valid == {i \in DOMAIN file : ValidRow(file, i, checked)}
      nth(k) == CHOOSE i \in valid : Cardinality({j \in valid : j <= i}) = k
  IN [k \in 1 .. Cardinality(valid) |->
        [email |-> file[nth(k)].email, number |-> file[nth(k)].number]]

\* Above the limit, put forgets the batches whose time is over.
Evicted ==
  IF Cardinality({t \in Tokens : staged[t] # Missing}) <= StoreLimit THEN staged
  ELSE [t \in Tokens |-> IF staged[t] # Missing /\ staged[t].expired THEN Missing
                                                                    ELSE staged[t]]

ImportValidate(token) ==
  /\ snapshot[token] = Missing
  /\ \E file \in Files, creator \in Staff, checked \in BOOLEAN :
       LET rows == ParseAndValidate(file, checked) IN
         /\ staged' = [Evicted EXCEPT ![token] =
                        [rows |-> rows, creator |-> creator, expired |-> FALSE]]
         /\ snapshot' = [snapshot EXCEPT ![token] = rows]
  /\ UNCHANGED <<users, profiles, scopes, task, answer, latest, dropped>>

\* importTokenTTL passes.
ImportExpires(token) ==
  /\ staged[token] # Missing
  /\ staged' = [staged EXCEPT ![token].expired = TRUE]
  /\ UNCHANGED <<users, profiles, scopes, task, answer, snapshot, latest, dropped>>

-------------------------------------------------------------------------------
(* Commit and Create: users, profiles and scopes of the rows, one by one.  *)

\* The transaction of w is to enrol these people; the one at hand is the first.
Enrol(w, rows, creator, origin) ==
  task' = [task EXCEPT ![w] = [op |-> "enrol", rows |-> rows, creator |-> creator,
            origin |-> origin, users |-> {}, profiles |-> {}, scopes |-> {}]]

\* A slip: the batch stays in the store until it is committed.
TakeKeeping(token) == staged

\* take: the batch leaves the store, whatever becomes of it.
Take(token) == [staged EXCEPT ![token] = Missing]

ImportCommit(w, token) ==
  /\ task[w] = Missing
  /\ staged[token] # Missing
  /\ staged' = Take(token)
  /\ IF staged[token].expired \/ staged[token].rows = <<>>
     THEN UNCHANGED task
     ELSE Enrol(w, staged[token].rows, staged[token].creator, token)
  /\ UNCHANGED <<users, profiles, scopes, answer, snapshot, latest, dropped>>

Create(w) ==
  /\ task[w] = Missing
  /\ \E person \in Applicants, creator \in Staff : Enrol(w, <<person>>, creator, Manual)
  /\ UNCHANGED <<users, profiles, scopes, staged, answer, snapshot, latest, dropped>>

Enrolling(w) == w \in Doing("enrol") /\ task[w].rows # <<>>

InsertUser(w) ==
  /\ Enrolling(w)
  /\ LET email == Head(task[w].rows).email IN
       /\ email \notin users \cup PendingEmails(w) \cup task[w].users
       /\ task' = [task EXCEPT ![w].users = @ \cup {email}]
  /\ UNCHANGED <<users, profiles, scopes, staged, answer, snapshot, latest, dropped>>

\* A slip: only manual creations are scoped to their creator.
ScopeRowsManual(t, number) ==
  IF t.creator \in Coordinators /\ t.origin = Manual THEN {<<t.creator, number>>} ELSE {}

ScopeRows(t, number) ==
  IF t.creator \in Coordinators THEN {<<t.creator, number>>} ELSE {}

\* The profile of the user just inserted, and its scope row.
InsertProfile(w) ==
  /\ Enrolling(w)
  /\ LET t == task[w]
         row == Head(t.rows) IN
       /\ row.email \in t.users
       /\ row.number \notin Taken \cup PendingNumbers(w) \cup {p.number : p \in t.profiles}
       /\ task' = [task EXCEPT ![w] = [t EXCEPT
            !.rows = Tail(t.rows),
            !.profiles = @ \cup {[email |-> row.email, number |-> row.number,
                                  creator |-> t.creator, origin |-> t.origin]},
            !.scopes = @ \cup ScopeRows(t, row.number)]]
  /\ UNCHANGED <<users, profiles, scopes, staged, answer, snapshot, latest, dropped>>

\* What the client is told of an import; a manual creation has no such record.
Tell(w, told) ==
  answer' = IF task[w].origin = Manual THEN answer
            ELSE [answer EXCEPT ![task[w].origin] = told]

\* A slip: a row that cannot be inserted ends the loop, not the transaction.
CompleteSoFar(w) == w \in Doing("enrol")

\* Every row has been inserted.
Complete(w) == w \in Doing("enrol") /\ task[w].rows = <<>>

EnrolCommit(w) ==
  /\ Complete(w)
  /\ users' = users \cup task[w].users
  /\ profiles' = profiles \cup task[w].profiles
  /\ scopes' = scopes \cup task[w].scopes
  /\ \/ Tell(w, "created")
     \/ Tell(w, "unknown")  \* COMMIT took place and its answer was lost
  /\ task' = [task EXCEPT ![w] = Missing]
  /\ UNCHANGED <<staged, snapshot, latest, dropped>>

\* A taken key, a deadlock or another failure: nothing of the transaction stays.
EnrolRollback(w) ==
  /\ w \in Doing("enrol")
  /\ Tell(w, "failed")
  /\ task' = [task EXCEPT ![w] = Missing]
  /\ UNCHANGED <<users, profiles, scopes, staged, snapshot, latest, dropped>>

CreateCoordinator(email) ==
  /\ email \notin users \cup UNION {task[v].users : v \in Doing("enrol")}
  /\ users' = users \cup {email}
  /\ UNCHANGED <<profiles, scopes, staged, task, answer, snapshot, latest, dropped>>

-------------------------------------------------------------------------------
(* SetTraineeScope: DELETE the coordinator's rows, INSERT the list.        *)

ScopeOf(c) == {n \in Numbers : <<c, n>> \in scopes}

\* DELETE sees the rows committed when it begins.
ScopeBegin(w) ==
  /\ task[w] = Missing
  /\ \E c \in Coordinators, list \in SUBSET Taken :
       task' = [task EXCEPT ![w] = [op |-> "scope", coordinator |-> c, list |-> list,
                  marked |-> ScopeOf(c), new |-> {}, pc |-> "delete"]]
  /\ UNCHANGED <<users, profiles, scopes, staged, answer, snapshot, latest, dropped>>

\* Scope updates of the same coordinator in a later statement than w's DELETE.
Rivals(w) == {v \in Others("scope", w) :
  task[v].coordinator = task[w].coordinator /\ task[v].pc # "delete"}

\* It waits for other transactions that have deleted one of them, and skips
\* those that are gone by then.
ScopeDelete(w) ==
  /\ w \in Doing("scope") /\ task[w].pc = "delete"
  /\ \A v \in Rivals(w) : task[v].marked \cap task[w].marked = {}
  /\ task' = [task EXCEPT ![w].marked = @ \cap ScopeOf(task[w].coordinator),
                          ![w].pc = "insert"]
  /\ UNCHANGED <<users, profiles, scopes, staged, answer, snapshot, latest, dropped>>

\* INSERT ... ON CONFLICT DO NOTHING: a row another transaction has inserted or
\* deleted is waited for, one that is there is not inserted.
ScopeInsert(w) ==
  /\ w \in Doing("scope") /\ task[w].pc = "insert"
  /\ LET t == task[w] IN
       /\ \A v \in Rivals(w) : (task[v].new \cup task[v].marked) \cap t.list = {}
       /\ task' = [task EXCEPT ![w].new = t.list \ (ScopeOf(t.coordinator) \ t.marked),
                               ![w].pc = "commit"]
  /\ UNCHANGED <<users, profiles, scopes, staged, answer, snapshot, latest, dropped>>

ScopeCommit(w) ==
  /\ w \in Doing("scope") /\ task[w].pc = "commit"
  /\ LET c == task[w].coordinator
         old == {<<c, n>> : n \in task[w].marked} IN
       /\ scopes' = (scopes \ old) \cup {<<c, n>> : n \in task[w].new}
       /\ dropped' = dropped \cup old
       /\ latest' = [latest EXCEPT ![c] = task[w].list]
  /\ task' = [task EXCEPT ![w] = Missing]
  /\ UNCHANGED <<users, profiles, staged, answer, snapshot>>

ScopeRollback(w) ==
  /\ w \in Doing("scope")
  /\ task' = [task EXCEPT ![w] = Missing]
  /\ UNCHANGED <<users, profiles, scopes, staged, answer, snapshot, latest, dropped>>

-------------------------------------------------------------------------------
\* The server restarts: transactions are rolled back, staged batches are gone.
Restart ==
  /\ task' = [w \in Workers |-> Missing]
  /\ staged' = [t \in Tokens |-> Missing]
  /\ UNCHANGED <<users, profiles, scopes, answer, snapshot, latest, dropped>>

EnrolmentInit ==
  /\ users = {p.email : p \in Enrolled}
  /\ profiles = {[email |-> p.email, number |-> p.number, creator |-> Admin,
                  origin |-> Manual] : p \in Enrolled}
  /\ scopes \in SUBSET (Coordinators \X {p.number : p \in Enrolled})
  /\ staged = [t \in Tokens |-> Missing]
  /\ task = [w \in Workers |-> Missing]
  /\ answer = [t \in Tokens |-> "none"]
  /\ snapshot = [t \in Tokens |-> Missing]
  /\ latest = [c \in Coordinators |-> Missing]
  /\ dropped = {}

EnrolStep(w) ==
  \/ Create(w) \/ InsertUser(w) \/ InsertProfile(w) \/ EnrolCommit(w) \/ EnrolRollback(w)
  \/ \E token \in Tokens : ImportCommit(w, token)

ScopeStep(w) ==
  \/ ScopeBegin(w) \/ ScopeDelete(w) \/ ScopeInsert(w) \/ ScopeCommit(w) \/ ScopeRollback(w)

EnrolmentNext ==
  \/ \E w \in Workers : EnrolStep(w) \/ ScopeStep(w)
  \/ \E token \in Tokens : ImportValidate(token) \/ ImportExpires(token)
  \/ \E person \in Applicants : CreateCoordinator(person.email)
  \/ Restart

EnrolmentSpec == EnrolmentInit /\ [][EnrolmentNext]_enrolmentVars

-------------------------------------------------------------------------------
(* What enrolment promises.                                                *)

Task ==
  [op : {"enrol"}, rows : Seq(Person), creator : Staff, origin : Tokens \cup {Manual},
   users : SUBSET Addresses, profiles : SUBSET Profile,
   scopes : SUBSET (Coordinators \X Numbers)]
  \cup [op : {"scope"}, coordinator : Coordinators, list : SUBSET Numbers,
        marked : SUBSET Numbers, new : SUBSET Numbers, pc : {"delete", "insert", "commit"}]

\* No value is not one of the values.
ASSUME MissingAssumption == Missing \notin Seq(Person) \cup Task

\* Tables, staged batches and transactions have their types, and no two open
\* transactions have inserted the same key.
EnrolmentTypeOK ==
  /\ users \subseteq Addresses
  /\ profiles \subseteq Profile
  /\ scopes \subseteq Coordinators \X Taken
  /\ staged \in [Tokens -> Batch \cup {Missing}]
  /\ task \in [Workers -> Task \cup {Missing}]
  /\ \A v, w \in Doing("enrol") : v # w => task[v].users \cap task[w].users = {}
  /\ snapshot \in [Tokens -> Seq(Person) \cup {Missing}]
  /\ answer \in [Tokens -> {"none", "created", "failed", "unknown"}]

Imported(token) == {p \in profiles : p.origin = token}
PeopleOf(rows) == {rows[i] : i \in DOMAIN rows}

\* An import creates all the people of its snapshot, as they were validated, or
\* none of them, whatever other imports, creations and restarts do meanwhile
\* (import.go: "Any failure rolls the whole batch back").
BatchIsAllOrNothing ==
  \A token \in Tokens : Imported(token) # {} =>
    {[email |-> p.email, number |-> p.number] : p \in Imported(token)}
      = PeopleOf(snapshot[token])

\* "No rows were committed" and "created" are true, now and later, except when
\* the COMMIT was not heard of: no second commit of a token can follow.
ImportAnswersAreTrue ==
  \A token \in Tokens :
    /\ answer[token] = "failed" => Imported(token) = {}
    /\ answer[token] = "created" => Imported(token) # {}

\* Every trainee has an account and a student number of their own, and is seen
\* by the coordinator who enrolled them until a scope update drops them.
EnrolledIsWhole ==
  /\ \A p \in profiles :
       /\ p.email \in users
       /\ p.creator \in Coordinators =>
            <<p.creator, p.number>> \in scopes \cup dropped
  /\ \A p, q \in profiles : p.email = q.email \/ p.number = q.number => p = q

CreatedBy(c) == {p.number : p \in {q \in profiles : q.creator = c}}

\* A scope update replaces the list of its coordinator: what they see is the
\* list set last, and trainees of their own (users.go, SetTraineeScope).
ScopeIsTheLatestList ==
  \A c \in Coordinators :
    latest[c] # Missing => ScopeOf(c) \subseteq latest[c] \cup CreatedBy(c)
================================================================================
