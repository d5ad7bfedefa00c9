--------------------------- MODULE MCAdministration ---------------------------
(* Accounts, enrolment, the staff's records and the services for TLC.  They   *)
(* share no table whose changes matter to another of them: in a behaviour one *)
(* of Parts moves.                                                            *)
EXTENDS Accounts, Enrolment, Directory, RateLimiter, Migrations, EvidenceStore, Reminders, TLC

CONSTANTS
  Parts,          \* the components to explore
  e1, e2, n1, n2, h1, h2

VARIABLE part

recordsVars == <<accountsVars, enrolmentVars, directoryVars>>
servicesVars == <<limiterVars, migrationsVars, evidenceVars, remindersVars>>
allVars == <<part, recordsVars, servicesVars>>

\* The components that do not move start anywhere, here in one state.
MCInit ==
  /\ part \in Parts
  /\ AccountsInit /\ EnrolmentInit /\ DirectoryInit
  /\ LimiterInit /\ MigrationsInit /\ EvidenceInit /\ RemindersInit
  /\ part # "accounts" => account = CHOOSE a \in Account : a.status = "active" /\ a.outdated
  /\ part # "directory" =>
       \A k \in Assignments \cup Sites : rows[k] = Absent
  /\ part # "reminders" => due = {}

RecordsNext ==
  \/ part = "accounts" /\ AccountsNext /\ UNCHANGED <<enrolmentVars, directoryVars>>
  \/ part = "enrolment" /\ EnrolmentNext /\ UNCHANGED <<accountsVars, directoryVars>>
  \/ part = "directory" /\ DirectoryNext /\ UNCHANGED <<accountsVars, enrolmentVars>>

ServicesNext ==
  \/ part = "limiter" /\ LimiterNext /\ UNCHANGED <<migrationsVars, evidenceVars, remindersVars>>
  \/ part = "migrations" /\ MigrationsNext /\ UNCHANGED <<limiterVars, evidenceVars, remindersVars>>
  \/ part = "evidence" /\ EvidenceNext /\ UNCHANGED <<limiterVars, migrationsVars, remindersVars>>
  \/ part = "reminders" /\ RemindersNext /\ UNCHANGED <<limiterVars, migrationsVars, evidenceVars>>

MCNext ==
  /\ UNCHANGED part
  /\ \/ RecordsNext /\ UNCHANGED servicesVars
     \/ ServicesNext /\ UNCHANGED recordsVars

MCSpec == MCInit /\ [][MCNext]_allVars

CsvLine(e, n) == [email |-> e, number |-> n, readable |-> TRUE]

\* Two people; and a file with a repeated e-mail and a bad row.
MCFiles ==
  {<<CsvLine(e1, n1), CsvLine(e2, n2)>>,
   <<CsvLine(e1, n1), CsvLine(e1, n2), [CsvLine(e2, n2) EXCEPT !.readable = FALSE]>>}
MCApplicants == {[email |-> e1, number |-> n2]}

Proposal(status) ==
  [site |-> h1, start |-> 1, end |-> 2, rule |-> "fixed_after_threshold", status |-> status]
MCProposals == {Proposal("planned"), Proposal("active")}

\* The second migration and the third refer to the first.
MCNeeds == {<<2, 1>>, <<3, 1>>}
MCKindOf == [e \in {"open", "day", "day2"} |-> IF e = "open" THEN 1 ELSE 3]

\* Values that are told apart by equality only, shared among the components.
Symmetry == Permutations(Requests) \cup Permutations(Sessions) \cup Permutations(Emails)
              \cup Permutations(Passwords)

\* Tables, handler locals and history have their types, and row locks, inserted
\* keys and merged rows belong to calls in flight, in each of the seven modules.
AdministrationTypeOK ==
  /\ AccountsTypeOK /\ EnrolmentTypeOK /\ DirectoryTypeOK
  /\ LimiterTypeOK /\ MigrationsTypeOK /\ EvidenceTypeOK /\ RemindersTypeOK
================================================================================
