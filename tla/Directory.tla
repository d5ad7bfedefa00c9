------------------------------- MODULE Directory -------------------------------
(***************************************************************************)
(* The records the staff keeps: the assignments of one trainee, the sites  *)
(* and the institution settings (internal/assignments, sites, settings).   *)
(*                                                                         *)
(* The three PATCH handlers have one shape: read the row, merge the fields *)
(* given, validate, write every column back, in two statements and no      *)
(* transaction.  Columns whose values no rule relates to another (names,   *)
(* coordinates, minutes, weekdays) are left out: they are written as the   *)
(* break rule is.                                                          *)
(***************************************************************************)
EXTENDS Naturals, FiniteSetsExt

CONSTANTS
  Calls,        \* staff calls; each is made once (bound)
  Assignments,  \* ids of ojt_assignments rows
  Sites,        \* ids of ojt_sites rows
  Days,         \* dates
  Proposals,    \* assignments a creation may ask for
  MaxFields,    \* bound: fields a PATCH gives
  Absent,       \* no row; no end date; a call not made yet
  Ended         \* a call that has returned

SettingsKey == "settings"
Keys == Assignments \cup Sites \cup {SettingsKey}

ValidStatuses == {"planned", "active", "completed", "suspended", "cancelled"}
Rules == {"none", "fixed_after_threshold",
          "without_threshold",  \* fixed_after_threshold and no minutes given
          "beyond_integer"}     \* and minutes that no integer column holds

\* Metres a call may give: an integer column holds those up to Widest (2^31 - 1),
\* a Go int holds more.
Amounts == 0 .. 3
Widest == 2

\* Values a column may be asked for, legal or not.
Values(k, column) ==
  IF k \in Assignments
  THEN CASE column = "site" -> Sites
         [] column = "start" -> Days
         [] column = "end" -> Days \cup {Absent}
         [] column = "rule" -> Rules
         [] column = "status" -> ValidStatuses
  ELSE IF k \in Sites
  THEN CASE column = "radius" -> Amounts
         [] column = "active" -> BOOLEAN
  ELSE CASE column = "accuracy" -> Amounts
         [] column = "cutoff" -> {0, 1}

Columns(k) ==
  IF k \in Assignments THEN {"site", "start", "end", "rule", "status"}
  ELSE IF k \in Sites THEN {"radius", "active"}
  ELSE {"accuracy", "cutoff"}

AssignmentRow == [site : Sites, start : Days, end : Days \cup {Absent}, rule : Rules,
                  status : ValidStatuses]
SiteRow == [radius : Amounts, active : BOOLEAN]
SettingsRow == [accuracy : Amounts, cutoff : {0, 1}]
Row == AssignmentRow \cup SiteRow \cup SettingsRow

Local == [key : Keys, row : Row, given : SUBSET {"site", "start", "end", "rule",
            "status", "radius", "active", "accuracy", "cutoff"}, op : {"create", "patch"}]

ASSUME DirectoryAssumption ==
  /\ Days \subseteq Nat /\ Absent \notin Days \cup Row \cup Local /\ Ended \notin Local
  /\ SettingsKey \notin Assignments \cup Sites /\ Assignments \cap Sites = {}
  /\ Proposals \subseteq AssignmentRow
  /\ MaxFields \in Nat

VARIABLES
  rows,      \* the tables: a row or Absent for each key
  call,      \* locals of a call: Absent, the row to write, Ended
  wanted,    \* history: the columns as the last requests asked, until clobbered
  clobbered  \* history: a column that changed since it was read was written back

directoryVars == <<rows, call, wanted, clobbered>>

Writing == {c \in Calls : call[c] \notin {Absent, Ended}}

-------------------------------------------------------------------------------
(* What is refused: by the handlers (422), by the tables.                  *)

DatesInOrder(row) == row.end # Absent => row.end >= row.start

\* A slip: an end date is compared with the start date of the request only.
AcceptsGivenDates(k, row, given) ==
  IF k \in Assignments
  THEN ({"start", "end"} \subseteq given => DatesInOrder(row)) /\ row.rule # "without_threshold"
  ELSE IF k \in Sites THEN row.radius > 0
  ELSE "accuracy" \in given => row.accuracy > 0

\* validate*: a site, and the dates of an assignment, as merged; the settings
\* and the break rule as given.
Accepts(k, row, given) ==
  IF k \in Assignments
  THEN DatesInOrder(row) /\ ("rule" \in given => row.rule # "without_threshold")
  ELSE IF k \in Sites THEN row.radius > 0
  ELSE "accuracy" \in given => row.accuracy > 0

\* CHECK constraints.
Checks(k, row) ==
  IF k \in Assignments THEN DatesInOrder(row) /\ row.rule # "without_threshold"
  ELSE IF k \in Sites THEN row.radius > 0
  ELSE row.accuracy > 0

\* The numbers are integers of four bytes.
NumbersFit(k, row) ==
  IF k \in Assignments THEN row.rule # "beyond_integer"
  ELSE IF k \in Sites THEN row.radius <= Widest
  ELSE row.accuracy <= Widest

\* site_id REFERENCES ojt_sites; a PATCH of it is only parsed.
SiteResolves(k, row) == k \in Assignments => rows[row.site] # Absent

\* A slip: the index on active assignments is missing.
ActiveUnchecked(k, row) == FALSE

\* ojt_assignments_one_active_per_trainee
ActiveTaken(k, row) ==
  /\ k \in Assignments /\ row.status = "active"
  /\ \E other \in Assignments \ {k} :
       rows[other] # Absent /\ rows[other].status = "active"

-------------------------------------------------------------------------------
\* The fields of a PATCH: pairs of a column and a value.
Fields(k) == UNION {{<<f, v>> : v \in Values(k, f)} : f \in Columns(k)}
Given(patch) == {p[1] : p \in patch}
Patches(k) == {patch \in UNION {kSubset(n, Fields(k)) : n \in 0 .. MaxFields} :
                 Cardinality(Given(patch)) = Cardinality(patch)}
Merged(k, patch) == [f \in Columns(k) |->
  IF f \in Given(patch) THEN (CHOOSE p \in patch : p[1] = f)[2] ELSE rows[k][f]]

\* Get, merge, validate.  A refused call changes nothing and has no action.
MergePatch(c, k) ==
  /\ call[c] = Absent
  /\ rows[k] # Absent
  /\ \E patch \in Patches(k) :
       /\ Accepts(k, Merged(k, patch), Given(patch))
       /\ call' = [call EXCEPT ![c] = [key |-> k, row |-> Merged(k, patch), given |-> Given(patch),
                                       op |-> "patch"]]
  /\ UNCHANGED <<rows, wanted, clobbered>>

\* A new assignment is for a site that is active when it is looked up.
CreateRead(c, k) ==
  /\ call[c] = Absent
  /\ rows[k] = Absent /\ \A d \in Writing : call[d].key # k
  /\ \E row \in Proposals :
       /\ Accepts(k, row, Columns(k))
       /\ rows[row.site] # Absent /\ rows[row.site].active
       /\ call' = [call EXCEPT ![c] = [key |-> k, row |-> row, given |-> Columns(k),
                                       op |-> "create"]]
  /\ UNCHANGED <<rows, wanted, clobbered>>

\* A slip: the columns that were not given keep their defaults.
WrittenDefaults(c) ==
  IF call[c].key \in Assignments /\ "rule" \notin call[c].given
  THEN [call[c].row EXCEPT !.rule = "none"] ELSE call[c].row

\* INSERT and UPDATE set every column.
Written(c) == call[c].row

\* INSERT or UPDATE, and what it does to what others asked for.
Store(c) ==
  /\ c \in Writing
  /\ LET k == call[c].key
         row == Written(c)
         kept == Columns(k) \ call[c].given IN
       /\ Checks(k, row) /\ NumbersFit(k, row) /\ SiteResolves(k, row)
       /\ ~ActiveTaken(k, row)
       /\ rows' = [rows EXCEPT ![k] = row]
       /\ clobbered' = (clobbered
            \/ (call[c].op = "patch" /\ \E f \in kept : call[c].row[f] # rows[k][f]))
       /\ wanted' = IF clobbered' THEN rows'
                    ELSE [wanted EXCEPT ![k] = [f \in Columns(k) |->
                            IF f \in call[c].given THEN call[c].row[f] ELSE wanted[k][f]]]
  /\ call' = [call EXCEPT ![c] = Ended]

\* 409 for a second active assignment, 500 for a CHECK, a missing site, a number
\* too wide or a failure, or the server dies: nothing is written.
Refuse(c) ==
  /\ c \in Writing
  /\ call' = [call EXCEPT ![c] = Ended]
  /\ UNCHANGED <<rows, wanted, clobbered>>

\* A site is created in one statement.
CreateSite(c, k) ==
  /\ call[c] = Absent
  /\ rows[k] = Absent
  /\ \E row \in SiteRow :
       /\ Accepts(k, row, Columns(k)) /\ NumbersFit(k, row)
       /\ rows' = [rows EXCEPT ![k] = row]
       /\ wanted' = [wanted EXCEPT ![k] = row]
  /\ call' = [call EXCEPT ![c] = Ended]
  /\ UNCHANGED clobbered

DirectoryInit ==
  /\ rows \in {r \in [Keys -> {Absent, [radius |-> 1, active |-> TRUE],
                               [accuracy |-> 1, cutoff |-> 1]} \cup Proposals] :
       /\ \A k \in Assignments : r[k] \in Proposals \cup {Absent}
       /\ \A k \in Sites : r[k] \in {Absent, [radius |-> 1, active |-> TRUE]}
       /\ r[SettingsKey] = [accuracy |-> 1, cutoff |-> 1]
       /\ \A k \in Assignments : r[k] # Absent =>
            Checks(k, r[k]) /\ NumbersFit(k, r[k]) /\ r[r[k].site] # Absent
       /\ \A k, l \in Assignments : r[k] # Absent /\ r[l] # Absent
            /\ r[k].status = "active" /\ r[l].status = "active" => k = l}
  /\ call = [c \in Calls |-> Absent]
  /\ wanted = rows
  /\ clobbered = FALSE

DirectoryNext ==
  \E c \in Calls :
    \/ Store(c) \/ Refuse(c)
    \/ \E k \in Keys : MergePatch(c, k)
    \/ \E k \in Assignments : CreateRead(c, k)
    \/ \E k \in Sites : CreateSite(c, k)

DirectorySpec == DirectoryInit /\ [][DirectoryNext]_directoryVars

-------------------------------------------------------------------------------
(* What the records promise.                                               *)

\* Rows and locals have their types.
DirectoryTypeOK ==
  /\ rows \in [Keys -> Row \cup {Absent}]
  /\ call \in [Calls -> Local \cup {Absent, Ended}]
  /\ wanted \in [Keys -> Row \cup {Absent}]
  /\ clobbered \in BOOLEAN

\* Every row is what the last requests asked for, column by column, as long as
\* no PATCH writes back a column that has changed since it read it: requests
\* that do not overlap lose nothing, and those that do lose only to each other
\* (Update of assignments.go, sites.go, settings.go).
PatchesAreLostOnlyByOverlap == ~clobbered => rows = wanted

\* The column of a table that may hold a number too wide.
Numeric(k) ==
  IF k \in Assignments THEN "rule" ELSE IF k \in Sites THEN "radius" ELSE "accuracy"

\* What the handlers accept passes the CHECK constraints, although a PATCH is
\* validated in part before it is merged and the row may change before it is
\* written.  Validation does let through a site that does not exist and a number
\* that no integer column holds (assignments.go:363, sites.go:49, settings.go:89), and the write
\* ends in a 500; but only for a call that gave that column itself: no call fails
\* by what it found stored.
TablesRefuseOnlyWhatIsGiven ==
  \A c \in Writing :
    LET k == call[c].key IN
      /\ Checks(k, Written(c))
      /\ ~NumbersFit(k, Written(c)) => Numeric(k) \in call[c].given
      /\ ~SiteResolves(k, Written(c)) => "site" \in call[c].given

\* However updates, their stale statuses and creations overlap, the trainee has
\* at most one active assignment, so that Time In has one set of rules.
OneActiveAssignment ==
  \A a, b \in Assignments :
    rows[a] # Absent /\ rows[b] # Absent
      /\ rows[a].status = "active" /\ rows[b].status = "active" => a = b
================================================================================
