-------------------------------- MODULE Reminders -------------------------------
(***************************************************************************)
(* The scheduled reminders (internal/reminders/reminders.go) and the       *)
(* notifications they create (internal/notifications/notifications.go).    *)
(*                                                                         *)
(* A run selects and inserts, kind by kind, in one transaction; runs may   *)
(* overlap, since each is a process of its own.  An event is one event_key *)
(* of one recipient; which events are due changes with the tables and the  *)
(* hour, and each of the three queries answers what is due when it runs.   *)
(***************************************************************************)
EXTENDS Naturals

CONSTANTS
  Events,      \* event keys
  KindOf,      \* event -> 1 open_time_in, 2 missing_journal, 3 missing_attendance
  Jobs,        \* runs of the binary with --reminders
  NotRunning   \* a job not started, or ended

Kinds == 1 .. 3
Job == [kind : 0 .. 3, todo : SUBSET Events, inserted : SUBSET Events]

ASSUME RemindersAssumption == KindOf \in [Events -> Kinds] /\ NotRunning \notin Job

VARIABLES
  due,         \* events the queries would find now
  notices,     \* notifications: none, unread, read
  job,         \* locals of a run
  counted,     \* history: what each run reported to have inserted
  unreported   \* history: events committed without a report

remindersVars == <<due, notices, job, counted, unreported>>

Active == {j \in Jobs : job[j] # NotRunning}

\* Sessions, journals, assignments and the clock move on.
DueChanges(e) ==
  /\ due' = IF e \in due THEN due \ {e} ELSE due \cup {e}
  /\ UNCHANGED <<notices, job, counted, unreported>>

Begin(j) ==
  /\ job[j] = NotRunning /\ counted[j] = {}
  /\ job' = [job EXCEPT ![j] = [kind |-> 0, todo |-> {}, inserted |-> {}]]
  /\ UNCHANGED <<due, notices, counted, unreported>>

\* openTimeIn, missingJournals, missingAttendanceReminders: the query of each.
Select(j) ==
  /\ j \in Active
  /\ job[j].kind < 3 /\ job[j].todo = {}
  /\ LET kind == job[j].kind + 1 IN
       job' = [job EXCEPT ![j] = [kind |-> kind, todo |-> {e \in due : KindOf[e] = kind},
                                  inserted |-> job[j].inserted]]
  /\ UNCHANGED <<due, notices, counted, unreported>>

\* A slip: no unique index, nothing conflicts.
NeverTold(e) == FALSE

\* The unique index on recipient and event key.
Told(e) == notices[e] # "none"

\* Another run has inserted the key and not ended: this one waits.
Held(j, e) == \E i \in Active \ {j} : e \in job[i].inserted

\* CreateTx: INSERT ... ON CONFLICT DO NOTHING, in the order the rows came.
Insert(j, e) ==
  /\ j \in Active /\ e \in job[j].todo
  /\ ~Held(j, e)
  /\ LET new == IF Told(e) THEN {} ELSE {e} IN
       job' = [job EXCEPT ![j] = [kind |-> job[j].kind, todo |-> job[j].todo \ {e},
                                  inserted |-> job[j].inserted \cup new]]
  /\ UNCHANGED <<due, notices, counted, unreported>>

Commit(j) ==
  /\ j \in Active /\ job[j].kind = 3 /\ job[j].todo = {}
  /\ notices' = [e \in Events |-> IF e \in job[j].inserted THEN "unread" ELSE notices[e]]
  /\ \/ counted' = [counted EXCEPT ![j] = job[j].inserted] /\ UNCHANGED unreported
     \/ unreported' = unreported \cup job[j].inserted /\ UNCHANGED counted
  /\ job' = [job EXCEPT ![j] = NotRunning]
  /\ UNCHANGED due

\* An error, a deadlock of two runs that PostgreSQL breaks, a death: nothing.
Rollback(j) ==
  /\ j \in Active
  /\ job' = [job EXCEPT ![j] = NotRunning]
  /\ UNCHANGED <<due, notices, counted, unreported>>

MarkRead(e) ==
  /\ notices[e] = "unread"
  /\ notices' = [notices EXCEPT ![e] = "read"]
  /\ UNCHANGED <<due, job, counted, unreported>>

MarkAllRead ==
  /\ notices' = [e \in Events |-> IF notices[e] = "unread" THEN "read" ELSE notices[e]]
  /\ UNCHANGED <<due, job, counted, unreported>>

RemindersInit ==
  /\ due \in SUBSET Events
  /\ notices = [e \in Events |-> "none"]
  /\ job = [j \in Jobs |-> NotRunning]
  /\ counted = [j \in Jobs |-> {}]
  /\ unreported = {}

RemindersNext ==
  \/ \E j \in Jobs : Begin(j) \/ Select(j) \/ Commit(j) \/ Rollback(j)
                     \/ \E e \in Events : Insert(j, e)
  \/ \E e \in Events : DueChanges(e) \/ MarkRead(e)
  \/ MarkAllRead

RemindersSpec == RemindersInit /\ [][RemindersNext]_remindersVars

-------------------------------------------------------------------------------
\* Only events become due, and tables and locals have their types.
RemindersTypeOK ==
  /\ due \subseteq Events
  /\ notices \in [Events -> {"none", "unread", "read"}]
  /\ job \in [Jobs -> Job \cup {NotRunning}]
  /\ counted \in [Jobs -> SUBSET Events]
  /\ unreported \subseteq Events

\* However runs overlap, fail and repeat, every notification is reported by one
\* run and one only, and none that a run reports or commits is missing: what
\* was told is never told again (reminders.go:1-3 "repeated job runs never
\* duplicate a logical notification", Run "deduped rows are skipped").
EachEventIsToldOnce ==
  /\ \A i, j \in Jobs : i # j => counted[i] \cap counted[j] = {}
  /\ \A j \in Jobs : counted[j] \cap unreported = {}
  /\ {e \in Events : notices[e] # "none"} = (UNION {counted[j] : j \in Jobs}) \cup unreported
================================================================================
