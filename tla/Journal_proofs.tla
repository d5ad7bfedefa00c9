----------------------------- MODULE Journal_proofs -----------------------------
(***************************************************************************)
(* Theorems about Journal, for any calls, narratives, images, cap and      *)
(* bound on the reviews.                                                   *)
(***************************************************************************)
EXTENDS Journal, FiniteSetTheorems, TLAPS

\* A call that holds the row found it in the status its writes need, and the
\* row stays in it.
Guarded ==
  \A c \in Calls : holder = c =>
    IF call[c].op = "review" THEN Reviewable ELSE Editable

\* An upload whose row is not yet inserted.
Uploading(c) == c \in Of("add") /\ call[c].pc \in {"put", "lock", "commit"}

\* Where the row and the object of an image in flight are, and that an upload
\* shares its image with no other call.
Tracked ==
  /\ \A c \in Calls :
       /\ Uploading(c) => call[c].image \notin images
       /\ Uploading(c) /\ call[c].pc # "put" => call[c].image \in objects
       /\ c \in Of("add") /\ ~Uploading(c) => call[c].image \notin images \ unheard
       /\ c \in Of("delete") /\ call[c].pc = "drop" => call[c].image \notin images
  /\ \A c, d \in Calls :
       Uploading(c) /\ c # d /\ d \in Of("add") \cup Of("delete")
         => call[c].image # call[d].image

\* The three properties of the journal row and its history.
Records == TrailTellsTheStatus /\ EveryDecisionIsTold /\ JudgedTextIsLong

JInv == JTypeOK /\ Guarded /\ Tracked /\ Records /\ ImageHasItsObject

-------------------------------------------------------------------------------
\* The locals of a call in flight, by operation.
LEMMA LocalsShape ==
  ASSUME JTypeOK, NEW c \in InFlight
  PROVE  /\ c \in Calls /\ call[c] \in Locals
         /\ call[c].op \in {"submit", "review", "add", "delete"}
         /\ call[c].op = "submit" =>
              call[c].text \in LongTexts /\ call[c].pc = "commit"
         /\ call[c].op = "review" =>
              call[c].decision \in Decisions /\ call[c].pc = "commit"
         /\ call[c].op = "add" =>
              /\ call[c].image \in Images
              /\ call[c].pc \in {"put", "lock", "commit", "cleanup"}
              /\ \A p \in {"put", "lock", "commit", "cleanup"} :
                   [call[c] EXCEPT !.pc = p] \in Locals
         /\ call[c].op = "delete" =>
              /\ call[c].image \in Images /\ call[c].pc \in {"commit", "drop"}
              /\ \A p \in {"commit", "drop"} : [call[c] EXCEPT !.pc = p] \in Locals
  BY DEF JTypeOK, InFlight, Locals

\* The automatic draft satisfies JInv.
LEMMA InitInv == JournalInit => JInv
  BY JournalAssumption
  DEF JournalInit, JInv, JTypeOK, Guarded, Tracked, Uploading, Of, InFlight, Records,
      TrailTellsTheStatus, EveryDecisionIsTold, JudgedTextIsLong, ImageHasItsObject,
      Statuses

-------------------------------------------------------------------------------
(* Types.                                                                  *)

\* What a transaction writes has the types of its columns.
LEMMA WritesTyped ==
  ASSUME JTypeOK, NEW c \in Calls, InTx(c), Writes(c)
  PROVE  /\ status' \in Statuses /\ narrative' \in Texts \cup {NULL} /\ revisions' \in Nat
         /\ reviews' \in Seq(Decisions) /\ trail' \in Seq(Decisions \cup {"submitted"})
         /\ images' \subseteq Images /\ told' \subseteq Nat
<1>1. CASE call[c].op = "submit"
  <2>1. narrative' \in Texts /\ UNCHANGED <<revisions, reviews, images, told>>
    BY <1>1, LocalsShape, JournalAssumption DEF InTx, Writes, SubmitWrites
  <2>2. status' = "submitted" /\ trail' = Append(trail, "submitted")
    BY <1>1 DEF Writes, SubmitWrites
  <2>3. trail' \in Seq(Decisions \cup {"submitted"})  BY <2>2 DEF JTypeOK
  <2>4. QED  BY <2>1, <2>2, <2>3 DEF JTypeOK, Statuses
<1>2. CASE call[c].op = "review"
  <2> DEFINE d == call[c].decision
  <2>1. d \in Decisions  BY <1>2, LocalsShape DEF InTx
  <2>2. /\ reviews' = Append(reviews, d) /\ status' = d /\ trail' = Append(trail, d)
        /\ revisions' = revisions + (IF d = "needs_revision" THEN 1 ELSE 0)
        /\ told' = told \cup {Len(reviews) + 1} /\ UNCHANGED <<narrative, images>>
    BY <1>2 DEF Writes, ReviewWrites, Event
  <2> HIDE DEF d
  <2>3. reviews' \in Seq(Decisions) /\ trail' \in Seq(Decisions \cup {"submitted"})
    BY <2>1, <2>2 DEF JTypeOK
  <2>4. status' \in Statuses  BY <2>1, <2>2 DEF Statuses, Decisions
  <2>5. revisions' \in Nat /\ told' \subseteq Nat
    <3>1. Len(reviews) \in Nat /\ revisions \in Nat /\ told \subseteq Nat  BY DEF JTypeOK
    <3>2. revisions' \in Nat
      <4>1. CASE d = "needs_revision"  BY <2>2, <3>1, <4>1
      <4>2. CASE d # "needs_revision"  BY <2>2, <3>1, <4>2
      <4>3. QED  BY <4>1, <4>2
    <3>3. Len(reviews) + 1 \in Nat  BY <3>1
    <3>4. told' \subseteq Nat  BY <2>2, <3>1, <3>3, Zenon
    <3>5. QED  BY <3>2, <3>4
  <2>6. QED  BY <2>2, <2>3, <2>4, <2>5 DEF JTypeOK
<1> USE DEF JTypeOK
<1>3. CASE call[c].op = "add"
  BY <1>3, LocalsShape DEF InTx, Writes, AddWrites
<1>4. CASE call[c].op = "delete"
  BY <1>4, LocalsShape DEF InTx, Writes, DeleteWrites
<1>5. QED  BY <1>1, <1>2, <1>3, <1>4, LocalsShape DEF InTx

\* A call that takes the row, with locals at its COMMIT.
LEMMA LockTyped ==
  ASSUME JTypeOK, NEW c \in Calls, NEW l \in Locals, l.pc = "commit", Lock(c, l)
  PROVE  JTypeOK'
  BY JournalAssumption, LocalsAssumption DEF Lock, RowFree, table, JTypeOK

\* A call in flight outside its transaction ends, or goes on outside it.
LEMMA OutsideTyped ==
  ASSUME JTypeOK, NEW c \in InFlight, call[c].pc # "commit", NEW l \in Locals \cup {NULL},
         l # NULL => l.pc # "commit",
         call' = [call EXCEPT ![c] = l], objects' \subseteq Images,
         UNCHANGED <<table, holder, unheard>>
  PROVE  JTypeOK'
  BY DEF JTypeOK, table, InFlight

\* What a transaction leaves to do when it is over.
LEMMA FailedTyped ==
  ASSUME JTypeOK, NEW c \in InFlight
  PROVE  /\ Failed(c) \in Locals \cup {NULL}
         /\ Failed(c) # NULL => Failed(c).pc # "commit"
  BY LocalsShape DEF Failed, Locals

\* A transaction that ends releases the row and its call leaves the COMMIT.
LEMMA EndTyped ==
  ASSUME JTypeOK, NEW c \in Calls, InTx(c), NEW l \in Locals \cup {NULL},
         l # NULL => l.pc # "commit",
         call' = [call EXCEPT ![c] = l], holder' = NULL
  PROVE  /\ holder' \in Calls \cup {NULL} /\ call' \in [Calls -> Locals \cup {NULL}]
         /\ \A d \in Calls : holder' = d <=> call'[d] # NULL /\ call'[d].pc = "commit"
  BY JournalAssumption DEF JTypeOK, InTx, InFlight

\* Every step keeps the types and the link between the row and its holder.
LEMMA TypeKeeps == ASSUME JInv, [JournalNext]_journalVars PROVE JTypeOK'
<1> USE DEF JInv
<1>1. ASSUME NEW t \in Texts, SaveDraft(t) PROVE JTypeOK'
  BY <1>1 DEF SaveDraft, JTypeOK
<1>2. ASSUME NEW c \in Calls, NEW t \in LongTexts, SubmitLock(c, t) PROVE JTypeOK'
  <2>1. [op |-> "submit", text |-> t, pc |-> "commit"] \in Locals  BY DEF Locals
  <2>2. QED  BY <1>2, <2>1, LockTyped DEF SubmitLock
<1>3. ASSUME NEW c \in Calls, NEW d \in Decisions, ReviewLock(c, d) PROVE JTypeOK'
  <2>1. [op |-> "review", decision |-> d, pc |-> "commit"] \in Locals  BY DEF Locals
  <2>2. QED  BY <1>3, <2>1, LockTyped DEF ReviewLock
<1>4. ASSUME NEW c \in Calls, NEW i \in Images, AddCount(c, i) PROVE JTypeOK'
  <2>1. [op |-> "add", image |-> i, pc |-> "put"] \in Locals  BY DEF Locals
  <2>2. QED  BY <1>4, <2>1 DEF AddCount, JTypeOK, table
<1>5. ASSUME NEW c \in Calls, NEW i \in Images, DeleteLock(c, i) PROVE JTypeOK'
  <2>1. [op |-> "delete", image |-> i, pc |-> "commit"] \in Locals  BY DEF Locals
  <2>2. QED  BY <1>5, <2>1, LockTyped DEF DeleteLock
<1>6. ASSUME NEW c \in Calls, AddPut(c) PROVE JTypeOK'
  <2>1. c \in InFlight /\ call[c].op = "add" /\ call[c].pc = "put"  BY <1>6 DEF AddPut, Of
  <2>2. objects' \subseteq Images
    <3>1. call[c].image \in Images /\ objects \subseteq Images
      BY <2>1, LocalsShape DEF JTypeOK
    <3>2. objects' \in {objects, objects \cup {call[c].image}}
      BY <1>6 DEF AddPut
    <3>3. QED  BY <3>1, <3>2
  <2>3. CASE call' = [call EXCEPT ![c].pc = "lock"]
    <3>1. [call[c] EXCEPT !.pc = "lock"] \in Locals  BY <2>1, LocalsShape
    <3>2. QED  BY <1>6, <2>1, <2>2, <2>3, <3>1 DEF AddPut, JTypeOK, table, InFlight
  <2>4. CASE call' = [call EXCEPT ![c] = NULL]
    BY <1>6, <2>1, <2>2, <2>4, OutsideTyped DEF AddPut
  <2>5. QED  BY <1>6, <2>3, <2>4 DEF AddPut
<1>7. ASSUME NEW c \in Calls, AddLock(c) PROVE JTypeOK'
  <2>1. c \in InFlight /\ call[c].op = "add" /\ call[c].pc = "lock"  BY <1>7 DEF AddLock, Of
  <2>2. /\ [call[c] EXCEPT !.pc = "commit"] \in Locals
        /\ [call[c] EXCEPT !.pc = "cleanup"] \in Locals
    BY <2>1, LocalsShape
  <2>3. CASE Editable
    <3>1. [call[c] EXCEPT !.pc = "commit"].pc = "commit"
      <4>1. call[c] \in [op : {"add"}, image : Images, pc : {"put", "lock", "commit", "cleanup"}]
        BY <2>1, LocalsShape DEF Locals
      <4>2. QED  BY <4>1
    <3>2. Lock(c, [call[c] EXCEPT !.pc = "commit"])  BY <1>7, <2>3 DEF AddLock
    <3>3. QED  BY <2>2, <3>1, <3>2, LockTyped
  <2>4. CASE ~Editable
    <3>1. [call[c] EXCEPT !.pc = "cleanup"].pc = "cleanup"
      <4>1. call[c] \in [op : {"add"}, image : Images, pc : {"put", "lock", "commit", "cleanup"}]
        BY <2>1, LocalsShape DEF Locals
      <4>2. QED  BY <4>1
    <3>2. call' = [call EXCEPT ![c] = [call[c] EXCEPT !.pc = "cleanup"]]
      BY <1>7, <2>4 DEF AddLock
    <3>3. UNCHANGED <<table, objects, holder, unheard>>  BY <1>7, <2>4 DEF AddLock
    <3>4. objects' \subseteq Images  BY <3>3 DEF JTypeOK
    <3>5. QED  BY <2>1, <2>2, <3>1, <3>2, <3>3, <3>4, OutsideTyped
  <2>5. QED  BY <2>3, <2>4
<1>8. ASSUME NEW c \in Calls, AddCleanup(c) \/ DeleteDrop(c) PROVE JTypeOK'
  <2>1. c \in InFlight /\ call[c].pc # "commit"  BY <1>8 DEF AddCleanup, DeleteDrop, Of
  <2>2. objects' \subseteq Images  BY <1>8 DEF AddCleanup, DeleteDrop, JTypeOK
  <2>3. QED  BY <1>8, <2>1, <2>2, OutsideTyped DEF AddCleanup, DeleteDrop
<1>9. ASSUME NEW c \in Calls, Commit(c) PROVE JTypeOK'
  <2> DEFINE l == IF call[c].op = "delete" THEN [call[c] EXCEPT !.pc = "drop"] ELSE NULL
  <2>1. l \in Locals \cup {NULL} /\ (l # NULL => l.pc # "commit")
    BY <1>9, LocalsShape DEF Commit, InTx, Locals
  <2>2. /\ holder' \in Calls \cup {NULL} /\ call' \in [Calls -> Locals \cup {NULL}]
        /\ \A d \in Calls : holder' = d <=> call'[d] # NULL /\ call'[d].pc = "commit"
    BY <1>9, <2>1, EndTyped DEF Commit
  <2>3. QED  BY <1>9, <2>2, WritesTyped DEF Commit, JTypeOK
<1>10. ASSUME NEW c \in Calls, CommitUnheard(c) PROVE JTypeOK'
  <2>1. c \in InFlight  BY <1>10 DEF CommitUnheard, InTx
  <2>2. /\ holder' \in Calls \cup {NULL} /\ call' \in [Calls -> Locals \cup {NULL}]
        /\ \A d \in Calls : holder' = d <=> call'[d] # NULL /\ call'[d].pc = "commit"
    BY <1>10, <2>1, FailedTyped, EndTyped DEF CommitUnheard
  <2>3. unheard' \subseteq Images  BY <1>10, <2>1, LocalsShape DEF CommitUnheard, JTypeOK
  <2>4. QED  BY <1>10, <2>2, <2>3, WritesTyped DEF CommitUnheard, JTypeOK
<1>11. ASSUME NEW c \in Calls, Rollback(c) PROVE JTypeOK'
  <2>1. c \in InFlight  BY <1>11 DEF Rollback, InTx
  <2>2. /\ holder' \in Calls \cup {NULL} /\ call' \in [Calls -> Locals \cup {NULL}]
        /\ \A d \in Calls : holder' = d <=> call'[d] # NULL /\ call'[d].pc = "commit"
    BY <1>11, <2>1, FailedTyped, EndTyped DEF Rollback
  <2>3. QED  BY <1>11, <2>2 DEF Rollback, JTypeOK, table
<1>12. ASSUME NEW c \in Calls, Crash(c) PROVE JTypeOK'
  BY <1>12, JournalAssumption DEF Crash, JTypeOK, table, InFlight
<1>13. CASE UNCHANGED journalVars
  BY <1>13 DEF journalVars, table, JTypeOK
<1>14. QED
  BY <1>1, <1>2, <1>3, <1>4, <1>5, <1>6, <1>7, <1>8, <1>9, <1>10, <1>11, <1>12, <1>13
  DEF JournalNext

-------------------------------------------------------------------------------
(* The row lock.                                                           *)

\* The holder found its status under the lock, and no other call writes.
LEMMA GuardedKeeps == ASSUME JInv, [JournalNext]_journalVars PROVE Guarded'
<1> USE DEF JInv
<1>0. ASSUME NEW c \in Calls, NEW l, l.op # "review" => Editable,
             l.op = "review" => Reviewable, Lock(c, l)
      PROVE  Guarded'
  BY <1>0 DEF Lock, Guarded, JTypeOK, table, Editable, Reviewable
<1>1. ASSUME NEW t \in Texts, SaveDraft(t) PROVE Guarded'
  BY <1>1 DEF SaveDraft, Guarded, Editable, Reviewable
<1>2. ASSUME NEW c \in Calls, NEW t \in LongTexts, SubmitLock(c, t) PROVE Guarded'
  BY <1>2, <1>0 DEF SubmitLock
<1>3. ASSUME NEW c \in Calls, NEW d \in Decisions, ReviewLock(c, d) PROVE Guarded'
  BY <1>3, <1>0 DEF ReviewLock
<1>4. ASSUME NEW c \in Calls, NEW i \in Images, AddCount(c, i) PROVE Guarded'
  BY <1>4 DEF AddCount, Guarded, JTypeOK, table, Editable, Reviewable
<1>5. ASSUME NEW c \in Calls, NEW i \in Images, DeleteLock(c, i) PROVE Guarded'
  BY <1>5, <1>0 DEF DeleteLock
<1>6. ASSUME NEW c \in Calls, AddPut(c) \/ AddCleanup(c) \/ DeleteDrop(c) PROVE Guarded'
  <2>1. holder # c /\ UNCHANGED <<table, holder>>
    BY <1>6 DEF AddPut, AddCleanup, DeleteDrop, JTypeOK
  <2>2. \A d \in Calls : d # c => call'[d] = call[d]
    BY <1>6 DEF AddPut, AddCleanup, DeleteDrop, JTypeOK
  <2>3. QED  BY <2>1, <2>2 DEF Guarded, table, Editable, Reviewable
<1>7. ASSUME NEW c \in Calls, AddLock(c) PROVE Guarded'
  <2>1. c \in InFlight /\ call[c].op = "add" /\ holder # c
    BY <1>7 DEF AddLock, Of, JTypeOK
  <2>2. CASE Editable
    <3>1. [call[c] EXCEPT !.pc = "commit"].op = "add"
      <4>1. call[c] \in [op : {"add"}, image : Images, pc : {"put", "lock", "commit", "cleanup"}]
        BY <2>1, LocalsShape DEF Locals
      <4>2. QED  BY <4>1
    <3>2. Lock(c, [call[c] EXCEPT !.pc = "commit"])  BY <1>7, <2>2 DEF AddLock
    <3>3. QED  BY <2>2, <3>1, <3>2, <1>0
  <2>3. CASE ~Editable
    BY <1>7, <2>1, <2>3 DEF AddLock, Guarded, JTypeOK, table, Editable, Reviewable
  <2>4. QED  BY <2>2, <2>3
<1>8. ASSUME NEW c \in Calls, Commit(c) \/ CommitUnheard(c) \/ Rollback(c) PROVE Guarded'
  BY <1>8, JournalAssumption DEF Commit, CommitUnheard, Rollback, Guarded
<1>9. ASSUME NEW c \in Calls, Crash(c) PROVE Guarded'
  BY <1>9, JournalAssumption DEF Crash, Guarded, JTypeOK, table, Editable, Reviewable
<1>10. CASE UNCHANGED journalVars
  BY <1>10 DEF journalVars, table, Guarded, Editable, Reviewable
<1>11. QED
  BY <1>1, <1>2, <1>3, <1>4, <1>5, <1>6, <1>7, <1>8, <1>9, <1>10 DEF JournalNext

-------------------------------------------------------------------------------
(* The row and its history.                                                *)

\* What a sequence is after one more element.
LEMMA Grown ==
  ASSUME NEW T, NEW s \in Seq(T), NEW x
  PROVE  /\ Len(Append(s, x)) = Len(s) + 1 /\ Append(s, x)[Len(s) + 1] = x
         /\ DOMAIN s = 1..Len(s) /\ DOMAIN Append(s, x) = 1..(Len(s) + 1)
         /\ \A k \in 1..Len(s) : Append(s, x)[k] = s[k]
         /\ Append(s, x) # <<>>
  OBVIOUS

\* What the trail says, in the pieces the steps below need.
LEMMA TrailFacts ==
  ASSUME JInv
  PROVE  /\ Len(trail) \in Nat /\ Len(reviews) \in Nat
         /\ DOMAIN trail = 1..Len(trail) /\ DOMAIN reviews = 1..Len(reviews)
         /\ status = "submitted" => Len(trail) = 2 * Len(reviews) + 1
         /\ status # "submitted" => Len(trail) = 2 * Len(reviews)
         /\ status = "reviewed" => revisions = Len(reviews) - 1
         /\ status # "reviewed" => revisions = Len(reviews)
         /\ \A k \in 1..Len(trail) : trail[k] = "submitted" <=> k % 2 = 1
         /\ \A k \in 1..Len(reviews) : trail[2 * k] = reviews[k]
<1>1. Len(trail) \in Nat /\ DOMAIN trail = 1..Len(trail)  BY DEF JInv, JTypeOK
<1>2. Len(reviews) \in Nat /\ DOMAIN reviews = 1..Len(reviews)  BY DEF JInv, JTypeOK
<1>3. TrailTellsTheStatus  BY DEF JInv, Records
<1>4. Len(trail) = 2 * Len(reviews) + (IF status = "submitted" THEN 1 ELSE 0)
  BY <1>3, Zenon DEF TrailTellsTheStatus
<1>5. revisions = Len(reviews) - (IF status = "reviewed" THEN 1 ELSE 0)
  BY <1>3, Zenon DEF TrailTellsTheStatus
<1>6. /\ \A k \in DOMAIN trail : trail[k] = "submitted" <=> k % 2 = 1
      /\ \A k \in DOMAIN reviews : trail[2 * k] = reviews[k]
  BY <1>3, Zenon DEF TrailTellsTheStatus
<1>7. /\ \A k \in 1..Len(trail) : trail[k] = "submitted" <=> k % 2 = 1
      /\ \A k \in 1..Len(reviews) : trail[2 * k] = reviews[k]
  BY <1>1, <1>2, <1>6, Zenon
<1>8. /\ status = "submitted" => Len(trail) = 2 * Len(reviews) + 1
      /\ status # "submitted" => Len(trail) = 2 * Len(reviews)
  BY <1>2, <1>4
<1>9. /\ status = "reviewed" => revisions = Len(reviews) - 1
      /\ status # "reviewed" => revisions = Len(reviews)
  <2>1. CASE status = "reviewed"  BY <1>2, <1>5, <2>1
  <2>2. CASE status # "reviewed"
    <3>1. revisions = Len(reviews) - 0  BY <1>5, <2>2, Zenon
    <3>2. Len(reviews) - 0 = Len(reviews)
      <4>1. ASSUME NEW n \in Nat PROVE n - 0 = n  OBVIOUS
      <4>2. QED  BY <1>2, <4>1
    <3>3. QED  BY <2>2, <3>1, <3>2, Zenon
  <2>3. QED  BY <2>1, <2>2
<1>10. QED  BY <1>1, <1>2, <1>7, <1>8, <1>9

\* A submission opens a pair of the trail, a decision closes it.
LEMMA WritesRecord ==
  ASSUME JInv, NEW c \in Calls, InTx(c), Writes(c)
  PROVE  Records'
<1> USE DEF JInv, Records
<1>1. CASE call[c].op \in {"add", "delete"}
  BY <1>1 DEF Writes, AddWrites, DeleteWrites, TrailTellsTheStatus,
              EveryDecisionIsTold, JudgedTextIsLong
<1>2. CASE call[c].op = "submit"
  <2>1. /\ narrative' = call[c].text /\ status' = "submitted"
        /\ trail' = Append(trail, "submitted")
        /\ UNCHANGED <<revisions, reviews, images, told>>
    BY <1>2 DEF Writes, SubmitWrites
  <2>2. status \in {"draft", "needs_revision"}
    BY <1>2 DEF Guarded, InTx, Editable
  <2>3. Len(trail) = 2 * Len(reviews) /\ Len(trail) \in Nat /\ Len(reviews) \in Nat
    BY <2>2, TrailFacts
  <2>4. /\ Len(trail') = Len(trail) + 1 /\ trail'[Len(trail) + 1] = "submitted"
        /\ DOMAIN trail = 1..Len(trail) /\ DOMAIN trail' = 1..(Len(trail) + 1)
        /\ \A k \in 1..Len(trail) : trail'[k] = trail[k]
        /\ trail' # <<>>
        /\ DOMAIN reviews = 1..Len(reviews)
    BY <2>1 DEF JTypeOK
  <2>5. \A k \in DOMAIN trail' : trail'[k] = "submitted" <=> k % 2 = 1
    <3>1. ASSUME NEW k \in 1..Len(trail) PROVE trail'[k] = "submitted" <=> k % 2 = 1
      BY <2>4 DEF TrailTellsTheStatus
    <3>2. (Len(trail) + 1) % 2 = 1  BY <2>3
    <3>3. QED  BY <2>3, <2>4, <3>1, <3>2
  <2>6. \A k \in DOMAIN reviews' : trail'[2 * k] = reviews'[k]
    <3>1. ASSUME NEW k \in 1..Len(reviews) PROVE trail'[2 * k] = reviews[k]
      <4>1. 2 * k \in 1..Len(trail)  BY <2>3
      <4>2. trail[2 * k] = reviews[k]  BY TrailFacts, Zenon
      <4>3. QED  BY <2>4, <4>1, <4>2
    <3>2. QED  BY <2>1, <2>4, <3>1
  <2>7. revisions' = Len(reviews') - 0
    BY <2>1, <2>2, <2>3, TrailFacts
  <2>8. TrailTellsTheStatus'
    BY <2>1, <2>3, <2>4, <2>5, <2>6, <2>7 DEF TrailTellsTheStatus
  <2>9. EveryDecisionIsTold' /\ JudgedTextIsLong'
    BY <1>2, <2>1, LocalsShape DEF EveryDecisionIsTold, JudgedTextIsLong, InTx
  <2>10. QED  BY <2>8, <2>9
<1>3. CASE call[c].op = "review"
  <2> DEFINE d == call[c].decision
  <2>1. d \in Decisions  BY <1>3, LocalsShape DEF InTx
  <2>2. /\ reviews' = Append(reviews, d) /\ status' = d /\ trail' = Append(trail, d)
        /\ revisions' = revisions + (IF d = "needs_revision" THEN 1 ELSE 0)
        /\ told' = told \cup {Len(reviews) + 1} /\ UNCHANGED <<narrative, images>>
    BY <1>3 DEF Writes, ReviewWrites, Event
  <2> HIDE DEF d
  <2>3. status = "submitted"  BY <1>3 DEF Guarded, InTx, Reviewable
  <2>4. /\ Len(trail) = 2 * Len(reviews) + 1 /\ Len(trail) \in Nat /\ Len(reviews) \in Nat
        /\ revisions = Len(reviews)
    BY <2>3, TrailFacts
  <2>5. /\ Len(trail') = Len(trail) + 1 /\ trail'[Len(trail) + 1] = d
        /\ DOMAIN trail = 1..Len(trail) /\ DOMAIN trail' = 1..(Len(trail) + 1)
        /\ \A k \in 1..Len(trail) : trail'[k] = trail[k]
        /\ trail' # <<>>
    <3>1. trail \in Seq(Decisions \cup {"submitted"}) /\ trail' = Append(trail, d)
      BY <2>2 DEF JTypeOK
    <3>2. QED  BY <3>1, Grown
  <2>6. /\ Len(reviews') = Len(reviews) + 1 /\ reviews'[Len(reviews) + 1] = d
        /\ DOMAIN reviews = 1..Len(reviews) /\ DOMAIN reviews' = 1..(Len(reviews) + 1)
        /\ \A k \in 1..Len(reviews) : reviews'[k] = reviews[k]
    <3>1. reviews \in Seq(Decisions) /\ reviews' = Append(reviews, d)
      BY <2>2 DEF JTypeOK
    <3>2. QED  BY <3>1, Grown
  <2>7. \A k \in DOMAIN trail' : trail'[k] = "submitted" <=> k % 2 = 1
    <3>1. ASSUME NEW k \in 1..Len(trail) PROVE trail'[k] = "submitted" <=> k % 2 = 1
      BY <2>5 DEF TrailTellsTheStatus
    <3>2. (Len(trail) + 1) % 2 = 0  BY <2>4
    <3>3. trail'[Len(trail) + 1] # "submitted"  BY <2>1, <2>5 DEF Decisions
    <3>4. QED  BY <2>4, <2>5, <3>1, <3>2, <3>3
  <2>8. \A k \in DOMAIN reviews' : trail'[2 * k] = reviews'[k]
    <3>1. ASSUME NEW k \in 1..Len(reviews) PROVE trail'[2 * k] = reviews'[k]
      <4>1. 2 * k \in 1..Len(trail)  BY <2>4
      <4>2. trail[2 * k] = reviews[k]  BY TrailFacts, Zenon
      <4>3. QED  BY <2>5, <2>6, <4>1, <4>2
    <3>2. 2 * (Len(reviews) + 1) = Len(trail) + 1  BY <2>4
    <3>3. trail'[2 * (Len(reviews) + 1)] = reviews'[Len(reviews) + 1]
      BY <2>5, <2>6, <3>2
    <3>4. QED  BY <2>4, <2>6, <3>1, <3>3
  <2>9. Len(trail') = 2 * Len(reviews') + 0
    BY <2>4, <2>5, <2>6
  <2>10. status' # "submitted" /\ status' = trail'[Len(trail')]
    BY <2>1, <2>2, <2>4, <2>5 DEF Decisions
  <2>11. revisions' = Len(reviews') - (IF status' = "reviewed" THEN 1 ELSE 0)
    <3>1. CASE d = "needs_revision"  BY <2>2, <2>4, <2>6, <3>1
    <3>2. CASE d = "reviewed"  BY <2>2, <2>4, <2>6, <3>2
    <3>3. QED  BY <2>1, <3>1, <3>2 DEF Decisions
  <2>12. TrailTellsTheStatus'
    BY <2>5, <2>7, <2>8, <2>9, <2>10, <2>11 DEF TrailTellsTheStatus
  <2>13. EveryDecisionIsTold'
    BY <2>2, <2>4, <2>6 DEF EveryDecisionIsTold
  <2>14. JudgedTextIsLong'
    BY <2>2, <2>3 DEF JudgedTextIsLong
  <2>15. QED  BY <2>12, <2>13, <2>14
<1>4. QED  BY <1>1, <1>2, <1>3, LocalsShape DEF InTx

\* Only a draft and the COMMIT of a submission or review touch the records.
LEMMA RecordsKeep == ASSUME JInv, [JournalNext]_journalVars PROVE Records'
<1> USE DEF JInv
<1>1. CASE UNCHANGED <<status, narrative, revisions, reviews, told, trail>>
  BY <1>1 DEF Records, TrailTellsTheStatus, EveryDecisionIsTold, JudgedTextIsLong
<1>2. ASSUME NEW t \in Texts, SaveDraft(t) PROVE Records'
  BY <1>2 DEF SaveDraft, Editable, Records, TrailTellsTheStatus, EveryDecisionIsTold,
              JudgedTextIsLong
<1>3. ASSUME NEW c \in Calls, Commit(c) \/ CommitUnheard(c) PROVE Records'
  BY <1>3, WritesRecord DEF Commit, CommitUnheard
<1>4. QED
  BY <1>1, <1>2, <1>3
  DEF JournalNext, SubmitLock, ReviewLock, AddCount, DeleteLock, AddPut, AddLock,
      AddCleanup, DeleteDrop, Rollback, Crash, Lock, journalVars, table

-------------------------------------------------------------------------------
(* Rows and objects of images.                                             *)

\* A call that takes the row for a submission, a review or a deletion is no
\* upload, and a deletion takes an image that has a row, so no upload's.
LEMMA TrackedLock ==
  ASSUME JInv, NEW c \in Calls, call[c] = NULL, NEW l \in Locals,
         l.op # "add", l.op = "delete" => l.image \in images /\ l.pc = "commit",
         Lock(c, l)
  PROVE  Tracked'
<1>1. l # NULL  BY LocalsAssumption
<1>2. call' = [call EXCEPT ![c] = l] /\ UNCHANGED <<images, objects, unheard>>
  BY DEF Lock, table
<1>3. QED
  BY <1>1, <1>2 DEF JInv, JTypeOK, Tracked, Uploading, Of, InFlight

\* A call that ends: the only row it may add is that of its own upload, and it
\* leaves the objects of all other uploads alone.
LEMMA TrackedEnd ==
  ASSUME JInv, NEW c \in InFlight, call' = [call EXCEPT ![c] = NULL],
         \A i \in images' \ images : Uploading(c) /\ i = call[c].image,
         unheard \subseteq unheard',
         \A d \in Calls : d # c /\ Uploading(d) /\ call[d].image \in objects
           => call[d].image \in objects'
  PROVE  Tracked'
  BY DEF JInv, JTypeOK, Tracked, Uploading, Of, InFlight

\* The locals of an upload that has moved on.
LEMMA UploadMoves ==
  ASSUME JInv, NEW c \in Of("add"), NEW p \in {"lock", "commit", "cleanup"},
         call' = [call EXCEPT ![c].pc = p]
  PROVE  /\ c \in Calls /\ call[c].op = "add" /\ call[c] # NULL /\ call'[c] # NULL
         /\ call'[c].op = "add" /\ call'[c].image = call[c].image /\ call'[c].pc = p
         /\ \A d \in Calls : d # c => call'[d] = call[d]
<1>1. /\ c \in Calls /\ call[c].op = "add" /\ call[c] # NULL
      /\ call[c] \in [op : {"add"}, image : Images, pc : {"put", "lock", "commit", "cleanup"}]
  BY LocalsShape DEF JInv, Of, InFlight, Locals
<1>2. /\ call'[c].op = "add" /\ call'[c].image = call[c].image /\ call'[c].pc = p
      /\ \A d \in Calls : d # c => call'[d] = call[d]
      /\ call'[c] \in Locals
  BY <1>1 DEF JInv, JTypeOK, Locals
<1>3. call'[c] # NULL  BY <1>2, LocalsAssumption
<1>4. QED  BY <1>1, <1>2, <1>3

\* An upload that goes on: its object is stored, its row is not inserted.
LEMMA TrackedGoesOn ==
  ASSUME JInv, NEW c \in Of("add"), Uploading(c), NEW p \in {"lock", "commit"},
         call' = [call EXCEPT ![c].pc = p],
         UNCHANGED <<images, unheard>>,
         objects \subseteq objects', call[c].image \in objects'
  PROVE  Tracked'
  BY UploadMoves DEF JInv, Tracked, Uploading, Of, InFlight

\* An upload whose transaction failed, or seemed to.
LEMMA TrackedFails ==
  ASSUME JInv, NEW c \in Of("add"), Uploading(c),
         call' = [call EXCEPT ![c].pc = "cleanup"],
         images \subseteq images', images' \subseteq images \cup {call[c].image},
         call[c].image \notin images' \ unheard', unheard \subseteq unheard',
         UNCHANGED objects
  PROVE  Tracked'
<1> USE DEF JInv, Tracked, Uploading, Of, InFlight
<1>1. /\ c \in Calls /\ call[c].op = "add" /\ call'[c] # NULL
      /\ call'[c].op = "add" /\ call'[c].image = call[c].image /\ call'[c].pc = "cleanup"
      /\ \A d \in Calls : d # c => call'[d] = call[d]
  BY UploadMoves
<1>2. ASSUME NEW d \in Calls, d # c
      PROVE  /\ Uploading(d)' => call'[d].image \notin images' /\ call[d].image # call[c].image
             /\ Uploading(d)' /\ call'[d].pc # "put" => call'[d].image \in objects'
             /\ d \in Of("add")' /\ ~Uploading(d)' => call'[d].image \notin images' \ unheard'
             /\ d \in Of("delete")' /\ call'[d].pc = "drop" => call'[d].image \notin images'
  BY <1>1, <1>2
<1>3. QED  BY <1>1, <1>2

\* A deletion whose row is gone.
LEMMA TrackedDrops ==
  ASSUME JInv, NEW c \in Of("delete"),
         call' = [call EXCEPT ![c] = [call[c] EXCEPT !.pc = "drop"]],
         images' = images \ {call[c].image}, UNCHANGED <<objects, unheard>>
  PROVE  Tracked'
<1>1. /\ c \in Calls /\ call[c].op = "delete" /\ call[c] # NULL
      /\ call[c] \in [op : {"delete"}, image : Images, pc : {"commit", "drop"}]
  BY LocalsShape DEF JInv, Of, InFlight, Locals
<1>2. /\ call'[c].op = "delete" /\ call'[c].image = call[c].image
      /\ \A d \in Calls : d # c => call'[d] = call[d]
      /\ call'[c] \in Locals
  BY <1>1 DEF JInv, JTypeOK, Locals
<1>3. call'[c] # NULL  BY <1>2, LocalsAssumption
<1>4. QED
  BY <1>1, <1>2, <1>3 DEF JInv, Tracked, Uploading, Of, InFlight

\* Every step keeps track of the rows and objects of images in flight.
LEMMA TrackedKeeps == ASSUME JInv, [JournalNext]_journalVars PROVE Tracked'
<1>1. ASSUME NEW t \in Texts, SaveDraft(t) PROVE Tracked'
  BY <1>1 DEF SaveDraft, JInv, Tracked, Uploading, Of, InFlight
<1>2. ASSUME NEW c \in Calls, NEW t \in LongTexts, SubmitLock(c, t) PROVE Tracked'
  <2>1. [op |-> "submit", text |-> t, pc |-> "commit"] \in Locals  BY DEF Locals
  <2>2. QED  BY <1>2, <2>1, TrackedLock DEF SubmitLock
<1>3. ASSUME NEW c \in Calls, NEW d \in Decisions, ReviewLock(c, d) PROVE Tracked'
  <2>1. [op |-> "review", decision |-> d, pc |-> "commit"] \in Locals  BY DEF Locals
  <2>2. QED  BY <1>3, <2>1, TrackedLock DEF ReviewLock
<1>4. ASSUME NEW c \in Calls, NEW i \in Images, AddCount(c, i) PROVE Tracked'
  <2> DEFINE l == [op |-> "add", image |-> i, pc |-> "put"]
  <2>1. l # NULL  BY LocalsAssumption DEF Locals
  <2>2. /\ call[c] = NULL /\ call' = [call EXCEPT ![c] = l]
        /\ UNCHANGED <<images, objects, unheard>>
        /\ i \notin images
        /\ \A d \in Of("add") \cup Of("delete") : call[d].image # i
    BY <1>4 DEF AddCount, Fresh, table
  <2>3. QED  BY <2>1, <2>2 DEF JInv, JTypeOK, Tracked, Uploading, Of, InFlight
<1>5. ASSUME NEW c \in Calls, NEW i \in Images, DeleteLock(c, i) PROVE Tracked'
  <2>1. [op |-> "delete", image |-> i, pc |-> "commit"] \in Locals  BY DEF Locals
  <2>2. QED  BY <1>5, <2>1, TrackedLock DEF DeleteLock
<1>6. ASSUME NEW c \in Calls, AddPut(c) PROVE Tracked'
  <2>1. c \in Of("add") /\ c \in InFlight /\ Uploading(c)
    BY <1>6 DEF AddPut, Of, Uploading
  <2>2. CASE objects' = objects \cup {call[c].image} /\ call' = [call EXCEPT ![c].pc = "lock"]
    BY <1>6, <2>1, <2>2, TrackedGoesOn DEF AddPut, table
  <2>3. CASE /\ objects' \in {objects, objects \cup {call[c].image}}
             /\ call' = [call EXCEPT ![c] = NULL]
    BY <1>6, <2>1, <2>3, TrackedEnd DEF AddPut, table
  <2>4. QED  BY <1>6, <2>2, <2>3 DEF AddPut
<1>7. ASSUME NEW c \in Calls, AddLock(c) PROVE Tracked'
  <2>1. c \in Of("add") /\ Uploading(c) /\ call[c].pc = "lock"
    BY <1>7 DEF AddLock, Of, Uploading
  <2>2. call[c].image \in objects /\ call[c].image \notin images
    BY <2>1 DEF JInv, Tracked, Of, InFlight
  <2>3. CASE Editable
    <3>1. call' = [call EXCEPT ![c].pc = "commit"] /\ UNCHANGED <<images, objects, unheard>>
      BY <1>7, <2>3 DEF AddLock, Lock, table
    <3>2. QED  BY <2>1, <2>2, <3>1, TrackedGoesOn
  <2>4. CASE ~Editable
    BY <1>7, <2>1, <2>2, <2>4, TrackedFails DEF AddLock, table
  <2>5. QED  BY <2>3, <2>4
<1>8. ASSUME NEW c \in Calls, AddCleanup(c) \/ DeleteDrop(c) PROVE Tracked'
  <2>1. c \in InFlight /\ c \in Of("add") \cup Of("delete")
    BY <1>8 DEF AddCleanup, DeleteDrop, Of
  <2>2. \A d \in Calls : d # c /\ Uploading(d) /\ call[d].image \in objects
          => call[d].image \in objects'
    BY <1>8, <2>1 DEF AddCleanup, DeleteDrop, JInv, Tracked, InFlight
  <2>3. QED  BY <1>8, <2>1, <2>2, TrackedEnd DEF AddCleanup, DeleteDrop, table
<1>9. ASSUME NEW c \in Calls, Commit(c) PROVE Tracked'
  <2>1. c \in InFlight /\ call[c].pc = "commit" /\ Writes(c) /\ UNCHANGED <<objects, unheard>>
    BY <1>9, JournalAssumption DEF Commit, InTx, InFlight, JInv, JTypeOK
  <2>2. CASE call[c].op = "delete"
    BY <1>9, <2>1, <2>2, TrackedDrops DEF Commit, Writes, DeleteWrites, Of
  <2>3. CASE call[c].op # "delete"
    <3>1. call' = [call EXCEPT ![c] = NULL]  BY <1>9, <2>3 DEF Commit
    <3>2. \A i \in images' \ images : Uploading(c) /\ i = call[c].image
      BY <2>1, <2>3 DEF Writes, SubmitWrites, ReviewWrites, AddWrites, Uploading, Of
    <3>3. QED  BY <2>1, <3>1, <3>2, TrackedEnd
  <2>4. QED  BY <2>2, <2>3
<1>10. ASSUME NEW c \in Calls, CommitUnheard(c) \/ Rollback(c) PROVE Tracked'
  <2>1. /\ c \in InFlight /\ call[c].pc = "commit"
        /\ UNCHANGED objects /\ unheard \subseteq unheard'
        /\ call' = [call EXCEPT ![c] = Failed(c)]
    BY <1>10 DEF CommitUnheard, Rollback, InTx, InFlight, JInv, JTypeOK
  <2>2. CASE call[c].op = "add"
    <3>1. c \in Of("add") /\ Uploading(c)  BY <2>1, <2>2 DEF Of, Uploading
    <3>2. call[c].image \notin images  BY <3>1 DEF JInv, Tracked, Of, InFlight
    <3>3. call' = [call EXCEPT ![c].pc = "cleanup"]  BY <2>1, <2>2 DEF Failed
    <3>4. CASE CommitUnheard(c)
      BY <2>1, <2>2, <3>1, <3>3, <3>4, TrackedFails DEF CommitUnheard, Writes, AddWrites
    <3>5. CASE Rollback(c)
      BY <2>1, <3>1, <3>2, <3>3, <3>5, TrackedFails DEF Rollback, table
    <3>6. QED  BY <1>10, <3>4, <3>5
  <2>3. CASE call[c].op # "add"
    <3>1. call' = [call EXCEPT ![c] = NULL]  BY <2>1, <2>3 DEF Failed
    <3>2. images' \subseteq images
      BY <1>10, <2>3 DEF CommitUnheard, Rollback, Writes, SubmitWrites, ReviewWrites,
                        DeleteWrites, table
    <3>3. QED  BY <2>1, <3>1, <3>2, TrackedEnd
  <2>4. QED  BY <2>2, <2>3
<1>11. ASSUME NEW c \in Calls, Crash(c) PROVE Tracked'
  BY <1>11, TrackedEnd DEF Crash, table
<1>12. CASE UNCHANGED journalVars
  BY <1>12 DEF journalVars, table, JInv, Tracked, Uploading, Of, InFlight
<1>13. QED
  BY <1>1, <1>2, <1>3, <1>4, <1>5, <1>6, <1>7, <1>8, <1>9, <1>10, <1>11, <1>12
  DEF JournalNext

\* The object of a row goes only after the row, or while an upload whose COMMIT
\* was not heard of cleans up.
LEMMA ImagesKeep == ASSUME JInv, [JournalNext]_journalVars PROVE ImageHasItsObject'
<1> USE DEF JInv, ImageHasItsObject
<1>1. ASSUME NEW c \in Calls, AddCleanup(c) \/ DeleteDrop(c) PROVE ImageHasItsObject'
  <2>1. /\ c \in InFlight /\ call[c].image \notin images \ unheard
        /\ objects' \in {objects, objects \ {call[c].image}}
        /\ UNCHANGED <<images, unheard>>
    BY <1>1 DEF AddCleanup, DeleteDrop, Tracked, Uploading, Of, table
  <2>2. QED  BY <2>1
<1>2. ASSUME NEW c \in Calls, Commit(c) \/ CommitUnheard(c) PROVE ImageHasItsObject'
  <2>1. /\ c \in InFlight /\ call[c].pc = "commit" /\ Writes(c)
        /\ UNCHANGED objects /\ unheard \subseteq unheard'
    BY <1>2, JournalAssumption DEF Commit, CommitUnheard, InTx, InFlight, JTypeOK
  <2>2. CASE call[c].op = "add"
    <3>1. call[c].image \in objects
      BY <2>1, <2>2 DEF Tracked, Uploading, Of, InFlight
    <3>2. images' = images \cup {call[c].image}
      BY <2>1, <2>2 DEF Writes, AddWrites
    <3>3. QED  BY <2>1, <3>1, <3>2
  <2>3. CASE call[c].op # "add"
    <3>1. images' \subseteq images
      BY <2>1, <2>3 DEF Writes, SubmitWrites, ReviewWrites, DeleteWrites
    <3>2. QED  BY <2>1, <3>1
  <2>4. QED  BY <2>2, <2>3
<1>3. CASE UNCHANGED <<images, unheard>> /\ objects \subseteq objects'
  BY <1>3
<1>4. QED
  BY <1>1, <1>2, <1>3
  DEF JournalNext, SaveDraft, SubmitLock, ReviewLock, AddCount, DeleteLock, AddPut,
      AddLock, Rollback, Crash, Lock, journalVars, table

-------------------------------------------------------------------------------
(* The overrun of the image cap.                                           *)

\* Uploads that have counted and are not yet turned away.
Uploads == {c \in Of("add") : call[c].pc # "cleanup"}

CapInv == IsFiniteSet(images) /\ CapOverrunIsBounded

\* Uploads are calls, and there are no more of them than there are calls.
LEMMA UploadsAreCalls ==
  /\ IsFiniteSet(Uploads) /\ Cardinality(Uploads) \in Nat
  /\ Cardinality(Calls) \in Nat /\ Cardinality(Uploads) <= Cardinality(Calls)
  /\ Uploads \subseteq Calls
<1>1. Uploads \in SUBSET Calls
  BY DEF Uploads, Of, InFlight
<1>2. IsFiniteSet(Calls)
  BY CallsAssumption
<1> QED  BY <1>1, <1>2, FS_Subset, FS_CardinalityType

\* A call that was turned away, ends or was uploading already is no new upload.
LEMMA UploadsShrink ==
  ASSUME JTypeOK, NEW c \in Calls, NEW l, call' = [call EXCEPT ![c] = l],
         \/ l = NULL \/ l.op # "add" \/ l.pc = "cleanup" \/ c \in Uploads
  PROVE  /\ Uploads' \subseteq Uploads
         /\ l = NULL \/ l.pc = "cleanup" => c \notin Uploads'
<1>1. /\ call'[c] = l
      /\ \A d \in Calls : d # c => call'[d] = call[d]
  BY DEF JTypeOK
<1> QED  BY <1>1 DEF Uploads, Of, InFlight

\* With no more images and uploads than before the bound stays.
LEMMA NoMoreImages ==
  ASSUME CapInv, images' \subseteq images, Uploads' \subseteq Uploads
  PROVE  CapInv'
<1>1. /\ IsFiniteSet(images') /\ Cardinality(images') \in Nat
      /\ Cardinality(images) \in Nat /\ Cardinality(images') <= Cardinality(images)
  BY FS_Subset, FS_CardinalityType DEF CapInv
<1>2. /\ IsFiniteSet(Uploads) /\ Cardinality(Uploads) \in Nat
      /\ Cardinality(Calls) \in Nat
  BY UploadsAreCalls
<1>3. Cardinality(Uploads') \in Nat /\ Cardinality(Uploads') <= Cardinality(Uploads)
  BY <1>2, FS_Subset, FS_CardinalityType
<1>4. MaxImages \in Nat
  BY JournalAssumption
<1>5. MaxImages > 0 => Cardinality(images) + Cardinality(Uploads)
                         <= MaxImages + Cardinality(Calls) - 1
  BY DEF CapInv, CapOverrunIsBounded, Uploads
<1>6. MaxImages > 0 => Cardinality(images') + Cardinality(Uploads')
                         <= MaxImages + Cardinality(Calls) - 1
  BY <1>1, <1>2, <1>3, <1>4, <1>5
<1> QED  BY <1>1, <1>6 DEF CapInv, CapOverrunIsBounded, Uploads

\* An upload that commits turns into one image at most.
LEMMA UploadBecomesImage ==
  ASSUME CapInv, NEW c \in Uploads, NEW i, images' = images \cup {i},
         Uploads' \subseteq Uploads, c \notin Uploads'
  PROVE  CapInv'
<1>1. /\ IsFiniteSet(images') /\ Cardinality(images') \in Nat
      /\ Cardinality(images) \in Nat /\ Cardinality(images') <= Cardinality(images) + 1
  <2>1. IsFiniteSet(images) /\ Cardinality(images) \in Nat
    BY FS_CardinalityType DEF CapInv
  <2>2. /\ IsFiniteSet(images')
        /\ Cardinality(images') = IF i \in images THEN Cardinality(images)
                                  ELSE Cardinality(images) + 1
    BY <2>1, FS_AddElement
  <2> QED  BY <2>1, <2>2, FS_CardinalityType
<1>2. /\ IsFiniteSet(Uploads) /\ Cardinality(Uploads) \in Nat
      /\ Cardinality(Calls) \in Nat
  BY UploadsAreCalls
<1>3. Cardinality(Uploads') \in Nat /\ Cardinality(Uploads') <= Cardinality(Uploads) - 1
  <2>1. Uploads' \in SUBSET (Uploads \ {c})
    OBVIOUS
  <2>2. /\ IsFiniteSet(Uploads \ {c})
        /\ Cardinality(Uploads \ {c}) = Cardinality(Uploads) - 1
    BY <1>2, FS_RemoveElement
  <2> QED  BY <2>1, <2>2, FS_Subset, FS_CardinalityType
<1>4. MaxImages \in Nat
  BY JournalAssumption
<1>5. MaxImages > 0 => Cardinality(images) + Cardinality(Uploads)
                         <= MaxImages + Cardinality(Calls) - 1
  BY DEF CapInv, CapOverrunIsBounded, Uploads
<1>6. MaxImages > 0 => Cardinality(images') + Cardinality(Uploads')
                         <= MaxImages + Cardinality(Calls) - 1
  BY <1>1, <1>2, <1>3, <1>4, <1>5
<1> QED  BY <1>1, <1>6 DEF CapInv, CapOverrunIsBounded, Uploads

\* The count that is tested leaves room for every call to be an upload.
LEMMA CountedBelowCap ==
  ASSUME CapInv, BelowCap, UNCHANGED images
  PROVE  CapInv'
<1>1. /\ IsFiniteSet(images) /\ Cardinality(images) \in Nat
      /\ Cardinality(images) < MaxImages /\ MaxImages \in Nat
  BY FS_CardinalityType, JournalAssumption DEF CapInv, BelowCap
<1>2. \A U \in SUBSET Calls : Cardinality(U) \in Nat /\ Cardinality(U) <= Cardinality(Calls)
  BY CallsAssumption, FS_Subset, FS_CardinalityType
<1>3. Cardinality(Calls) \in Nat
  BY CallsAssumption, FS_CardinalityType
<1>4. Uploads' \in SUBSET Calls
  BY DEF Uploads, Of, InFlight
<1>5. Cardinality(Uploads') \in Nat /\ Cardinality(Uploads') <= Cardinality(Calls)
  BY <1>2, <1>4
<1>6. Cardinality(images') + Cardinality(Uploads') <= MaxImages + Cardinality(Calls) - 1
  BY <1>1, <1>3, <1>5
<1> QED  BY <1>1, <1>6 DEF CapInv, CapOverrunIsBounded, Uploads

\* Every step keeps the overrun bounded.
LEMMA CapKeeps == ASSUME JInv, CapInv, [JournalNext]_journalVars PROVE CapInv'
<1>0. JTypeOK
  BY DEF JInv
<1>1. ASSUME UNCHANGED <<images, call>> PROVE CapInv'
  <2>1. Uploads' = Uploads
    BY <1>1 DEF Uploads, Of, InFlight
  <2> QED  BY <1>1, <2>1, NoMoreImages
<1>2. ASSUME NEW c \in Calls, NEW l, call' = [call EXCEPT ![c] = l], images' \subseteq images,
             \/ l = NULL \/ l.op # "add" \/ l.pc = "cleanup" \/ c \in Uploads
      PROVE  CapInv'
  BY <1>0, <1>2, UploadsShrink, NoMoreImages
<1>3. ASSUME NEW c \in Calls, NEW t \in LongTexts, SubmitLock(c, t) PROVE CapInv'
  BY <1>2, <1>3 DEF SubmitLock, Lock, table
<1>4. ASSUME NEW c \in Calls, NEW d \in Decisions, ReviewLock(c, d) PROVE CapInv'
  BY <1>2, <1>4 DEF ReviewLock, Lock, table
<1>5. ASSUME NEW c \in Calls, NEW i \in Images, AddCount(c, i) PROVE CapInv'
  BY <1>5, CountedBelowCap DEF AddCount, table
<1>6. ASSUME NEW c \in Calls, NEW i \in Images, DeleteLock(c, i) PROVE CapInv'
  BY <1>2, <1>6 DEF DeleteLock, Lock, table
<1>7. ASSUME NEW c \in Calls, AddPut(c) \/ AddLock(c) PROVE CapInv'
  <2>1. c \in Uploads
    BY <1>7 DEF AddPut, AddLock, Uploads
  <2>2. PICK l : call' = [call EXCEPT ![c] = l]
    BY <1>7 DEF AddPut, AddLock, Lock
  <2> QED  BY <1>2, <1>7, <2>1, <2>2 DEF AddPut, AddLock, Lock, table
<1>8. ASSUME NEW c \in Calls, AddCleanup(c) \/ DeleteDrop(c) \/ Crash(c) PROVE CapInv'
  BY <1>2, <1>8 DEF AddCleanup, DeleteDrop, Crash, table
<1>9. ASSUME NEW c \in Calls, Commit(c) \/ CommitUnheard(c) PROVE CapInv'
  <2>1. c \in InFlight /\ call[c].pc = "commit" /\ Writes(c)
    BY <1>0, <1>9, JournalAssumption DEF Commit, CommitUnheard, InTx, InFlight, JTypeOK
  <2>2. CASE call[c].op = "add"
    <3>1. c \in Uploads /\ images' = images \cup {call[c].image}
      BY <2>1, <2>2 DEF Uploads, Of, Writes, AddWrites
    <3>2. PICK l : /\ call' = [call EXCEPT ![c] = l]
                   /\ l = NULL \/ l.pc = "cleanup"
      <4>1. CASE Commit(c)
        BY <2>2, <4>1 DEF Commit
      <4>2. CASE CommitUnheard(c)
        <5>1. Failed(c).pc = "cleanup"
          BY <1>0, <2>1, <2>2, LocalsShape DEF Failed, Locals
        <5> QED  BY <4>2, <5>1 DEF CommitUnheard
      <4> QED  BY <1>9, <4>1, <4>2
    <3>3. Uploads' \subseteq Uploads /\ c \notin Uploads'
      BY <1>0, <3>1, <3>2, UploadsShrink
    <3> QED  BY <3>1, <3>3, UploadBecomesImage
  <2>3. CASE call[c].op # "add"
    <3>1. images' \subseteq images
      BY <2>1, <2>3 DEF Writes, SubmitWrites, ReviewWrites, DeleteWrites
    <3>2. PICK l : /\ call' = [call EXCEPT ![c] = l]
                   /\ l = NULL \/ l.op # "add"
      <4>1. CASE Commit(c) /\ call[c].op = "delete"
        <5>1. [call[c] EXCEPT !.pc = "drop"].op # "add"
          BY <1>0, <2>1, <4>1, LocalsShape DEF Locals
        <5> QED  BY <4>1, <5>1 DEF Commit
      <4>2. CASE Commit(c) /\ call[c].op # "delete"
        BY <4>2 DEF Commit
      <4>3. CASE CommitUnheard(c)
        BY <2>3, <4>3 DEF CommitUnheard, Failed
      <4> QED  BY <1>9, <4>1, <4>2, <4>3
    <3> QED  BY <1>2, <3>1, <3>2
  <2> QED  BY <2>2, <2>3
<1>10. ASSUME NEW c \in Calls, Rollback(c) PROVE CapInv'
  <2>1. /\ c \in InFlight /\ call[c].pc = "commit"
        /\ call' = [call EXCEPT ![c] = Failed(c)] /\ UNCHANGED images
    BY <1>0, <1>10 DEF Rollback, InTx, InFlight, JTypeOK, table
  <2>2. CASE call[c].op = "add"
    <3>1. c \in Uploads
      BY <2>1, <2>2 DEF Uploads, Of
    <3> QED  BY <1>2, <2>1, <3>1
  <2>3. CASE call[c].op # "add"
    BY <1>2, <2>1, <2>3 DEF Failed
  <2> QED  BY <2>2, <2>3
<1>11. ASSUME NEW t \in Texts, SaveDraft(t) PROVE CapInv'
  BY <1>1, <1>11 DEF SaveDraft
<1>12. CASE UNCHANGED journalVars
  BY <1>1, <1>12 DEF journalVars, table
<1> QED
  BY <1>3, <1>4, <1>5, <1>6, <1>7, <1>8, <1>9, <1>10, <1>11, <1>12 DEF JournalNext

-------------------------------------------------------------------------------
(* Theorems.                                                               *)

\* JInv, the strengthening of the invariants below, holds in every state.
THEOREM JournalInvariance == JournalSpec => []JInv
<1>1. JInv /\ [JournalNext]_journalVars => JInv'
  BY TypeKeeps, GuardedKeeps, TrackedKeeps, RecordsKeep, ImagesKeep DEF JInv
<1>2. QED  BY InitInv, <1>1, PTL DEF JournalSpec

\* Columns and locals have their types, and the row is held by the one call
\* between its lock and its COMMIT.
THEOREM JournalTypes == JournalSpec => []JTypeOK
BY JournalInvariance, PTL DEF JInv

\* Audit trail, review history, status and revision count tell one story.
THEOREM OneStory == JournalSpec => []TrailTellsTheStatus
<1>1. JInv => TrailTellsTheStatus  BY DEF JInv, Records
<1>2. QED  BY JournalInvariance, <1>1, PTL

\* No decision is lost to the event key of another.
THEOREM DecisionsReachTheTrainee == JournalSpec => []EveryDecisionIsTold
<1>1. JInv => EveryDecisionIsTold  BY DEF JInv, Records
<1>2. QED  BY JournalInvariance, <1>1, PTL

\* Staff never judge a narrative below the required length.
THEOREM JudgedTexts == JournalSpec => []JudgedTextIsLong
<1>1. JInv => JudgedTextIsLong  BY DEF JInv, Records
<1>2. QED  BY JournalInvariance, <1>1, PTL

\* Only uploads that count at the same time exceed the cap on images, and by
\* less than the number of calls in flight (evidence.go, AddEvidence).
THEOREM CapIsSoftlyKept == JournalSpec => []CapOverrunIsBounded
<1>1. JournalInit => CapInv
  <2> SUFFICES ASSUME JournalInit
               PROVE  CapInv
    OBVIOUS
  <2>1. images = {} /\ Uploads = {}
    BY DEF JournalInit, Uploads, Of, InFlight
  <2>2. Cardinality(images) = 0 /\ Cardinality(Uploads) = 0 /\ IsFiniteSet(images)
    BY <2>1, FS_EmptySet
  <2>3. Cardinality(Calls) \in Nat /\ MaxImages \in Nat
    BY UploadsAreCalls, JournalAssumption
  <2>4. MaxImages > 0 => Cardinality(images) + Cardinality(Uploads)
                           <= MaxImages + Cardinality(Calls) - 1
    BY <2>2, <2>3
  <2> QED  BY <2>2, <2>4 DEF CapInv, CapOverrunIsBounded, Uploads
<1>2. JInv /\ CapInv /\ [JournalNext]_journalVars => CapInv'
  BY CapKeeps
<1>3. CapInv => CapOverrunIsBounded
  BY DEF CapInv
<1> QED  BY <1>1, <1>2, <1>3, JournalInvariance, PTL DEF JournalSpec

\* Every image row has its object, but for COMMITs that were not heard of.
THEOREM RowsHaveObjects == JournalSpec => []ImageHasItsObject
BY JournalInvariance, PTL DEF JInv

-------------------------------------------------------------------------------
(* Journal implements JournalLife.                                         *)

\* Every step of Journal is a step of JournalLife or none.
LEMMA LifeSteps ==
  ASSUME JInv, [JournalNext]_journalVars
  PROVE  [Promise!LifeNext]_(Promise!lifeVars)
<1> DEFINE seen == <<status, narrative, images, reviews>>
<1> USE DEF JInv, Promise!lifeVars
<1>1. ASSUME NEW t \in Texts, SaveDraft(t) PROVE Promise!Edit
  BY <1>1 DEF SaveDraft, Editable, Promise!Edit, Promise!Open
<1>2. ASSUME NEW c \in Calls, Commit(c) \/ CommitUnheard(c) PROVE Promise!LifeNext
  <2>1. c \in InFlight /\ holder = c /\ Writes(c)
    BY <1>2 DEF Commit, CommitUnheard, InTx
  <2>2. /\ call[c].op = "review" => status = "submitted"
        /\ call[c].op # "review" => Promise!Open
    BY <2>1 DEF Guarded, Reviewable, Editable, InFlight, Promise!Open
  <2>3. CASE call[c].op = "submit"
    BY <2>1, <2>2, <2>3, LocalsShape
    DEF Writes, SubmitWrites, Promise!LifeNext, Promise!HandIn
  <2>4. CASE call[c].op = "review"
    <3>1. /\ call[c].decision \in {"reviewed", "needs_revision"}
          /\ status' = call[c].decision /\ reviews' = Append(reviews, call[c].decision)
          /\ UNCHANGED <<narrative, images>>
      BY <2>1, <2>4, LocalsShape DEF Writes, ReviewWrites, Decisions
    <3>2. QED  BY <2>2, <2>4, <3>1 DEF Promise!LifeNext, Promise!Judge
  <2>5. CASE call[c].op \in {"add", "delete"}
    <3>1. /\ call[c].image \in Images
          /\ images' \in {images \cup {call[c].image}, images \ {call[c].image}}
          /\ UNCHANGED <<status, narrative, reviews>>
      BY <2>1, <2>5, LocalsShape DEF Writes, AddWrites, DeleteWrites
    <3>2. QED  BY <2>2, <2>5, <3>1 DEF Promise!LifeNext, Promise!Illustrate
  <2>6. QED  BY <2>1, <2>3, <2>4, <2>5, LocalsShape
<1>3. CASE UNCHANGED seen
  BY <1>3
<1>4. QED
  BY <1>1, <1>2, <1>3
  DEF JournalNext, SubmitLock, ReviewLock, AddCount, DeleteLock, AddPut, AddLock,
      AddCleanup, DeleteDrop, Rollback, Crash, Lock, journalVars, table, Promise!LifeNext

\* However handlers race, fail and crash, what the readers of the journal see
\* is a behaviour of JournalLife.
THEOREM Implementation == JournalSpec => ImplementsLife
<1>1. JournalInit => Promise!LifeInit
  BY DEF JournalInit, Promise!LifeInit
<1>2. JInv /\ [JournalNext]_journalVars => [Promise!LifeNext]_(Promise!lifeVars)
  BY LifeSteps
<1>3. QED
  BY JournalInvariance, <1>1, <1>2, PTL DEF JournalSpec, ImplementsLife, Promise!Life
================================================================================
