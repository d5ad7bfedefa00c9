----------------------------- MODULE Services_proofs ----------------------------
(***************************************************************************)
(* Proofs about the services, each an inductive invariant of its module:   *)
(* the rate limiter implements plain token buckets, the migration runner   *)
(* keeps its record true, photos follow their rows, and reminders are told *)
(* once.                                                                   *)
(***************************************************************************)
EXTENDS RateLimiter, Migrations, EvidenceStore, Reminders, TLAPS

-------------------------------------------------------------------------------
(* The rate limiter.                                                       *)

\* A bucket fills up in less than the four windows after which it is stale.
LEMMA FullInTime ==
  /\ TokenInterval \in Nat \ {0}
  /\ Capacity \in Nat
  /\ TokenInterval <= Capacity
  /\ Capacity <= 4 * Window
<1>1. TokenInterval \in Nat \ {0}
  BY LimiterAssumption, SMT DEF TokenInterval
<1>2. Capacity \in Nat
  BY <1>1, LimiterAssumption, SMT DEF Capacity
<1>3. TokenInterval <= Capacity
  BY <1>1, LimiterAssumption, SMT DEF Capacity
<1>4. MaxEvents * (Window \div MaxEvents) <= Window
  BY LimiterAssumption, SMT
<1>5. Capacity <= 4 * Window
  BY <1>4, LimiterAssumption, SMT DEF Capacity, TokenInterval
<1> QED BY <1>1, <1>2, <1>3, <1>5

\* What is left in an entry is between nothing and a full bucket.
LEMMA LeftBounds ==
  ASSUME LimiterTypeOK, NEW e \in Entry, e.refilled <= clock
  PROVE  Left(e) \in 0 .. Capacity
<1>1. /\ e.tokens \in Nat /\ e.tokens <= Capacity
      /\ e.refilled \in Nat /\ clock \in Nat /\ Capacity \in Nat
  BY FullInTime, LimiterAssumption DEF Entry, LimiterTypeOK
<1> QED BY <1>1 DEF Left

\* A stale bucket is full: throwing it away changes nothing.
LEMMA StaleIsFull ==
  ASSUME LimiterTypeOK, NEW k \in DOMAIN entries, Stale(k)
  PROVE  Left(entries[k]) = Capacity
<1>1. /\ entries[k].tokens \in Nat /\ entries[k].refilled \in Nat
      /\ entries[k].lastSeen \in Nat /\ clock \in Nat
      /\ entries[k].refilled <= entries[k].lastSeen
  BY LimiterAssumption DEF LimiterTypeOK, Entry
<1>2. Window \in Nat
  BY LimiterAssumption
<1> QED BY <1>1, <1>2, FullInTime DEF Stale, Left

\* The bucket a request meets holds what the client's level says.
LEMMA BucketHoldsLevel ==
  ASSUME LimiterTypeOK, NEW k \in Clients
  PROVE  /\ BucketOf(k) \in Entry
         /\ BucketOf(k).refilled <= BucketOf(k).lastSeen
         /\ BucketOf(k).lastSeen <= clock
         /\ Left(BucketOf(k)) = Level[k]
<1>1. CASE k \in Kept
  <2>1. k \in DOMAIN entries /\ BucketOf(k) = entries[k]
    BY <1>1 DEF Kept, BucketOf
  <2> QED BY <2>1 DEF LimiterTypeOK, Level
<1>2. CASE k \notin Kept
  <2>1. BucketOf(k) = [tokens |-> Capacity, refilled |-> clock, lastSeen |-> clock]
    BY <1>2 DEF BucketOf
  <2>2. clock \in 0 .. MaxClock /\ clock \in Nat /\ Capacity \in 0 .. Capacity
    BY FullInTime, LimiterAssumption DEF LimiterTypeOK
  <2>3. BucketOf(k) \in Entry
    BY <2>1, <2>2 DEF Entry
  <2>4. Left(BucketOf(k)) = Capacity
    BY <2>1, <2>2, FullInTime DEF Left
  <2>5. k \in DOMAIN entries => Stale(k)
    BY <1>2 DEF Kept
  <2>6. Level[k] = Capacity
    BY <2>5, StaleIsFull DEF Level
  <2> QED BY <2>1, <2>2, <2>3, <2>4, <2>6
<1> QED BY <1>1, <1>2

\* The entry that a request of k leaves behind.
EntryAfter(k) == AfterRequest(BucketOf(k), Left(BucketOf(k)) >= TokenInterval)

\* It is well formed and holds the level the request found, less its token.
LEMMA EntryAfterHolds ==
  ASSUME LimiterTypeOK, NEW k \in Clients
  PROVE  /\ EntryAfter(k) \in Entry
         /\ EntryAfter(k).refilled <= EntryAfter(k).lastSeen
         /\ EntryAfter(k).lastSeen = clock
         /\ Left(EntryAfter(k)) =
              IF Level[k] >= TokenInterval THEN Level[k] - TokenInterval ELSE Level[k]
<1> DEFINE b == BucketOf(k)
           allowed == Left(b) >= TokenInterval
           e == EntryAfter(k)
<1>1. /\ b \in Entry /\ b.refilled <= b.lastSeen /\ b.lastSeen <= clock /\ Left(b) = Level[k]
  BY BucketHoldsLevel
<1>2. /\ clock \in 0 .. MaxClock /\ clock \in Nat /\ b.refilled \in Nat /\ b.lastSeen \in Nat
      /\ b.tokens \in 0 .. Capacity
  BY <1>1, LimiterAssumption DEF LimiterTypeOK, Entry
<1>3. Left(b) \in 0 .. Capacity
  BY <1>1, <1>2, LeftBounds
<1>4. CASE allowed
  <2>1. e = [tokens |-> Left(b) - TokenInterval, refilled |-> clock, lastSeen |-> clock]
    BY <1>4 DEF AfterRequest, EntryAfter
  <2>2. Left(b) - TokenInterval \in 0 .. Capacity
    BY <1>3, <1>4, FullInTime
  <2>3. e \in Entry
    BY <2>1, <2>2, <1>2 DEF Entry
  <2>4. Left(e) = Left(b) - TokenInterval
    <3>1. e.tokens = Left(b) - TokenInterval /\ e.refilled = clock
      BY <2>1
    <3>2. ASSUME NEW t \in 0 .. Capacity
          PROVE (IF t + (clock - clock) < Capacity THEN t + (clock - clock) ELSE Capacity) = t
      BY <1>2, FullInTime
    <3> HIDE DEF e
    <3> QED BY <3>1, <3>2, <2>2 DEF Left
  <2> QED BY <2>1, <2>3, <2>4, <1>1, <1>2, <1>4
<1>5. CASE ~allowed
  <2>1. e = [b EXCEPT !.lastSeen = clock]
    BY <1>5 DEF AfterRequest, EntryAfter
  <2>2. e \in Entry /\ e.tokens = b.tokens /\ e.refilled = b.refilled /\ e.lastSeen = clock
    BY <2>1, <1>1, <1>2 DEF Entry
  <2>3. Left(e) = Left(b)
    BY <2>2 DEF Left
  <2>4. e.refilled <= e.lastSeen
    BY <2>2, <1>1, <1>2
  <2> QED BY <2>2, <2>3, <2>4, <1>1, <1>5
<1> QED BY <1>4, <1>5

\* A step of the limiter keeps clock and buckets in their types.
LEMMA LimiterTypeStep ==
  ASSUME LimiterTypeOK, [LimiterNext]_limiterVars
  PROVE  LimiterTypeOK'
<1>1. CASE Tick
  <2>1. clock' = clock + 1 /\ clock < MaxClock /\ entries' = entries
    BY <1>1 DEF Tick
  <2>2. clock' \in 0 .. MaxClock /\ clock < clock'
    BY <2>1, LimiterAssumption DEF LimiterTypeOK
  <2>3. \A k \in DOMAIN entries : entries[k].lastSeen <= clock'
    <3> SUFFICES ASSUME NEW k \in DOMAIN entries PROVE entries[k].lastSeen <= clock'
      OBVIOUS
    <3>1. entries[k].lastSeen \in Nat /\ clock \in Nat /\ entries[k].lastSeen <= clock
      BY LimiterAssumption DEF LimiterTypeOK, Entry
    <3> QED BY <3>1, <2>1
  <2> QED BY <2>1, <2>2, <2>3 DEF LimiterTypeOK
<1>2. ASSUME NEW k \in Clients, allow(k)
      PROVE LimiterTypeOK'
  <2> DEFINE e == EntryAfter(k)
  <2>1. /\ entries' = [j \in Kept \cup {k} |-> IF j = k THEN e ELSE entries[j]]
        /\ clock' = clock
    BY <1>2 DEF allow, EntryAfter
  <2>2. e \in Entry /\ e.refilled <= e.lastSeen /\ e.lastSeen = clock
    BY EntryAfterHolds
  <2>3. Kept \subseteq DOMAIN entries
    BY DEF Kept
  <2>4. clock <= clock
    BY LimiterAssumption DEF LimiterTypeOK
  <2> HIDE DEF e
  <2>5. DOMAIN entries' = Kept \cup {k}
    BY <2>1
  <2>6. ASSUME NEW j \in DOMAIN entries'
        PROVE  /\ entries'[j] \in Entry
               /\ entries'[j].refilled <= entries'[j].lastSeen
               /\ entries'[j].lastSeen <= clock'
    <3>1. CASE j = k
      BY <3>1, <2>1, <2>2, <2>4, <2>5
    <3>2. CASE j # k
      BY <3>2, <2>1, <2>3, <2>5 DEF LimiterTypeOK
    <3> QED BY <3>1, <3>2
  <2>7. Entry' = Entry
    BY DEF Entry, Capacity, TokenInterval
  <2> QED BY <2>1, <2>3, <2>5, <2>6 DEF LimiterTypeOK
<1>3. CASE UNCHANGED limiterVars
  BY <1>3 DEF LimiterTypeOK, limiterVars, Entry, Capacity, TokenInterval
<1> QED BY <1>1, <1>2, <1>3 DEF LimiterNext

\* The levels of all clients after a request are those of the token buckets.
LEMMA LevelsAfterRequest ==
  ASSUME LimiterTypeOK, NEW k \in Clients, allow(k)
  PROVE  /\ verdict' = [client |-> k, allowed |-> Level[k] >= TokenInterval]
         /\ Level' = IF Level[k] >= TokenInterval
                     THEN [Level EXCEPT ![k] = @ - TokenInterval] ELSE Level
<1> DEFINE e == EntryAfter(k)
           new == IF Level[k] >= TokenInterval
                  THEN [Level EXCEPT ![k] = @ - TokenInterval] ELSE Level
<1>1. /\ entries' = [j \in Kept \cup {k} |-> IF j = k THEN e ELSE entries[j]]
      /\ clock' = clock
      /\ verdict' = [client |-> k, allowed |-> Left(BucketOf(k)) >= TokenInterval]
  BY DEF allow, EntryAfter
<1>2. Left(BucketOf(k)) = Level[k]
  BY BucketHoldsLevel
<1>3. Left(e) = IF Level[k] >= TokenInterval THEN Level[k] - TokenInterval ELSE Level[k]
  BY EntryAfterHolds
<1> HIDE DEF e
<1>4. k \in DOMAIN entries' /\ entries'[k] = e /\ DOMAIN entries' = Kept \cup {k}
  BY <1>1
<1>5. ASSUME NEW j \in Clients
      PROVE Level'[j] = new[j]
  <2>1. Level'[j] = IF j \in DOMAIN entries'
                    THEN IF entries'[j].tokens + (clock - entries'[j].refilled) < Capacity
                         THEN entries'[j].tokens + (clock - entries'[j].refilled) ELSE Capacity
                    ELSE Capacity
    BY <1>1 DEF Level, Left, Capacity, TokenInterval
  <2>2. new[j] = IF Level[k] >= TokenInterval /\ j = k
                 THEN Level[k] - TokenInterval ELSE Level[j]
    BY DEF Level
  <2>3. CASE j = k
    <3>1. Level'[j] = Left(e)
      BY <1>4, <2>1, <2>3 DEF Left
    <3> QED BY <3>1, <1>3, <2>2, <2>3
  <2>4. CASE j # k /\ j \in Kept
    <3>1. j \in DOMAIN entries /\ j \in DOMAIN entries' /\ entries'[j] = entries[j]
      BY <1>1, <2>4 DEF Kept
    <3>2. Level'[j] = Left(entries[j])
      BY <3>1, <2>1 DEF Left
    <3>3. Level[j] = Left(entries[j])
      BY <3>1 DEF Level
    <3> QED BY <3>2, <3>3, <2>2, <2>4
  <2>5. CASE j # k /\ j \notin Kept
    <3>1. Level'[j] = Capacity
      BY <1>4, <2>1, <2>5
    <3>2. j \in DOMAIN entries => Stale(j)
      BY <2>5 DEF Kept
    <3>3. Level[j] = Capacity
      BY <3>2, StaleIsFull DEF Level
    <3> QED BY <3>1, <3>3, <2>2, <2>5
  <2> QED BY <2>3, <2>4, <2>5
<1>6. Level' = new
  <2>1. Level' = [j \in Clients |-> Level'[j]] /\ new = [j \in Clients |-> new[j]]
    BY DEF Level
  <2> QED BY <2>1, <1>5
<1> QED BY <1>1, <1>2, <1>6

\* A step of the limiter is a step of the token buckets.
LEMMA LimiterStep ==
  ASSUME LimiterTypeOK, [LimiterNext]_limiterVars
  PROVE  [Buckets!BucketsNext]_<<Level, verdict>>
<1>1. CASE Tick
  <2>1. clock' = clock + 1 /\ entries' = entries /\ verdict' = NoAnswer
    BY <1>1 DEF Tick
  <2>2. ASSUME NEW k \in Clients
        PROVE Level'[k] = Buckets!Capped(Level[k] + 1)
    <3>1. CASE k \in DOMAIN entries
      <4>1. /\ entries[k].tokens \in Nat /\ entries[k].refilled \in Nat /\ clock \in Nat
            /\ entries[k].refilled <= clock
        BY <3>1, LimiterAssumption DEF LimiterTypeOK, Entry
      <4>2. Level'[k] = IF entries[k].tokens + ((clock + 1) - entries[k].refilled) < Capacity
                        THEN entries[k].tokens + ((clock + 1) - entries[k].refilled) ELSE Capacity
        BY <2>1, <3>1 DEF Level, Left, Capacity, TokenInterval
      <4>3. Level[k] = IF entries[k].tokens + (clock - entries[k].refilled) < Capacity
                       THEN entries[k].tokens + (clock - entries[k].refilled) ELSE Capacity
        BY <3>1 DEF Level, Left
      <4> QED BY <4>1, <4>2, <4>3, FullInTime DEF Buckets!Capped, Buckets!Full, Capacity
    <3>2. CASE k \notin DOMAIN entries
      <4>1. Level'[k] = Capacity /\ Level[k] = Capacity
        BY <2>1, <3>2 DEF Level, Capacity, TokenInterval
      <4> QED BY <4>1, FullInTime DEF Buckets!Capped, Buckets!Full, Capacity
    <3> QED BY <3>1, <3>2
  <2>3. Level' = [k \in Clients |-> Buckets!Capped(Level[k] + 1)]
    <3>1. Level' = [k \in Clients |-> Level'[k]]
      BY DEF Level
    <3> QED BY <3>1, <2>2
  <2> QED BY <2>1, <2>3 DEF Buckets!BucketsNext, Buckets!Refill
<1>2. ASSUME NEW k \in Clients, allow(k)
      PROVE Buckets!Grant(k) \/ Buckets!Deny(k)
  <2>1. /\ verdict' = [client |-> k, allowed |-> Level[k] >= TokenInterval]
        /\ Level' = IF Level[k] >= TokenInterval
                    THEN [Level EXCEPT ![k] = @ - TokenInterval] ELSE Level
    BY <1>2, LevelsAfterRequest
  <2>2. CASE Level[k] >= TokenInterval
    BY <2>1, <2>2 DEF Buckets!Grant, Buckets!Answer
  <2>3. CASE ~(Level[k] >= TokenInterval)
    <3>1. Level[k] \in Nat /\ TokenInterval \in Nat
      <4>1. Left(BucketOf(k)) = Level[k] /\ BucketOf(k) \in Entry
            /\ BucketOf(k).refilled <= BucketOf(k).lastSeen /\ BucketOf(k).lastSeen <= clock
        BY BucketHoldsLevel
      <4>2. BucketOf(k).refilled <= clock
        <5>1. BucketOf(k).refilled \in Nat /\ BucketOf(k).lastSeen \in Nat /\ clock \in Nat
          BY <4>1, LimiterAssumption DEF Entry, LimiterTypeOK
        <5> QED BY <5>1, <4>1
      <4> QED BY <4>1, <4>2, LeftBounds, FullInTime
    <3>2. Level[k] < TokenInterval
      BY <3>1, <2>3
    <3>3. verdict' = Buckets!Answer(k, FALSE)
      <4>1. (Level[k] >= TokenInterval) = FALSE
        BY <2>3
      <4> QED BY <4>1, <2>1, Zenon DEF Buckets!Answer
    <3>4. Level' = Level
      BY <2>1, <2>3
    <3> QED BY <3>2, <3>3, <3>4 DEF Buckets!Deny
  <2> QED BY <2>2, <2>3
<1>3. CASE UNCHANGED limiterVars
  BY <1>3 DEF limiterVars, Level, Left, Capacity, TokenInterval
<1> QED BY <1>1, <1>2, <1>3 DEF LimiterNext, Buckets!BucketsNext

\* Clock and buckets of the rate limiter always have their types.
THEOREM LimiterTypes == LimiterSpec => []LimiterTypeOK
<1>1. LimiterInit => LimiterTypeOK
  BY LimiterAssumption DEF LimiterInit, LimiterTypeOK
<1> QED BY <1>1, LimiterTypeStep, PTL DEF LimiterSpec

\* For every number of clients, every window and every cap on the entries, the
\* limiter answers as token buckets that are never thrown away would
\* (ratelimit.go, allow).
THEOREM LimiterImplementsBuckets == LimiterSpec => ImplementsBuckets
<1>1. LimiterInit => Buckets!BucketsInit
  <2> SUFFICES ASSUME LimiterInit PROVE Buckets!BucketsInit
    OBVIOUS
  <2>1. Level = [k \in Clients |-> Capacity]
    BY DEF LimiterInit, Level
  <2> QED BY <2>1 DEF LimiterInit, Buckets!BucketsInit, Buckets!Full, Capacity
<1>2. LimiterTypeOK /\ [LimiterNext]_limiterVars => [Buckets!BucketsNext]_<<Level, verdict>>
  BY LimiterStep
<1> QED BY <1>1, <1>2, LimiterTypes, PTL
          DEF LimiterSpec, ImplementsBuckets, Buckets!BucketsSpec, Buckets!bucketsVars
-------------------------------------------------------------------------------
(* The migration runner.                                                   *)

\* What an Up believes applied, was: and unless someone went down, still is.
MigrationsInv ==
  /\ MigrationsTypeOK
  /\ recorded = schema
  /\ \A p \in Needs : p[1] \in schema => p[2] \in schema
  /\ ~undone =>
       /\ \A v \in schema, w \in Versions : w < v => w \in schema
       /\ \A r \in Runners :
            runner[r] # Idle /\ runner[r].op = "up" => runner[r].applied \subseteq schema

\* Runs overlap, fail and die, and the invariant stays.
LEMMA MigrationsStep ==
  ASSUME MigrationsInv, [MigrationsNext]_migrationsVars
  PROVE  MigrationsInv'
<1> USE DEF MigrationsInv, MigrationsTypeOK
<1>1. ASSUME NEW r \in Runners, UpRead(r) PROVE MigrationsInv'
  <2>1. [op |-> "up", applied |-> recorded] \in Run
    BY DEF Run
  <2> QED BY <1>1, <2>1 DEF UpRead
<1>2. ASSUME NEW r \in Runners, UpApply(r) PROVE MigrationsInv'
  <2>1. /\ runner[r] # Idle /\ runner[r].op = "up" /\ undone' = undone
        /\ runner[r] \in [op : {"up"}, applied : SUBSET Versions]
    BY <1>2 DEF UpApply, Run
  <2>2. PICK v \in Versions :
          /\ IsNext(r, v)
          /\ \A p \in Needs : p[1] = v => p[2] \in schema
          /\ schema' = schema \cup {v} /\ recorded' = recorded \cup {v}
          /\ \/ runner' = [runner EXCEPT ![r].applied = @ \cup {v}]
             \/ runner' = [runner EXCEPT ![r] = Idle]
    BY <1>2 DEF UpApply, Recorded
  <2>3. runner' \in [Runners -> Run \cup {Idle}]
    BY <2>1, <2>2 DEF Run
  <2>4. ASSUME ~undone, NEW w \in Versions, w < v PROVE w \in schema
    <3>1. w \in Nat /\ v \in Nat
      BY MigrationsAssumption
    <3>2. w \notin Pending(r)
      BY <2>2, <2>4, <3>1 DEF IsNext
    <3> QED BY <2>1, <2>4, <3>2 DEF Pending
  <2>5. ASSUME ~undone, NEW q \in Runners, runner'[q] # Idle, runner'[q].op = "up"
        PROVE runner'[q].applied \subseteq schema'
    <3>1. CASE q = r
      <4>1. runner' = [runner EXCEPT ![r].applied = @ \cup {v}]
        BY <2>2, <2>5, <3>1
      <4>2. runner'[r].applied = runner[r].applied \cup {v}
        BY <2>1, <4>1
      <4> QED BY <2>1, <2>2, <2>5, <3>1, <4>2
    <3>2. CASE q # r
      BY <2>2, <2>5, <3>2
    <3> QED BY <3>1, <3>2
  <2> QED BY <2>1, <2>2, <2>3, <2>4, <2>5
<1>3. ASSUME NEW r \in Runners, Stop(r) PROVE MigrationsInv'
  BY <1>3 DEF Stop
<1>4. ASSUME NEW r \in Runners, DownRead(r) PROVE MigrationsInv'
  <2>1. PICK v \in recorded : runner' = [runner EXCEPT ![r] = [op |-> "down", version |-> v]]
    BY <1>4 DEF DownRead
  <2>2. [op |-> "down", version |-> v] \in Run
    BY <2>1 DEF Run
  <2> QED BY <1>4, <2>1, <2>2 DEF DownRead
<1>5. ASSUME NEW r \in Runners, DownApply(r) PROVE MigrationsInv'
  BY <1>5 DEF DownApply
<1>6. CASE UNCHANGED migrationsVars
  BY <1>6 DEF migrationsVars
<1> QED BY <1>1, <1>2, <1>3, <1>4, <1>5, <1>6 DEF MigrationsNext

\* Schema, record and the locals of runs have their types.
THEOREM MigrationTypes == MigrationsSpec => []MigrationsTypeOK
<1>1. MigrationsInit => MigrationsInv
  BY DEF MigrationsInit, MigrationsInv, MigrationsTypeOK
<1>2. MigrationsInv => MigrationsTypeOK
  BY DEF MigrationsInv
<1> QED BY <1>1, <1>2, MigrationsStep, PTL DEF MigrationsSpec

\* For any set of migrations and any number of overlapping, failing and dying
\* runs the record is what the schema holds, tables find those they refer to,
\* and without a Down the migrations applied are the first ones (migrate.go).
THEOREM MigrationsRecordTheSchema == MigrationsSpec => []SchemaIsRecorded
<1>1. MigrationsInit => MigrationsInv
  BY DEF MigrationsInit, MigrationsInv, MigrationsTypeOK
<1>2. MigrationsInv => SchemaIsRecorded
  BY DEF MigrationsInv, SchemaIsRecorded
<1> QED BY <1>1, <1>2, MigrationsStep, PTL DEF MigrationsSpec

-------------------------------------------------------------------------------
(* The photos of an attendance.                                            *)

\* Where the photos of an upload are at each of its steps.
PhotosOf(u) ==
  /\ upload[u] \in {"original", "stored"} => Original(u) \in objects
  /\ upload[u] = "stored" => Watermarked(u) \in objects
  /\ u \in kept => upload[u] \in {"cleanup", "cleanup2", "over"}
  /\ u \in kept \ unheard =>
       upload[u] = "over" /\ {Original(u), Watermarked(u)} \subseteq objects
  /\ u \notin faulty =>
       /\ upload[u] \in {"start", "cleanup2"} => Original(u) \notin objects
       /\ upload[u] \in {"start", "original", "drop"} => Watermarked(u) \notin objects
       /\ upload[u] = "over" =>
            u \in kept \/ (Original(u) \notin objects /\ Watermarked(u) \notin objects)

EvidenceInv ==
  /\ EvidenceTypeOK
  /\ \A u \in Uploads : PhotosOf(u)

\* No upload touches the photos of another: keys are generated.
LEMMA EvidenceStep ==
  ASSUME EvidenceInv, [EvidenceNext]_evidenceVars
  PROVE  EvidenceInv'
<1> USE DEF EvidenceInv, EvidenceTypeOK, PhotosOf, Original, Watermarked, evidenceKey, MoveTo, Steps
<1>1. ASSUME NEW u \in Uploads, PutOriginal(u) PROVE EvidenceInv'
  BY <1>1 DEF PutOriginal, Put
<1>2. ASSUME NEW u \in Uploads, PutWatermarked(u) PROVE EvidenceInv'
  BY <1>2 DEF PutWatermarked, Put
<1>3. ASSUME NEW u \in Uploads, RenderFails(u) PROVE EvidenceInv'
  BY <1>3 DEF RenderFails
<1>4. ASSUME NEW u \in Uploads, DropOriginal(u) PROVE EvidenceInv'
  BY <1>4 DEF DropOriginal, Delete
<1>5. ASSUME NEW u \in Uploads, CommitRow(u) PROVE EvidenceInv'
  BY <1>5 DEF CommitRow
<1>6. ASSUME NEW u \in Uploads, RollbackRow(u) PROVE EvidenceInv'
  BY <1>6 DEF RollbackRow
<1>7. ASSUME NEW u \in Uploads, CleanupOriginal(u) PROVE EvidenceInv'
  BY <1>7 DEF CleanupOriginal, Delete
<1>8. ASSUME NEW u \in Uploads, CleanupWatermarked(u) PROVE EvidenceInv'
  BY <1>8 DEF CleanupWatermarked, Delete
<1>9. ASSUME NEW u \in Uploads, Die(u) PROVE EvidenceInv'
  BY <1>9 DEF Die
<1>10. CASE UNCHANGED evidenceVars
  BY <1>10 DEF evidenceVars
<1> QED BY <1>1, <1>2, <1>3, <1>4, <1>5, <1>6, <1>7, <1>8, <1>9, <1>10 DEF EvidenceNext

\* The bucket holds photos of uploads only, and calls are at one of their steps.
THEOREM EvidenceTypes == EvidenceSpec => []EvidenceTypeOK
<1>1. EvidenceInit => EvidenceInv
  BY DEF EvidenceInit, EvidenceInv, EvidenceTypeOK, PhotosOf, Steps
<1>2. EvidenceInv => EvidenceTypeOK
  BY DEF EvidenceInv
<1> QED BY <1>1, <1>2, EvidenceStep, PTL DEF EvidenceSpec

\* Whatever sends of an action race, fail or die, a row keeps its photos unless
\* its COMMIT was not heard of, and nothing else stays in the bucket unless the
\* store failed or the server died (evidence_service.go:1-3).
THEOREM PhotosStayWithTheirRow == EvidenceSpec => []PhotosFollowTheRows
<1>1. EvidenceInit => EvidenceInv
  BY DEF EvidenceInit, EvidenceInv, EvidenceTypeOK, PhotosOf, Steps
<1>2. EvidenceInv => PhotosFollowTheRows
  <2> SUFFICES ASSUME EvidenceInv PROVE PhotosFollowTheRows
    OBVIOUS
  <2>1. upload \in [Uploads -> Steps] /\ kept \subseteq Uploads
    BY DEF EvidenceInv, EvidenceTypeOK
  <2>2. \A u \in kept \ unheard : {Original(u), Watermarked(u)} \subseteq objects
    BY <2>1 DEF EvidenceInv, PhotosOf
  <2>3. \A u \in Uploads :
          upload[u] = "over" /\ {Original(u), Watermarked(u)} \cap objects # {} =>
            u \in kept \cup faulty
    BY <2>1 DEF EvidenceInv, PhotosOf
  <2> QED BY <2>2, <2>3 DEF PhotosFollowTheRows
<1> QED BY <1>1, <1>2, EvidenceStep, PTL DEF EvidenceSpec

-------------------------------------------------------------------------------
(* The reminders.                                                          *)

\* What a run in flight has inserted and not committed.
Uncommitted(j) == IF job[j] = NotRunning THEN {} ELSE job[j].inserted

\* What is told was counted once; what runs in flight inserted is not told yet.
OnceEach ==
  /\ \A j \in Jobs : job[j] # NotRunning => counted[j] = {}
  /\ \A j \in Jobs, e \in Events : e \in Uncommitted(j) => notices[e] = "none"
  /\ \A i, j \in Jobs, e \in Events : e \in Uncommitted(i) /\ e \in Uncommitted(j) => i = j
  /\ \A e \in Events :
       notices[e] # "none" <=> e \in unreported \/ \E j \in Jobs : e \in counted[j]
  /\ \A e \in Events, j \in Jobs : ~(e \in unreported /\ e \in counted[j])
  /\ \A i, j \in Jobs, e \in Events : e \in counted[i] /\ e \in counted[j] => i = j

RemindersInv == RemindersTypeOK /\ OnceEach

\* A step keeps the types of tables and locals.
LEMMA RemindersTypeStep ==
  ASSUME RemindersTypeOK, [RemindersNext]_remindersVars
  PROVE  RemindersTypeOK'
<1> USE DEF RemindersTypeOK
<1>1. ASSUME NEW j \in Jobs, Begin(j) PROVE RemindersTypeOK'
  <2>1. [kind |-> 0, todo |-> {}, inserted |-> {}] \in Job
    BY DEF Job
  <2> QED BY <1>1, <2>1 DEF Begin
<1>2. ASSUME NEW j \in Jobs, Select(j) PROVE RemindersTypeOK'
  <2> DEFINE k == job[j].kind + 1
             found == {e \in due : KindOf[e] = k}
             row == [kind |-> k, todo |-> found, inserted |-> job[j].inserted]
  <2>1. job[j] \in Job /\ job[j].kind < 3
    BY <1>2 DEF Select, Active
  <2>2. k \in 0 .. 3 /\ found \subseteq Events /\ job[j].inserted \subseteq Events
    BY <2>1 DEF Job
  <2>3. row \in Job
    BY <2>2 DEF Job
  <2>4. job' = [job EXCEPT ![j] = row]
    BY <1>2 DEF Select
  <2> QED BY <1>2, <2>3, <2>4 DEF Select
<1>3. ASSUME NEW j \in Jobs, NEW e \in Events, Insert(j, e) PROVE RemindersTypeOK'
  BY <1>3 DEF Insert, Active, Job
<1>4. ASSUME NEW j \in Jobs, Commit(j) PROVE RemindersTypeOK'
  <2>1. job[j].inserted \subseteq Events
    BY <1>4 DEF Commit, Active, Job
  <2>2. CASE counted' = [counted EXCEPT ![j] = job[j].inserted] /\ UNCHANGED unreported
    BY <1>4, <2>1, <2>2 DEF Commit
  <2>3. CASE unreported' = unreported \cup job[j].inserted /\ UNCHANGED counted
    BY <1>4, <2>1, <2>3 DEF Commit
  <2> QED BY <1>4, <2>2, <2>3 DEF Commit
<1>5. ASSUME NEW j \in Jobs, Rollback(j) PROVE RemindersTypeOK'
  BY <1>5 DEF Rollback
<1>6. ASSUME NEW e \in Events, DueChanges(e) PROVE RemindersTypeOK'
  BY <1>6 DEF DueChanges
<1>7. ASSUME NEW e \in Events, MarkRead(e) PROVE RemindersTypeOK'
  BY <1>7 DEF MarkRead
<1>8. CASE MarkAllRead
  BY <1>8 DEF MarkAllRead
<1>9. CASE UNCHANGED remindersVars
  BY <1>9 DEF remindersVars
<1> QED BY <1>1, <1>2, <1>3, <1>4, <1>5, <1>6, <1>7, <1>8, <1>9 DEF RemindersNext

\* The index makes overlapping runs wait for, or skip, what another inserted.
LEMMA RemindersStep ==
  ASSUME RemindersInv, [RemindersNext]_remindersVars
  PROVE  OnceEach'
<1> USE DEF RemindersInv, RemindersTypeOK, OnceEach
<1>1. ASSUME NEW j \in Jobs, Begin(j) PROVE OnceEach'
  <2>1. \A i \in Jobs : Uncommitted(i)' = Uncommitted(i)
    BY <1>1 DEF Begin, Uncommitted
  <2> QED BY <1>1, <2>1 DEF Begin
<1>2. ASSUME NEW j \in Jobs, Select(j) PROVE OnceEach'
  <2>1. \A i \in Jobs :
          Uncommitted(i)' = Uncommitted(i) /\ (job[i] = NotRunning => job'[i] = NotRunning)
    <3> DEFINE k == job[j].kind + 1
               row == [kind |-> k, todo |-> {e \in due : KindOf[e] = k},
                       inserted |-> job[j].inserted]
    <3>1. job[j] \in Job /\ job[j] # NotRunning /\ job[j].kind < 3
      BY <1>2 DEF Select, Active
    <3>2. row \in Job
      BY <3>1 DEF Job
    <3>3. row # NotRunning
      BY <3>2, RemindersAssumption
    <3>4. job' = [job EXCEPT ![j] = row]
      BY <1>2 DEF Select
    <3> QED BY <3>1, <3>3, <3>4 DEF Uncommitted
  <2> QED BY <1>2, <2>1 DEF Select, Active
<1>3. ASSUME NEW j \in Jobs, NEW e \in Events, Insert(j, e) PROVE OnceEach'
  <2>1. /\ job[j] # NotRunning
        /\ \A i \in Jobs \ {j} : e \notin Uncommitted(i)
        /\ UNCHANGED <<notices, counted, unreported>>
    BY <1>3 DEF Insert, Held, Active, Uncommitted
  <2>2. \A i \in Jobs : job[i] = NotRunning => job'[i] = NotRunning
    BY <1>3, <2>1 DEF Insert
  <2>3. \A i \in Jobs \ {j} : Uncommitted(i)' = Uncommitted(i)
    BY <1>3 DEF Insert, Uncommitted
  <2>6. /\ job'[j] # NotRunning
        /\ job'[j].inserted = job[j].inserted \cup (IF Told(e) THEN {} ELSE {e})
    <3> DEFINE row == [kind |-> job[j].kind, todo |-> job[j].todo \ {e},
                       inserted |-> job[j].inserted \cup (IF Told(e) THEN {} ELSE {e})]
    <3>1. job[j] \in Job
      BY <2>1
    <3>2. row \in Job
      BY <3>1 DEF Job
    <3>3. job' = [job EXCEPT ![j] = row]
      BY <1>3 DEF Insert
    <3> QED BY <3>2, <3>3, RemindersAssumption
  <2>4. CASE Told(e)
    <3>1. Uncommitted(j)' = Uncommitted(j)
      BY <2>1, <2>4, <2>6 DEF Uncommitted
    <3> QED BY <2>1, <2>2, <2>3, <3>1
  <2>5. CASE ~Told(e)
    <3>1. Uncommitted(j)' = Uncommitted(j) \cup {e}
      BY <2>1, <2>5, <2>6 DEF Uncommitted
    <3>2. notices[e] = "none"
      BY <2>5 DEF Told
    <3> QED BY <2>1, <2>2, <2>3, <3>1, <3>2
  <2> QED BY <2>4, <2>5
<1>4. ASSUME NEW j \in Jobs, Commit(j) PROVE OnceEach'
  <2> DEFINE new == Uncommitted(j)
  <2>1. job[j] # NotRunning /\ new = job[j].inserted /\ counted[j] = {} /\ new \subseteq Events
    BY <1>4 DEF Commit, Active, Uncommitted, Job
  <2>2. /\ job' = [job EXCEPT ![j] = NotRunning]
        /\ \A e \in Events : notices'[e] = IF e \in new THEN "unread" ELSE notices[e]
    BY <1>4, <2>1 DEF Commit
  <2>3. \A e \in new : notices[e] = "none"
    BY <2>1
  <2>4. Uncommitted(j)' = {} /\ \A i \in Jobs \ {j} : Uncommitted(i)' = Uncommitted(i)
    BY <2>2 DEF Uncommitted
  <2>5. \A i \in Jobs \ {j}, e \in Events : e \in Uncommitted(i) => e \notin new
    OBVIOUS
  <2>6. /\ \A e \in new : e \notin unreported /\ \A i \in Jobs : e \notin counted[i]
    BY <2>1, <2>3
  <2> HIDE DEF new
  <2>7. CASE counted' = [counted EXCEPT ![j] = new] /\ unreported' = unreported
    BY <2>1, <2>2, <2>4, <2>5, <2>6, <2>7
  <2>8. CASE unreported' = unreported \cup new /\ counted' = counted
    BY <2>1, <2>2, <2>4, <2>5, <2>6, <2>8
  <2> QED BY <1>4, <2>1, <2>7, <2>8 DEF Commit
<1>5. ASSUME NEW j \in Jobs, Rollback(j) PROVE OnceEach'
  <2>1. \A i \in Jobs : Uncommitted(i)' = IF i = j THEN {} ELSE Uncommitted(i)
    BY <1>5 DEF Rollback, Uncommitted
  <2> QED BY <1>5, <2>1 DEF Rollback
<1>6. ASSUME NEW e \in Events, DueChanges(e) PROVE OnceEach'
  BY <1>6 DEF DueChanges, Uncommitted
<1>7. ASSUME NEW e \in Events, MarkRead(e) PROVE OnceEach'
  <2>1. \A d \in Events : notices'[d] = "none" <=> notices[d] = "none"
    BY <1>7 DEF MarkRead
  <2> QED BY <1>7, <2>1 DEF MarkRead, Uncommitted
<1>8. CASE MarkAllRead
  <2>1. \A d \in Events : notices'[d] = "none" <=> notices[d] = "none"
    BY <1>8 DEF MarkAllRead
  <2> QED BY <1>8, <2>1 DEF MarkAllRead, Uncommitted
<1>9. CASE UNCHANGED remindersVars
  BY <1>9 DEF remindersVars, Uncommitted
<1> QED BY <1>1, <1>2, <1>3, <1>4, <1>5, <1>6, <1>7, <1>8, <1>9 DEF RemindersNext

\* The first state, and every step.
LEMMA RemindersInvariance == RemindersSpec => []RemindersInv
<1>1. RemindersInit => RemindersInv
  BY RemindersAssumption DEF RemindersInit, RemindersInv, RemindersTypeOK, OnceEach, Uncommitted
<1>2. RemindersInv /\ [RemindersNext]_remindersVars => RemindersInv'
  BY RemindersStep, RemindersTypeStep DEF RemindersInv
<1> QED BY <1>1, <1>2, PTL DEF RemindersSpec

\* Only events become due, and tables and locals have their types.
THEOREM ReminderTypes == RemindersSpec => []RemindersTypeOK
<1>1. RemindersInv => RemindersTypeOK
  BY DEF RemindersInv
<1> QED BY <1>1, RemindersInvariance, PTL

\* For any events and any number of runs, however they overlap and fail, each
\* notification is reported by one run only and none is missing or repeated
\* (reminders.go:1-3, notifications.go CreateTx).
THEOREM RemindersTellOnce == RemindersSpec => []EachEventIsToldOnce
<1>1. RemindersInv => EachEventIsToldOnce
  <2> SUFFICES ASSUME RemindersInv PROVE EachEventIsToldOnce
    OBVIOUS
  <2>1. {e \in Events : notices[e] # "none"} = (UNION {counted[j] : j \in Jobs}) \cup unreported
    <3>1. ASSUME NEW e \in Events PROVE notices[e] # "none" <=>
                 e \in (UNION {counted[j] : j \in Jobs}) \cup unreported
      BY DEF RemindersInv, OnceEach
    <3>2. (UNION {counted[j] : j \in Jobs}) \cup unreported \subseteq Events
      BY DEF RemindersInv, RemindersTypeOK
    <3> QED BY <3>1, <3>2
  <2> QED BY <2>1 DEF RemindersInv, RemindersTypeOK, OnceEach, EachEventIsToldOnce
<1> QED BY <1>1, RemindersInvariance, PTL
================================================================================
