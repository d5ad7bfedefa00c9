---------------------------- MODULE Enrolment_proofs ----------------------------
(***************************************************************************)
(* Proofs about Enrolment, for every number of calls, coordinators, import *)
(* tokens and people, uploads of any length and any staging limit.         *)
(***************************************************************************)
EXTENDS Enrolment, FiniteSetTheorems, SequenceTheorems, TLAPS

-------------------------------------------------------------------------------
(* The rows that ParseAndValidate keeps.                                   *)

\* Rows with different addresses and different student numbers.
Distinct(list) ==
  \A i, j \in DOMAIN list :
    i # j => list[i].email # list[j].email /\ list[i].number # list[j].number

\* A set of numbers that is not empty has a least one.
LEMMA LeastNumber ==
  ASSUME NEW T \in SUBSET Nat, T # {}
  PROVE  \E n \in T : \A m \in T : n <= m
<1>1. PICK n \in T : \A m \in T : <<m, n>> \notin OpToRel(<, Nat)
  BY WFMin, NatLessThanWellFounded, Zenon
<1>2. \A m \in T : ~(m < n)
  BY <1>1, Zenon DEF OpToRel
<1> QED  BY <1>2

\* A finite set of numbers can be counted off: it has a k-th member, for every k.
LEMMA Counting ==
  ASSUME NEW n \in Nat, NEW S \in SUBSET (1 .. n), NEW k \in 1 .. Cardinality(S)
  PROVE  \E i \in S : Cardinality({j \in S : j <= i}) = k
<1> DEFINE Upto(i) == {j \in S : j <= i}
<1>0. \A j \in S : j \in Nat /\ 1 <= j /\ j <= n
  OBVIOUS
<1>1. IsFiniteSet(S)
  <2>1. IsFiniteSet(1 .. n)
    BY FS_Interval
  <2> QED  BY <2>1, FS_Subset
<1>2. ASSUME NEW i \in Nat
      PROVE  IsFiniteSet(Upto(i)) /\ Cardinality(Upto(i)) \in Nat
  BY <1>1, FS_Subset, FS_CardinalityType
<1>3. Upto(0) = {} /\ Upto(n) = S
  <2>1. \A j \in S : j <= n /\ ~(j <= 0)
    BY <1>0
  <2>2. {j \in S : j <= 0} = {}
    BY <2>1
  <2>3. {j \in S : j <= n} = S
    BY <2>1
  <2> QED  BY <2>2, <2>3
<1>4. ASSUME NEW i \in Nat
      PROVE  Upto(i + 1) = IF i + 1 \in S THEN Upto(i) \cup {i + 1} ELSE Upto(i)
  <2>1. \A j \in S : j <= i + 1 <=> j <= i \/ j = i + 1
    BY <1>0
  <2>2. CASE i + 1 \in S
    BY <2>1, <2>2
  <2>3. CASE i + 1 \notin S
    BY <2>1, <2>3
  <2> QED  BY <2>2, <2>3
<1>5. ASSUME NEW i \in Nat
      PROVE  Cardinality(Upto(i + 1)) =
               IF i + 1 \in S THEN Cardinality(Upto(i)) + 1 ELSE Cardinality(Upto(i))
  <2>1. i + 1 \notin Upto(i)
    OBVIOUS
  <2>2. IsFiniteSet(Upto(i))
    BY <1>2
  <2> HIDE DEF Upto
  <2>3. Cardinality(Upto(i) \cup {i + 1}) = Cardinality(Upto(i)) + 1
    BY <2>1, <2>2, FS_AddElement, Zenon
  <2>4. CASE i + 1 \in S
    BY <1>4, <2>3, <2>4, Zenon
  <2>5. CASE i + 1 \notin S
    BY <1>4, <2>5, Zenon
  <2> QED  BY <2>4, <2>5, Zenon
<1>6. Cardinality(Upto(0)) = 0 /\ Cardinality(Upto(n)) >= k
  <2>1. Cardinality(S) \in Nat
    BY <1>1, FS_CardinalityType
  <2>2. Cardinality(S) >= k
    BY <2>1
  <2> QED  BY <1>3, <2>2, FS_EmptySet
<1> DEFINE T == {i \in Nat : Cardinality(Upto(i)) >= k}
<1>7. PICK m \in T : \A i \in T : m <= i
  <2>1. n \in T
    BY <1>6
  <2> QED  BY <2>1, LeastNumber
<1>8. m \in Nat /\ m # 0
  BY <1>6
<1>9. m - 1 \in Nat /\ Cardinality(Upto(m - 1)) < k
  <2>1. m - 1 \in Nat /\ m - 1 \notin T
    <3>1. m - 1 \in Nat /\ ~(m <= m - 1)
      BY <1>8
    <3> HIDE DEF T
    <3> QED  BY <1>7, <3>1
  <2>2. Cardinality(Upto(m - 1)) \in Nat
    BY <1>2, <2>1
  <2> HIDE DEF Upto
  <2> QED  BY <2>1, <2>2
<1>10. Cardinality(Upto(m)) = k /\ m \in S
  <2>1. (m - 1) + 1 = m
    BY <1>8
  <2>2. Cardinality(Upto(m)) = IF m \in S THEN Cardinality(Upto(m - 1)) + 1
                               ELSE Cardinality(Upto(m - 1))
    BY <1>5, <1>9, <2>1
  <2>3. Cardinality(Upto(m - 1)) \in Nat /\ Cardinality(Upto(m)) >= k
    BY <1>2, <1>9
  <2> HIDE DEF Upto
  <2> QED  BY <1>9, <2>2, <2>3
<1> QED  BY <1>10

\* What an upload is staged as: a list of people, no two of them with an address
\* or a student number in common.
LEMMA ValidatedRows ==
  ASSUME NEW file \in Files, NEW checked \in BOOLEAN
  PROVE  /\ ParseAndValidate(file, checked) \in Seq(Person)
         /\ Distinct(ParseAndValidate(file, checked))
<1> DEFINE valid == {i \in DOMAIN file : ValidRow(file, i, checked)}
           nth(k) == CHOOSE i \in valid : Cardinality({j \in valid : j <= i}) = k
           row(k) == [email |-> file[nth(k)].email, number |-> file[nth(k)].number]
           len == Cardinality(valid)
<1>1. /\ Len(file) \in Nat
      /\ DOMAIN file = 1 .. Len(file)
      /\ \A i \in DOMAIN file : file[i] \in CsvRow
  BY EnrolmentAssumption
<1>2. IsFiniteSet(valid) /\ len \in Nat
  <2>1. IsFiniteSet(1 .. Len(file))
    BY <1>1, FS_Interval
  <2>2. valid \in SUBSET (1 .. Len(file))
    BY <1>1
  <2> HIDE DEF valid
  <2> QED  BY <2>1, <2>2, FS_Subset, FS_CardinalityType
<1>3. ASSUME NEW k \in 1 .. len
      PROVE  nth(k) \in valid /\ Cardinality({j \in valid : j <= nth(k)}) = k
  <2>1. \E i \in valid : Cardinality({j \in valid : j <= i}) = k
    <3>1. valid \in SUBSET (1 .. Len(file))
      BY <1>1
    <3> HIDE DEF valid
    <3> QED  BY <1>1, <3>1, Counting
  <2> HIDE DEF valid
  <2> QED  BY <2>1
<1>4. ASSUME NEW k \in 1 .. len
      PROVE  /\ row(k) \in Person /\ file[nth(k)].readable
             /\ row(k).email = file[nth(k)].email
             /\ row(k).number = file[nth(k)].number
  <2>1. nth(k) \in DOMAIN file /\ ValidRow(file, nth(k), checked)
    BY <1>3
  <2> HIDE DEF nth
  <2> QED  BY <1>1, <2>1 DEF ValidRow, Person, CsvRow
<1>5. ParseAndValidate(file, checked) = [k \in 1 .. len |-> row(k)]
  BY DEF ParseAndValidate
<1>6. [k \in 1 .. len |-> row(k)] \in Seq(Person)
  <2>1. [k \in 1 .. len |-> row(k)] \in [1 .. len -> Person]
    <3> HIDE DEF row, len
    <3> QED  BY <1>4
  <2> HIDE DEF row, len
  <2> QED  BY <1>2, <2>1, SeqDef
<1>7. ASSUME NEW k \in 1 .. len, NEW l \in 1 .. len, nth(k) < nth(l)
      PROVE  row(k).email # row(l).email /\ row(k).number # row(l).number
  <2>1. nth(k) \in DOMAIN file /\ nth(l) \in DOMAIN file
    BY <1>3
  <2>2. nth(k) \in 1 .. nth(l) - 1
    BY <1>1, <1>7, <2>1
  <2>3. ~Repeats(file, nth(l), "email") /\ ~Repeats(file, nth(l), "number")
    BY <1>3 DEF ValidRow
  <2>4. file[nth(k)].email # file[nth(l)].email /\ file[nth(k)].number # file[nth(l)].number
    <3>1. file[nth(k)].readable
      BY <1>4
    <3> HIDE DEF nth
    <3> QED  BY <2>2, <2>3, <3>1 DEF Repeats
  <2> QED  BY <1>4, <2>4
<1>8. ASSUME NEW k \in 1 .. len, NEW l \in 1 .. len, k # l
      PROVE  row(k).email # row(l).email /\ row(k).number # row(l).number
  <2>1. nth(k) # nth(l)
    BY <1>3, <1>8
  <2>2. nth(k) \in Nat /\ nth(l) \in Nat
    <3>1. nth(k) \in valid /\ nth(l) \in valid
      BY <1>3
    <3> HIDE DEF nth
    <3> QED  BY <1>1, <3>1
  <2>3. nth(k) < nth(l) \/ nth(l) < nth(k)
    <3> HIDE DEF nth
    <3> QED  BY <2>1, <2>2
  <2> QED  BY <1>7, <2>3
<1>9. Distinct([k \in 1 .. len |-> row(k)])
  <2> HIDE DEF row, len
  <2> QED  BY <1>8 DEF Distinct
<1> QED  BY <1>5, <1>6, <1>9

-------------------------------------------------------------------------------
(* The inductive invariant.                                                *)

EnrolTask ==
  [op : {"enrol"}, rows : Seq(Person), creator : Staff, origin : Tokens \cup {Manual},
   users : SUBSET Addresses, profiles : SUBSET Profile,
   scopes : SUBSET (Coordinators \X Numbers)]
ScopeTask ==
  [op : {"scope"}, coordinator : Coordinators, list : SUBSET Numbers,
   marked : SUBSET Numbers, new : SUBSET Numbers, pc : {"delete", "insert", "commit"}]

\* Profiles without what is recorded of their making.
People(ps) == {[email |-> p.email, number |-> p.number] : p \in ps}

\* What a transaction has inserted belongs together, collides with no row that
\* is committed, and its people still to come have other addresses.
Whole(t) ==
  /\ \A p \in t.profiles :
       /\ p.email \in t.users /\ p.number \notin Taken
       /\ p.creator = t.creator /\ p.origin = t.origin
       /\ p.creator \in Coordinators => <<p.creator, p.number>> \in t.scopes
       /\ \A i \in DOMAIN t.rows : t.rows[i].email # p.email
  /\ \A p, q \in t.profiles : p.email = q.email \/ p.number = q.number => p = q
  /\ \A s \in t.scopes : \E p \in t.profiles : p.number = s[2]
  /\ t.users \cap users = {}
  /\ Distinct(t.rows)

WritesAreWhole == \A w \in Doing("enrol") : Whole(task[w])

\* Two transactions have inserted no address and no student number in common.
Apart(t, u) ==
  /\ t.users \cap u.users = {}
  /\ \A p \in t.profiles, q \in u.profiles : p.number # q.number

NumbersApart == \A v, w \in Doing("enrol") : v # w => Apart(task[v], task[w])

\* A scope update names trainees there are.
OfTrainees(t) == t.list \cup t.marked \cup t.new \subseteq Taken

ListsAreOfTrainees == \A w \in Doing("scope") : OfTrainees(task[w])

\* Nothing has come of the import of this token, and nothing was said of it.
Untold(token) == Imported(token) = {} /\ answer[token] = "none"

\* A transaction that imports has, done and to do, the people of its snapshot.
Importing(t) ==
  t.origin \in Tokens =>
    /\ Untold(t.origin)
    /\ snapshot[t.origin] \notin {Missing, <<>>}
    /\ People(t.profiles) \cup PeopleOf(t.rows) = PeopleOf(snapshot[t.origin])

\* A token is unused, staged, in one transaction, or used.
OnePlace ==
  /\ \A token \in Tokens : snapshot[token] = Missing => Untold(token)
  /\ \A token \in Tokens : staged[token] # Missing =>
       /\ snapshot[token] = staged[token].rows /\ Untold(token)
       /\ Distinct(staged[token].rows)
       /\ \A w \in Doing("enrol") : task[w].origin # token
  /\ \A w \in Doing("enrol") : Importing(task[w])
  /\ \A v, w \in Doing("enrol") :
       task[v].origin \in Tokens /\ task[v].origin = task[w].origin => v = w

EInv ==
  /\ EnrolmentTypeOK
  /\ WritesAreWhole
  /\ NumbersApart
  /\ ListsAreOfTrainees
  /\ OnePlace
  /\ BatchIsAllOrNothing
  /\ ImportAnswersAreTrue
  /\ EnrolledIsWhole

-------------------------------------------------------------------------------
(* Values.                                                                 *)

\* A transaction is an enrolment or a scope update, and not idle.
LEMMA TaskKinds ==
  /\ Task = EnrolTask \cup ScopeTask /\ Missing \notin Task
  /\ \A t \in Task : t.op = "enrol" => t \in EnrolTask
  /\ \A t \in Task : t.op = "scope" => t \in ScopeTask
  /\ \A t \in EnrolTask : t.op = "enrol"
  /\ \A t \in ScopeTask : t.op = "scope"
<1>1. Task = EnrolTask \cup ScopeTask
  BY DEF Task, EnrolTask, ScopeTask
<1>2. /\ \A t \in EnrolTask : t.op = "enrol"
      /\ \A t \in ScopeTask : t.op = "scope"
  BY DEF EnrolTask, ScopeTask
<1> QED  BY <1>1, <1>2, MissingAssumption

\* The transactions of the calls in flight have their types.
LEMMA DoingTyped ==
  ASSUME EnrolmentTypeOK
  PROVE  /\ \A w \in Doing("enrol") : w \in Workers /\ task[w] \in EnrolTask /\ task[w] # Missing
         /\ \A w \in Doing("scope") : w \in Workers /\ task[w] \in ScopeTask /\ task[w] # Missing
  BY TaskKinds DEF EnrolmentTypeOK, Doing, Busy

\* A staged batch is a record.
LEMMA StagedTyped ==
  ASSUME EnrolmentTypeOK, NEW token \in Tokens, staged[token] # Missing
  PROVE  /\ staged[token] \in Batch /\ staged[token].rows \in Seq(Person)
         /\ staged[token].creator \in Staff
  BY DEF EnrolmentTypeOK, Batch

\* The people of a list are its head and those of its tail.
LEMMA HeadAndTail ==
  ASSUME NEW list \in Seq(Person), list # <<>>
  PROVE  /\ Head(list) \in Person /\ Tail(list) \in Seq(Person)
         /\ PeopleOf(list) = {Head(list)} \cup PeopleOf(Tail(list))
         /\ Distinct(list) =>
              /\ Distinct(Tail(list))
              /\ \A i \in DOMAIN Tail(list) : Tail(list)[i].email # Head(list).email
<1>1. /\ Len(list) \in Nat \ {0} /\ DOMAIN list = 1 .. Len(list)
      /\ Head(list) = list[1] /\ Head(list) \in Person
      /\ Tail(list) \in Seq(Person) /\ Len(Tail(list)) = Len(list) - 1
      /\ DOMAIN Tail(list) = 1 .. Len(list) - 1
      /\ \A i \in 1 .. Len(list) - 1 : Tail(list)[i] = list[i + 1]
  BY EmptySeq, LenProperties, HeadTailProperties
<1>2. PeopleOf(list) = {Head(list)} \cup PeopleOf(Tail(list))
  <2>1. ASSUME NEW p \in PeopleOf(list)
        PROVE  p \in {Head(list)} \cup PeopleOf(Tail(list))
    <3>1. PICK i \in 1 .. Len(list) : p = list[i]
      BY <1>1 DEF PeopleOf
    <3>2. CASE i = 1
      BY <1>1, <3>1, <3>2
    <3>3. CASE i # 1
      <4>1. i - 1 \in 1 .. Len(list) - 1 /\ (i - 1) + 1 = i
        BY <1>1, <3>3
      <4>2. p = Tail(list)[i - 1]
        BY <1>1, <3>1, <4>1
      <4> QED  BY <1>1, <4>1, <4>2 DEF PeopleOf
    <3> QED  BY <3>2, <3>3
  <2>2. ASSUME NEW p \in {Head(list)} \cup PeopleOf(Tail(list))
        PROVE  p \in PeopleOf(list)
    <3>1. CASE p = Head(list)
      BY <1>1, <3>1 DEF PeopleOf
    <3>2. CASE p \in PeopleOf(Tail(list))
      <4>1. PICK i \in 1 .. Len(list) - 1 : p = Tail(list)[i]
        BY <1>1, <3>2 DEF PeopleOf
      <4>2. i + 1 \in 1 .. Len(list) /\ p = list[i + 1]
        BY <1>1, <4>1
      <4> QED  BY <1>1, <4>2 DEF PeopleOf
    <3> QED  BY <3>1, <3>2
  <2> QED  BY <2>1, <2>2
<1>3. ASSUME Distinct(list)
      PROVE  /\ Distinct(Tail(list))
             /\ \A i \in DOMAIN Tail(list) : Tail(list)[i].email # Head(list).email
  <2>1. \A i \in 1 .. Len(list) - 1 : i + 1 \in 1 .. Len(list) /\ i + 1 # 1
    BY <1>1
  <2>2. \A i, j \in 1 .. Len(list) - 1 : i # j => i + 1 # j + 1
    OBVIOUS
  <2>3. \A i, j \in 1 .. Len(list) : i # j =>
          list[i].email # list[j].email /\ list[i].number # list[j].number
    BY <1>1, <1>3 DEF Distinct
  <2>4. Distinct(Tail(list))
    <3>1. \A i, j \in 1 .. Len(list) - 1 : i # j =>
            /\ Tail(list)[i].email # Tail(list)[j].email
            /\ Tail(list)[i].number # Tail(list)[j].number
      BY <1>1, <2>1, <2>2, <2>3
    <3> QED  BY <1>1, <3>1 DEF Distinct
  <2>5. \A i \in DOMAIN Tail(list) : Tail(list)[i].email # Head(list).email
    <3>1. 1 \in 1 .. Len(list)
      BY <1>1
    <3> QED  BY <1>1, <2>1, <2>3, <3>1
  <2> QED  BY <2>4, <2>5
<1> QED  BY <1>1, <1>2, <1>3

\* A list of one person.
LEMMA OnePerson ==
  ASSUME NEW p \in Person
  PROVE  <<p>> \in Seq(Person) /\ Distinct(<<p>>)
  BY DEF Distinct

-------------------------------------------------------------------------------
(* Steps of one call that leave the tables alone.                          *)

\* A call's new record is added to, or takes the place of, what it had; the
\* other calls are where they were.
LEMMA OneCallMoves ==
  ASSUME EnrolmentTypeOK, NEW w \in Workers, NEW t \in Task \cup {Missing},
         task' = [task EXCEPT ![w] = t]
  PROVE  /\ task' \in [Workers -> Task \cup {Missing}]
         /\ task'[w] = t
         /\ \A v \in Workers : v # w => task'[v] = task[v]
         /\ \A v \in Doing("enrol")' : v \in Workers /\ (v = w \/ v \in Doing("enrol"))
         /\ \A v \in Doing("scope")' : v \in Workers /\ (v = w \/ v \in Doing("scope"))
         /\ w \in Doing("enrol")' => t \in EnrolTask /\ t # Missing
         /\ w \in Doing("scope")' => t \in ScopeTask /\ t # Missing
<1>1. /\ task' \in [Workers -> Task \cup {Missing}]
      /\ task'[w] = t
      /\ \A v \in Workers : v # w => task'[v] = task[v]
  BY DEF EnrolmentTypeOK
<1>2. /\ \A v \in Doing("enrol")' : v \in Workers /\ task'[v] # Missing /\ task'[v].op = "enrol"
      /\ \A v \in Doing("scope")' : v \in Workers /\ task'[v] # Missing /\ task'[v].op = "scope"
  BY DEF Doing, Busy
<1>3. \A v \in Workers : task[v] # Missing =>
        /\ task[v].op = "enrol" => v \in Doing("enrol")
        /\ task[v].op = "scope" => v \in Doing("scope")
  BY DEF Doing, Busy
<1> QED  BY <1>1, <1>2, <1>3, TaskKinds

\* The step of a call that changes no table keeps the invariant if its record
\* does, and if the batch it imports is no longer staged.
LEMMA TaskMoves ==
  ASSUME EInv, NEW w \in Workers, NEW t \in Task \cup {Missing},
         task' = [task EXCEPT ![w] = t],
         UNCHANGED <<users, profiles, scopes, answer, snapshot, dropped>>,
         staged' \in [Tokens -> Batch \cup {Missing}],
         \A token \in Tokens : staged'[token] # Missing => staged'[token] = staged[token],
         t # Missing /\ t \in EnrolTask =>
           /\ Whole(t) /\ Importing(t)
           /\ \A v \in Doing("enrol") : v # w =>
                /\ Apart(task[v], t)
                /\ t.origin \in Tokens => task[v].origin # t.origin
           /\ t.origin \in Tokens => staged'[t.origin] = Missing,
         t # Missing /\ t \in ScopeTask => OfTrainees(t)
  PROVE  EInv'
<1>1. EnrolmentTypeOK
  BY DEF EInv
<1>2. /\ task' \in [Workers -> Task \cup {Missing}]
      /\ task'[w] = t
      /\ \A v \in Workers : v # w => task'[v] = task[v]
      /\ \A v \in Doing("enrol")' : v \in Workers /\ (v = w \/ v \in Doing("enrol"))
      /\ \A v \in Doing("scope")' : v \in Workers /\ (v = w \/ v \in Doing("scope"))
      /\ w \in Doing("enrol")' => t \in EnrolTask /\ t # Missing
      /\ w \in Doing("scope")' => t \in ScopeTask /\ t # Missing
  BY <1>1, OneCallMoves
<1>3. \A u : (Whole(u)' <=> Whole(u)) /\ (Importing(u)' <=> Importing(u))
              /\ (OfTrainees(u)' <=> OfTrainees(u))
  BY DEF Whole, Importing, OfTrainees, Taken, Untold, Imported
<1>4. \A token : (Untold(token)' <=> Untold(token))
  BY DEF Untold, Imported
<1>5. WritesAreWhole'
  <2> SUFFICES ASSUME NEW v \in Doing("enrol")'
               PROVE  Whole(task[v])'
    BY DEF WritesAreWhole
  <2>1. CASE v = w
    BY <1>2, <1>3, <2>1
  <2>2. CASE v # w
    BY <1>2, <1>3, <2>2 DEF EInv, WritesAreWhole
  <2> QED  BY <2>1, <2>2
<1>6. NumbersApart'
  <2> SUFFICES ASSUME NEW u \in Doing("enrol")', NEW v \in Doing("enrol")', u # v
               PROVE  Apart(task'[u], task'[v])
    BY Zenon DEF NumbersApart
  <2>0. \A x, y : Apart(x, y) => Apart(y, x)
    BY DEF Apart
  <2>1. CASE v = w
    BY <1>2, <2>1
  <2>2. CASE u = w
    BY <1>2, <2>0, <2>2
  <2>3. CASE u # w /\ v # w
    BY <1>2, <2>3 DEF EInv, NumbersApart
  <2> QED  BY <2>1, <2>2, <2>3
<1>7. ListsAreOfTrainees'
  <2> SUFFICES ASSUME NEW v \in Doing("scope")'
               PROVE  OfTrainees(task[v])'
    BY DEF ListsAreOfTrainees
  <2>1. CASE v = w
    BY <1>2, <1>3, <2>1
  <2>2. CASE v # w
    BY <1>2, <1>3, <2>2 DEF EInv, ListsAreOfTrainees
  <2> QED  BY <2>1, <2>2
<1>8. OnePlace'
  <2>1. \A token \in Tokens : snapshot'[token] = Missing => Untold(token)'
    BY <1>4 DEF EInv, OnePlace
  <2>2. ASSUME NEW token \in Tokens, staged'[token] # Missing
        PROVE  /\ snapshot'[token] = staged'[token].rows /\ Untold(token)'
               /\ Distinct(staged'[token].rows)
               /\ \A v \in Doing("enrol")' : task'[v].origin # token
    <3>1. staged'[token] = staged[token] /\ staged[token] # Missing
      BY <2>2
    <3>2. ASSUME NEW v \in Doing("enrol")'
          PROVE  task'[v].origin # token
      <4>1. CASE v = w
        BY <1>2, <2>2, <4>1
      <4>2. CASE v # w
        BY <1>2, <3>1, <4>2 DEF EInv, OnePlace
      <4> QED  BY <4>1, <4>2
    <3> QED  BY <1>4, <3>1, <3>2 DEF EInv, OnePlace
  <2>3. ASSUME NEW v \in Doing("enrol")'
        PROVE  Importing(task[v])'
    <3>1. CASE v = w
      BY <1>2, <1>3, <3>1
    <3>2. CASE v # w
      BY <1>2, <1>3, <3>2 DEF EInv, OnePlace
    <3> QED  BY <3>1, <3>2
  <2>4. ASSUME NEW u \in Doing("enrol")', NEW v \in Doing("enrol")',
               task'[u].origin \in Tokens, task'[u].origin = task'[v].origin
        PROVE  u = v
    <3>1. CASE u = w /\ v # w
      BY <1>2, <2>4, <3>1
    <3>2. CASE u # w /\ v = w
      BY <1>2, <2>4, <3>2
    <3>3. CASE u # w /\ v # w
      <4>1. u \in Doing("enrol") /\ v \in Doing("enrol")
        BY <1>2, <3>3
      <4>2. task[u].origin \in Tokens /\ task[u].origin = task[v].origin
        BY <1>2, <2>4, <3>3
      <4> QED  BY <4>1, <4>2 DEF EInv, OnePlace
    <3> QED  BY <3>1, <3>2, <3>3
  <2> QED  BY <2>1, <2>2, <2>3, <2>4 DEF OnePlace
<1>9. EnrolmentTypeOK'
  <2>1. \A u, v \in Doing("enrol")' : u # v => task'[u].users \cap task'[v].users = {}
    BY <1>6 DEF NumbersApart, Apart
  <2> QED  BY <1>1, <1>2, <2>1 DEF EnrolmentTypeOK, Taken
<1>10. (BatchIsAllOrNothing /\ ImportAnswersAreTrue /\ EnrolledIsWhole)'
  BY DEF EInv, BatchIsAllOrNothing, ImportAnswersAreTrue, EnrolledIsWhole, Imported
<1> QED  BY <1>5, <1>6, <1>7, <1>8, <1>9, <1>10 DEF EInv

\* A batch that is taken has left the store.
LEMMA TakenFromStore ==
  ASSUME EnrolmentTypeOK, NEW token \in Tokens
  PROVE  /\ Take(token) \in [Tokens -> Batch \cup {Missing}]
         /\ Take(token)[token] = Missing
         /\ \A other \in Tokens :
              Take(token)[other] # Missing => Take(token)[other] = staged[other]
  BY DEF EnrolmentTypeOK, Take

\* An idle call is doing nothing.
LEMMA IdleIsNotDoing ==
  ASSUME NEW w \in Workers, task[w] = Missing
  PROVE  w \notin Doing("enrol") /\ w \notin Doing("scope")
  BY DEF Doing, Busy

\* A transaction that begins.
Fresh(list, creator, origin) ==
  [op |-> "enrol", rows |-> list, creator |-> creator, origin |-> origin,
   users |-> {}, profiles |-> {}, scopes |-> {}]

\* It has inserted nothing, and is to enrol people with different addresses.
LEMMA FreshIsWhole ==
  ASSUME NEW list \in Seq(Person), Distinct(list), NEW creator \in Staff,
         NEW origin \in Tokens \cup {Manual}
  PROVE  LET t == Fresh(list, creator, origin) IN
           /\ t \in EnrolTask /\ t \in Task /\ t \notin ScopeTask /\ Whole(t)
           /\ \A u : Apart(u, t)
           /\ t.rows = list /\ t.origin = origin /\ People(t.profiles) = {}
<1> DEFINE t == Fresh(list, creator, origin)
<1>1. t \in EnrolTask
  BY DEF EnrolTask, Fresh
<1>2. /\ t.rows = list /\ t.origin = origin /\ t.users = {} /\ t.profiles = {}
      /\ t.scopes = {}
  BY DEF Fresh
<1> HIDE DEF t
<1>3. Whole(t)
  BY <1>2 DEF Whole
<1>4. \A u : Apart(u, t)
  BY <1>2 DEF Apart
<1>5. t \in Task /\ t \notin ScopeTask
  BY <1>1, TaskKinds
<1>6. People(t.profiles) = {}
  BY <1>2 DEF People
<1> QED  BY <1>1, <1>2, <1>3, <1>4, <1>5, <1>6 DEF t

\* The batch moves from the store to a transaction.
LEMMA ImportCommitKeeps ==
  ASSUME EInv, NEW w \in Workers, NEW token \in Tokens, ImportCommit(w, token)
  PROVE  EInv'
<1>1. EnrolmentTypeOK
  BY DEF EInv
<1>2. /\ staged[token] # Missing /\ staged' = Take(token)
      /\ UNCHANGED <<users, profiles, scopes, answer, snapshot, dropped>>
  BY DEF ImportCommit
<1>3. /\ Take(token) \in [Tokens -> Batch \cup {Missing}]
      /\ Take(token)[token] = Missing
      /\ \A other \in Tokens :
           Take(token)[other] # Missing => Take(token)[other] = staged[other]
  BY <1>1, TakenFromStore
<1>4. CASE staged[token].expired \/ staged[token].rows = <<>>
  <2>1. task' = [task EXCEPT ![w] = Missing]
    BY <1>1, <1>4 DEF ImportCommit, EnrolmentTypeOK
  <2> QED  BY <1>2, <1>3, <2>1, TaskMoves
<1>5. CASE ~(staged[token].expired \/ staged[token].rows = <<>>)
  <2> DEFINE t == Fresh(staged[token].rows, staged[token].creator, token)
  <2>1. task' = [task EXCEPT ![w] = t]
    BY <1>5 DEF ImportCommit, Enrol, Fresh
  <2>2. /\ staged[token].rows \in Seq(Person) /\ staged[token].creator \in Staff
        /\ Distinct(staged[token].rows) /\ staged[token].rows # <<>>
        /\ snapshot[token] = staged[token].rows /\ Untold(token)
        /\ \A v \in Doing("enrol") : task[v].origin # token
    BY <1>1, <1>2, <1>5, StagedTyped DEF EInv, OnePlace
  <2>3. /\ t \in EnrolTask /\ t \in Task /\ t \notin ScopeTask /\ Whole(t)
        /\ \A u : Apart(u, t)
        /\ t.rows = staged[token].rows /\ t.origin = token /\ People(t.profiles) = {}
    BY <2>2, FreshIsWhole
  <2> HIDE DEF t
  <2>4. Importing(t)
    BY <2>2, <2>3, MissingAssumption DEF Importing
  <2> QED  BY <1>2, <1>3, <2>1, <2>2, <2>3, <2>4, TaskMoves
<1> QED  BY <1>4, <1>5

\* A creation by hand enrols one person and is no import.
LEMMA CreateKeeps ==
  ASSUME EInv, NEW w \in Workers, Create(w)
  PROVE  EInv'
<1>1. PICK person \in Applicants, creator \in Staff : Enrol(w, <<person>>, creator, Manual)
  BY DEF Create
<1>2. PICK list, manual : /\ list = <<person>> /\ list \in Seq(Person) /\ Distinct(list)
                          /\ manual = Manual /\ manual \in Tokens \cup {Manual}
  BY EnrolmentAssumption, OnePerson
<1> DEFINE t == Fresh(list, creator, manual)
<1>3. /\ task' = [task EXCEPT ![w] = t] /\ staged' = staged
      /\ UNCHANGED <<users, profiles, scopes, answer, snapshot, dropped>>
  BY <1>1, <1>2 DEF Create, Enrol, Fresh
<1>4. staged \in [Tokens -> Batch \cup {Missing}]
  BY DEF EInv, EnrolmentTypeOK
<1>5. /\ t \in EnrolTask /\ t \in Task /\ t \notin ScopeTask /\ Whole(t)
      /\ \A u : Apart(u, t)
      /\ t.origin = manual
  <2>1. manual \in Tokens \cup {Manual} /\ list \in Seq(Person) /\ Distinct(list)
    BY <1>2
  <2> QED  BY <2>1, FreshIsWhole
<1> HIDE DEF t
<1>6. Importing(t) /\ t.origin \notin Tokens
  BY <1>2, <1>5, EnrolmentAssumption DEF Importing
<1> QED  BY <1>3, <1>4, <1>5, <1>6, TaskMoves

\* The address that is inserted is in no table and in no other transaction.
LEMMA InsertUserKeeps ==
  ASSUME EInv, NEW w \in Workers, InsertUser(w)
  PROVE  EInv'
<1> DEFINE email == Head(task[w].rows).email
           t == [task[w] EXCEPT !.users = task[w].users \cup {email}]
<1>1. /\ w \in Doing("enrol") /\ task[w].rows # <<>>
      /\ email \notin users \cup PendingEmails(w) \cup task[w].users
      /\ UNCHANGED <<users, profiles, scopes, staged, answer, snapshot, dropped>>
  BY DEF InsertUser, Enrolling
<1>2. EnrolmentTypeOK /\ staged \in [Tokens -> Batch \cup {Missing}]
  BY DEF EInv, EnrolmentTypeOK
<1>3. task[w] \in EnrolTask /\ task[w] # Missing
  BY <1>1, <1>2, DoingTyped
<1>4. task' = [task EXCEPT ![w] = t]
  BY <1>3 DEF InsertUser, EnrolTask
<1>5. email \in Addresses
  BY <1>1, <1>3, HeadAndTail DEF EnrolTask, Person
<1>6. /\ t \in EnrolTask
      /\ t.users = task[w].users \cup {email} /\ t.rows = task[w].rows
      /\ t.profiles = task[w].profiles /\ t.scopes = task[w].scopes
      /\ t.creator = task[w].creator /\ t.origin = task[w].origin
  BY <1>3, <1>5 DEF EnrolTask
<1> HIDE DEF t
<1>7. t \in Task /\ t \notin ScopeTask
  BY <1>6, TaskKinds
<1>8. Whole(t)
  <2>1. Whole(task[w]) /\ email \notin users
    BY <1>1 DEF EInv, WritesAreWhole
  <2> HIDE DEF email
  <2> QED  BY <1>6, <2>1 DEF Whole
<1>9. Importing(t)
  BY <1>1, <1>6 DEF EInv, OnePlace, Importing
<1>10. ASSUME NEW v \in Doing("enrol"), v # w
       PROVE  /\ Apart(task[v], t)
              /\ t.origin \in Tokens => task[v].origin # t.origin
  <2>1. Apart(task[v], task[w])
    BY <1>1, <1>10 DEF EInv, NumbersApart
  <2>2. email \notin task[v].users
    BY <1>1, <1>10 DEF PendingEmails, Others
  <2> HIDE DEF email
  <2>3. Apart(task[v], t)
    BY <1>6, <2>1, <2>2 DEF Apart
  <2>4. t.origin \in Tokens => task[v].origin # t.origin
    BY <1>1, <1>6, <1>10 DEF EInv, OnePlace
  <2> QED  BY <2>3, <2>4
<1>11. t.origin \in Tokens => staged[t.origin] = Missing
  BY <1>1, <1>6 DEF EInv, OnePlace
<1> QED  BY <1>1, <1>2, <1>4, <1>7, <1>8, <1>9, <1>10, <1>11, TaskMoves

\* So is the student number, and the person leaves the list with it.
LEMMA InsertProfileKeeps ==
  ASSUME EInv, NEW w \in Workers, InsertProfile(w)
  PROVE  EInv'
<1> DEFINE row == Head(task[w].rows)
           p == [email |-> row.email, number |-> row.number,
                 creator |-> task[w].creator, origin |-> task[w].origin]
           t == [task[w] EXCEPT !.rows = Tail(task[w].rows),
                   !.profiles = task[w].profiles \cup {p},
                   !.scopes = task[w].scopes \cup ScopeRows(task[w], row.number)]
<1>1. /\ w \in Doing("enrol") /\ task[w].rows # <<>>
      /\ row.email \in task[w].users
      /\ row.number \notin Taken \cup PendingNumbers(w) \cup {q.number : q \in task[w].profiles}
      /\ UNCHANGED <<users, profiles, scopes, staged, answer, snapshot, dropped>>
  BY DEF InsertProfile, Enrolling
<1>2. EnrolmentTypeOK /\ staged \in [Tokens -> Batch \cup {Missing}]
  BY DEF EInv, EnrolmentTypeOK
<1>3. task[w] \in EnrolTask /\ task[w] # Missing
  BY <1>1, <1>2, DoingTyped
<1>4. task' = [task EXCEPT ![w] = t]
  BY <1>3 DEF InsertProfile, EnrolTask
<1>5. task[w].rows \in Seq(Person) /\ Whole(task[w])
  BY <1>1, <1>3 DEF EInv, WritesAreWhole, EnrolTask
<1>6. /\ row \in Person /\ Tail(task[w].rows) \in Seq(Person)
      /\ PeopleOf(task[w].rows) = {row} \cup PeopleOf(Tail(task[w].rows))
      /\ Distinct(Tail(task[w].rows))
      /\ \A i \in DOMAIN Tail(task[w].rows) : Tail(task[w].rows)[i].email # row.email
  BY <1>1, <1>5, HeadAndTail DEF Whole
<1>7. \A i \in DOMAIN Tail(task[w].rows) : Tail(task[w].rows)[i] \in PeopleOf(task[w].rows)
  <2>1. \A i \in DOMAIN Tail(task[w].rows) :
          Tail(task[w].rows)[i] \in PeopleOf(Tail(task[w].rows))
    BY DEF PeopleOf
  <2> QED  BY <1>6, <2>1
<1>8. \A q \in task[w].profiles : \A r \in PeopleOf(task[w].rows) : r.email # q.email
  <2> SUFFICES ASSUME NEW q \in task[w].profiles, NEW r \in PeopleOf(task[w].rows)
               PROVE  r.email # q.email
    OBVIOUS
  <2>1. PICK i \in DOMAIN task[w].rows : r = task[w].rows[i]
    BY DEF PeopleOf
  <2> QED  BY <1>5, <2>1 DEF Whole
<1>9. row = [email |-> row.email, number |-> row.number]
  BY <1>6 DEF Person
<1> HIDE DEF row
<1>10. /\ p.email = row.email /\ p.number = row.number /\ p \in Profile
       /\ p.creator = task[w].creator /\ p.origin = task[w].origin
  BY <1>3, <1>6 DEF Profile, Person, EnrolTask
<1> HIDE DEF p
<1>11. /\ ScopeRows(task[w], row.number) \subseteq Coordinators \X Numbers
       /\ \A s \in ScopeRows(task[w], row.number) : s[2] = row.number
       /\ p.creator \in Coordinators =>
            <<p.creator, p.number>> \in ScopeRows(task[w], row.number)
  BY <1>6, <1>10 DEF ScopeRows, Person
<1>12. /\ t \in EnrolTask
       /\ t.users = task[w].users /\ t.rows = Tail(task[w].rows)
       /\ t.profiles = task[w].profiles \cup {p}
       /\ t.scopes = task[w].scopes \cup ScopeRows(task[w], row.number)
       /\ t.creator = task[w].creator /\ t.origin = task[w].origin
  BY <1>3, <1>6, <1>10, <1>11 DEF EnrolTask
<1> HIDE DEF t
<1>13. t \in Task /\ t \notin ScopeTask
  BY <1>12, TaskKinds
<1>14. Whole(t)
  <2>1. ASSUME NEW q \in t.profiles
        PROVE  /\ q.email \in t.users /\ q.number \notin Taken
               /\ q.creator = t.creator /\ q.origin = t.origin
               /\ q.creator \in Coordinators => <<q.creator, q.number>> \in t.scopes
               /\ \A i \in DOMAIN t.rows : t.rows[i].email # q.email
    <3>1. CASE q = p
      BY <1>1, <1>6, <1>10, <1>11, <1>12, <3>1
    <3>2. CASE q \in task[w].profiles
      BY <1>5, <1>7, <1>8, <1>12, <3>2 DEF Whole
    <3> QED  BY <1>12, <3>1, <3>2
  <2>2. ASSUME NEW q \in t.profiles, NEW r \in t.profiles,
               q.email = r.email \/ q.number = r.number
        PROVE  q = r
    <3>1. \A z \in task[w].profiles : z.email # p.email /\ z.number # p.number
      BY <1>1, <1>6, <1>8, <1>10
    <3> QED  BY <1>5, <1>12, <2>2, <3>1 DEF Whole
  <2>3. \A s \in t.scopes : \E q \in t.profiles : q.number = s[2]
    BY <1>5, <1>10, <1>11, <1>12 DEF Whole
  <2> QED  BY <1>5, <1>6, <1>12, <2>1, <2>2, <2>3 DEF Whole
<1>15. Importing(t)
  <2>1. People(t.profiles) = People(task[w].profiles) \cup {row}
    BY <1>9, <1>10, <1>12 DEF People
  <2>2. Importing(task[w])
    BY <1>1 DEF EInv, OnePlace
  <2>3. /\ t.origin = task[w].origin
        /\ People(t.profiles) \cup PeopleOf(t.rows)
             = People(task[w].profiles) \cup PeopleOf(task[w].rows)
    BY <1>6, <1>12, <2>1
  <2> QED  BY <2>2, <2>3 DEF Importing
<1>16. ASSUME NEW v \in Doing("enrol"), v # w
       PROVE  /\ Apart(task[v], t)
              /\ t.origin \in Tokens => task[v].origin # t.origin
  <2>1. Apart(task[v], task[w])
    BY <1>1, <1>16 DEF EInv, NumbersApart
  <2>2. \A q \in task[v].profiles : q.number # p.number
    BY <1>1, <1>10, <1>16 DEF PendingNumbers, Others
  <2>3. Apart(task[v], t)
    BY <1>12, <2>1, <2>2 DEF Apart
  <2>4. t.origin \in Tokens => task[v].origin # t.origin
    BY <1>1, <1>12, <1>16 DEF EInv, OnePlace
  <2> QED  BY <2>3, <2>4
<1>17. t.origin \in Tokens => staged[t.origin] = Missing
  BY <1>1, <1>12 DEF EInv, OnePlace
<1> QED  BY <1>1, <1>2, <1>4, <1>13, <1>14, <1>15, <1>16, <1>17, TaskMoves

\* The trainees a coordinator sees are in the table.
LEMMA ScopesAreOfTrainees ==
  ASSUME EnrolmentTypeOK, NEW c \in Coordinators
  PROVE  ScopeOf(c) \subseteq Taken /\ ScopeOf(c) \subseteq Numbers /\ Taken \subseteq Numbers
  BY DEF EnrolmentTypeOK, ScopeOf, Taken, Profile

\* A scope update that has only read and marked.
LEMMA ScopeKeeps ==
  ASSUME EInv, NEW w \in Workers,
         ScopeBegin(w) \/ ScopeDelete(w) \/ ScopeInsert(w) \/ ScopeRollback(w)
  PROVE  EInv'
<1>1. EnrolmentTypeOK /\ staged \in [Tokens -> Batch \cup {Missing}]
  BY DEF EInv, EnrolmentTypeOK
<1>2. UNCHANGED <<users, profiles, scopes, staged, answer, snapshot, dropped>>
  BY DEF ScopeBegin, ScopeDelete, ScopeInsert, ScopeRollback
<1>3. ASSUME NEW t \in ScopeTask, task' = [task EXCEPT ![w] = t], OfTrainees(t)
      PROVE  EInv'
  <2>1. t \in Task /\ t \notin EnrolTask
    BY TaskKinds
  <2> QED  BY <1>1, <1>2, <1>3, <2>1, TaskMoves
<1>4. CASE ScopeBegin(w)
  <2>1. PICK c \in Coordinators, list \in SUBSET Taken :
          task' = [task EXCEPT ![w] = [op |-> "scope", coordinator |-> c, list |-> list,
                     marked |-> ScopeOf(c), new |-> {}, pc |-> "delete"]]
    BY <1>4 DEF ScopeBegin
  <2> DEFINE t == [op |-> "scope", coordinator |-> c, list |-> list,
                   marked |-> ScopeOf(c), new |-> {}, pc |-> "delete"]
  <2>2. t \in ScopeTask /\ OfTrainees(t)
    BY <1>1, ScopesAreOfTrainees DEF ScopeTask, OfTrainees
  <2> QED  BY <1>3, <2>1, <2>2
<1>5. CASE ScopeDelete(w)
  <2> DEFINE t == [task[w] EXCEPT
               !.marked = task[w].marked \cap ScopeOf(task[w].coordinator), !.pc = "insert"]
  <2>1. task[w] \in ScopeTask /\ OfTrainees(task[w])
    BY <1>1, <1>5, DoingTyped DEF ScopeDelete, EInv, ListsAreOfTrainees
  <2>2. task' = [task EXCEPT ![w] = t]
    BY <1>1, <1>5, <2>1 DEF ScopeDelete, EnrolmentTypeOK, ScopeTask
  <2>3. t \in ScopeTask /\ OfTrainees(t)
    BY <2>1 DEF ScopeTask, OfTrainees
  <2> QED  BY <1>3, <2>2, <2>3
<1>6. CASE ScopeInsert(w)
  <2> DEFINE new == task[w].list \ (ScopeOf(task[w].coordinator) \ task[w].marked)
             t == [task[w] EXCEPT !.new = new, !.pc = "commit"]
  <2>1. task[w] \in ScopeTask /\ OfTrainees(task[w])
    BY <1>1, <1>6, DoingTyped DEF ScopeInsert, EInv, ListsAreOfTrainees
  <2>2. task' = [task EXCEPT ![w] = t]
    BY <1>1, <1>6, <2>1 DEF ScopeInsert, EnrolmentTypeOK, ScopeTask
  <2>3. t \in ScopeTask /\ OfTrainees(t)
    BY <2>1 DEF ScopeTask, OfTrainees
  <2> QED  BY <1>3, <2>2, <2>3
<1>7. CASE ScopeRollback(w)
  <2>1. task' = [task EXCEPT ![w] = Missing]
    BY <1>7 DEF ScopeRollback
  <2> QED  BY <1>1, <1>2, <2>1, TaskMoves
<1> QED  BY <1>4, <1>5, <1>6, <1>7

-------------------------------------------------------------------------------
(* Steps that change the tables or the store.                              *)

\* When a call is over, the others are where they were.
LEMMA OneCallEnds ==
  ASSUME EnrolmentTypeOK, NEW w \in Workers, task' = [task EXCEPT ![w] = Missing]
  PROVE  /\ task' \in [Workers -> Task \cup {Missing}]
         /\ \A v \in Doing("enrol")' : v \in Doing("enrol") /\ v # w /\ task'[v] = task[v]
         /\ \A v \in Doing("scope")' : v \in Doing("scope") /\ v # w /\ task'[v] = task[v]
  BY OneCallMoves

\* The client of an import is told of its token only, the one of a manual
\* creation is told nothing that is recorded.
LEMMA OneTokenIsTold ==
  ASSUME EnrolmentTypeOK, NEW w \in Doing("enrol"),
         NEW told \in {"created", "failed", "unknown"}, Tell(w, told)
  PROVE  /\ answer' \in [Tokens -> {"none", "created", "failed", "unknown"}]
         /\ \A token \in Tokens :
              answer'[token] = IF token = task[w].origin THEN told ELSE answer[token]
<1>1. answer \in [Tokens -> {"none", "created", "failed", "unknown"}]
  BY DEF EnrolmentTypeOK
<1>2. task[w].origin \in Tokens \cup {Manual}
  BY DoingTyped DEF EnrolTask
<1>3. CASE task[w].origin = Manual
  <2>1. answer' = answer
    BY <1>3 DEF Tell
  <2> QED  BY <1>1, <1>3, <2>1, EnrolmentAssumption
<1>4. CASE task[w].origin # Manual
  <2>1. answer' = [answer EXCEPT ![task[w].origin] = told]
    BY <1>4 DEF Tell
  <2> QED  BY <1>1, <1>2, <1>4, <2>1
<1> QED  BY <1>3, <1>4

\* A list that is not empty has people.
LEMMA SomePeople ==
  ASSUME NEW list \in Seq(Person), list # <<>>
  PROVE  PeopleOf(list) # {}
  BY HeadAndTail

\* A transaction that fails leaves nothing, and its batch is in no other.
LEMMA EnrolRollbackKeeps ==
  ASSUME EInv, NEW w \in Workers, EnrolRollback(w)
  PROVE  EInv'
<1>1. /\ w \in Doing("enrol") /\ EnrolmentTypeOK /\ Tell(w, "failed")
      /\ task' = [task EXCEPT ![w] = Missing]
      /\ UNCHANGED <<users, profiles, scopes, staged, snapshot, latest, dropped>>
  BY DEF EInv, EnrolRollback
<1>2. /\ task' \in [Workers -> Task \cup {Missing}]
      /\ \A v \in Doing("enrol")' : v \in Doing("enrol") /\ v # w /\ task'[v] = task[v]
      /\ \A v \in Doing("scope")' : v \in Doing("scope") /\ v # w /\ task'[v] = task[v]
  BY <1>1, OneCallEnds
<1>3. /\ answer' \in [Tokens -> {"none", "created", "failed", "unknown"}]
      /\ \A token \in Tokens :
           answer'[token] = IF token = task[w].origin THEN "failed" ELSE answer[token]
  BY <1>1, OneTokenIsTold
<1>4. /\ \A u : (Whole(u)' <=> Whole(u)) /\ (OfTrainees(u)' <=> OfTrainees(u))
      /\ \A token : Imported(token)' = Imported(token)
      /\ \A token \in Tokens : token # task[w].origin => (Untold(token)' <=> Untold(token))
  BY <1>1, <1>3 DEF Whole, OfTrainees, Taken, Untold, Imported
<1>5. task[w].origin \in Tokens =>
        /\ staged[task[w].origin] = Missing /\ Imported(task[w].origin) = {}
        /\ snapshot[task[w].origin] # Missing
        /\ \A v \in Doing("enrol") : v # w => task[v].origin # task[w].origin
  BY <1>1 DEF EInv, OnePlace, Importing, Untold
<1>6. EnrolmentTypeOK'
  BY <1>1, <1>2, <1>3 DEF EnrolmentTypeOK, Taken
<1>7. WritesAreWhole' /\ ListsAreOfTrainees'
  BY <1>2, <1>4 DEF EInv, WritesAreWhole, ListsAreOfTrainees
<1>8. NumbersApart'
  BY <1>2 DEF EInv, NumbersApart, Apart
<1>9. OnePlace'
  <2>1. \A token \in Tokens : snapshot'[token] = Missing => Untold(token)'
    BY <1>1, <1>4, <1>5 DEF EInv, OnePlace
  <2>2. ASSUME NEW token \in Tokens, staged'[token] # Missing
        PROVE  /\ snapshot'[token] = staged'[token].rows /\ Untold(token)'
               /\ Distinct(staged'[token].rows)
               /\ \A v \in Doing("enrol")' : task'[v].origin # token
    BY <1>1, <1>2, <1>4, <1>5, <2>2 DEF EInv, OnePlace
  <2>3. ASSUME NEW v \in Doing("enrol")'
        PROVE  Importing(task[v])'
    <3>1. Importing(task[v]) /\ task'[v] = task[v]
      BY <1>2 DEF EInv, OnePlace
    <3>2. task[v].origin \in Tokens => task[v].origin # task[w].origin
      BY <1>2, <1>5
    <3> QED  BY <1>1, <1>4, <3>1, <3>2 DEF Importing
  <2>4. \A u, v \in Doing("enrol")' :
          task'[u].origin \in Tokens /\ task'[u].origin = task'[v].origin => u = v
    BY <1>2 DEF EInv, OnePlace
  <2> QED  BY <2>1, <2>2, <2>3, <2>4 DEF OnePlace
<1>10. BatchIsAllOrNothing' /\ EnrolledIsWhole'
  BY <1>1 DEF EInv, BatchIsAllOrNothing, EnrolledIsWhole, Imported
<1>11. ImportAnswersAreTrue'
  BY <1>3, <1>4, <1>5 DEF EInv, ImportAnswersAreTrue
<1> QED  BY <1>6, <1>7, <1>8, <1>9, <1>10, <1>11 DEF EInv

\* A transaction that commits adds rows that collide with no other.
LEMMA EnrolCommitKeeps ==
  ASSUME EInv, NEW w \in Workers, EnrolCommit(w)
  PROVE  EInv'
<1>0. PICK t : t = task[w]
  OBVIOUS
<1>1. /\ w \in Doing("enrol") /\ t.rows = <<>> /\ EnrolmentTypeOK
      /\ users' = users \cup t.users /\ profiles' = profiles \cup t.profiles
      /\ scopes' = scopes \cup t.scopes
      /\ task' = [task EXCEPT ![w] = Missing]
      /\ UNCHANGED <<staged, snapshot, latest, dropped>>
  BY <1>0 DEF EInv, EnrolCommit, Complete
<1>2. PICK told \in {"created", "unknown"} : Tell(w, told)
  BY DEF EnrolCommit
<1>3. /\ task' \in [Workers -> Task \cup {Missing}]
      /\ \A v \in Doing("enrol")' : v \in Doing("enrol") /\ v # w /\ task'[v] = task[v]
      /\ \A v \in Doing("scope")' : v \in Doing("scope") /\ v # w /\ task'[v] = task[v]
  BY <1>1, OneCallEnds
<1>4. /\ answer' \in [Tokens -> {"none", "created", "failed", "unknown"}]
      /\ \A token \in Tokens : answer'[token] = IF token = t.origin THEN told ELSE answer[token]
  BY <1>0, <1>1, <1>2, OneTokenIsTold
<1>5. t \in EnrolTask /\ Whole(t) /\ Importing(t)
  BY <1>0, <1>1, DoingTyped DEF EInv, WritesAreWhole, OnePlace
<1>6. \A v \in Doing("enrol") : v # w => Apart(task[v], t)
  BY <1>0, <1>1 DEF EInv, NumbersApart
<1>7. t.origin \in Tokens =>
        /\ staged[t.origin] = Missing /\ snapshot[t.origin] # Missing
        /\ \A v \in Doing("enrol") : v # w => task[v].origin # t.origin
  BY <1>0, <1>1 DEF EInv, OnePlace, Importing
<1>8. /\ t.users \subseteq Addresses /\ t.profiles \subseteq Profile
      /\ t.scopes \subseteq Coordinators \X Numbers
  BY <1>5 DEF EnrolTask
<1>9. Taken' = Taken \cup {p.number : p \in t.profiles}
  BY <1>1 DEF Taken
<1>10. \A token : token # t.origin => Imported(token)' = Imported(token)
  BY <1>1, <1>5 DEF Imported, Whole
<1>11. t.origin \in Tokens =>
         /\ Imported(t.origin)' = t.profiles
         /\ People(t.profiles) = PeopleOf(snapshot[t.origin])
         /\ t.profiles # {}
  <2> SUFFICES ASSUME t.origin \in Tokens
               PROVE  /\ Imported(t.origin)' = t.profiles
                      /\ People(t.profiles) = PeopleOf(snapshot[t.origin])
                      /\ t.profiles # {}
    OBVIOUS
  <2>1. /\ Imported(t.origin) = {} /\ snapshot[t.origin] \notin {Missing, <<>>}
        /\ People(t.profiles) \cup PeopleOf(t.rows) = PeopleOf(snapshot[t.origin])
    BY <1>5 DEF Importing, Untold
  <2>2. Imported(t.origin)' = t.profiles
    BY <1>1, <1>5, <2>1 DEF Imported, Whole
  <2>3. PeopleOf(t.rows) = {}
    BY <1>1 DEF PeopleOf
  <2>4. PeopleOf(snapshot[t.origin]) # {}
    BY <1>1, <2>1, SomePeople DEF EnrolmentTypeOK
  <2>5. People(t.profiles) = PeopleOf(snapshot[t.origin])
    BY <2>1, <2>3
  <2>6. t.profiles # {}
    BY <2>4, <2>5 DEF People
  <2> QED  BY <2>2, <2>5, <2>6
<1>12. \A token \in Tokens : token # t.origin => (Untold(token)' <=> Untold(token))
  BY <1>4, <1>10 DEF Untold
<1>13. EnrolmentTypeOK'
  <2>1. scopes' \subseteq Coordinators \X Taken'
    <3>1. \A s \in t.scopes : s \in Coordinators \X Taken'
      BY <1>5, <1>8, <1>9 DEF Whole
    <3> QED  BY <1>1, <1>9, <3>1 DEF EnrolmentTypeOK
  <2> QED  BY <1>1, <1>3, <1>4, <1>8, <2>1 DEF EnrolmentTypeOK
<1>14. WritesAreWhole'
  <2> SUFFICES ASSUME NEW v \in Doing("enrol")'
               PROVE  Whole(task[v])'
    BY DEF WritesAreWhole
  <2>1. v \in Doing("enrol") /\ v # w /\ task'[v] = task[v]
    BY <1>3
  <2>2. Whole(task[v]) /\ Apart(task[v], t)
    BY <1>6, <2>1 DEF EInv, WritesAreWhole
  <2>3. \A p \in task[v].profiles : p.number \notin Taken'
    BY <1>9, <2>2 DEF Whole, Apart
  <2>4. task[v].users \cap users' = {}
    BY <1>1, <2>2 DEF Whole, Apart
  <2> QED  BY <2>1, <2>2, <2>3, <2>4 DEF Whole
<1>15. NumbersApart'
  BY <1>3 DEF EInv, NumbersApart, Apart
<1>16. ListsAreOfTrainees'
  BY <1>3, <1>9 DEF EInv, ListsAreOfTrainees, OfTrainees
<1>17. OnePlace'
  <2>1. \A token \in Tokens : snapshot'[token] = Missing => Untold(token)'
    BY <1>1, <1>7, <1>12 DEF EInv, OnePlace
  <2>2. ASSUME NEW token \in Tokens, staged'[token] # Missing
        PROVE  /\ snapshot'[token] = staged'[token].rows /\ Untold(token)'
               /\ Distinct(staged'[token].rows)
               /\ \A v \in Doing("enrol")' : task'[v].origin # token
    BY <1>1, <1>3, <1>7, <1>12, <2>2 DEF EInv, OnePlace
  <2>3. ASSUME NEW v \in Doing("enrol")'
        PROVE  Importing(task[v])'
    <3>1. Importing(task[v]) /\ task'[v] = task[v]
      BY <1>3 DEF EInv, OnePlace
    <3>2. task[v].origin \in Tokens => task[v].origin # t.origin
      BY <1>3, <1>7
    <3> QED  BY <1>1, <1>12, <3>1, <3>2 DEF Importing
  <2>4. \A u, v \in Doing("enrol")' :
          task'[u].origin \in Tokens /\ task'[u].origin = task'[v].origin => u = v
    BY <1>3 DEF EInv, OnePlace
  <2> QED  BY <2>1, <2>2, <2>3, <2>4 DEF OnePlace
<1>18. BatchIsAllOrNothing'
  <2> SUFFICES ASSUME NEW token \in Tokens, Imported(token)' # {}
               PROVE  People(Imported(token)') = PeopleOf(snapshot'[token])
    BY DEF BatchIsAllOrNothing, People
  <2>1. CASE token = t.origin
    BY <1>1, <1>11, <2>1
  <2>2. CASE token # t.origin
    BY <1>1, <1>10, <2>2 DEF EInv, BatchIsAllOrNothing, People
  <2> QED  BY <2>1, <2>2
<1>19. ImportAnswersAreTrue'
  BY <1>4, <1>10, <1>11 DEF EInv, ImportAnswersAreTrue
<1>20. EnrolledIsWhole'
  <2>1. ASSUME NEW p \in profiles'
        PROVE  /\ p.email \in users'
               /\ p.creator \in Coordinators =>
                    <<p.creator, p.number>> \in scopes' \cup dropped'
    <3>1. CASE p \in profiles
      BY <1>1, <3>1 DEF EInv, EnrolledIsWhole
    <3>2. CASE p \in t.profiles
      BY <1>1, <1>5, <3>2 DEF Whole
    <3> QED  BY <1>1, <3>1, <3>2
  <2>2. ASSUME NEW p \in profiles', NEW q \in profiles',
               p.email = q.email \/ p.number = q.number
        PROVE  p = q
    <3>1. \A r \in profiles : r.email \in users /\ r.number \in Taken
      BY DEF EInv, EnrolledIsWhole, Taken
    <3>2. \A r \in t.profiles : r.email \notin users /\ r.number \notin Taken
      BY <1>5 DEF Whole
    <3>3. CASE p \in profiles /\ q \in profiles
      BY <2>2, <3>3 DEF EInv, EnrolledIsWhole
    <3>4. CASE p \in t.profiles /\ q \in t.profiles
      BY <1>5, <2>2, <3>4 DEF Whole
    <3> QED  BY <1>1, <2>2, <3>1, <3>2, <3>3, <3>4
  <2> QED  BY <2>1, <2>2 DEF EnrolledIsWhole
<1> QED  BY <1>13, <1>14, <1>15, <1>16, <1>17, <1>18, <1>19, <1>20 DEF EInv

\* A scope update deletes and inserts scope rows of trainees there are, and
\* records what it deleted.
LEMMA ScopeCommitKeeps ==
  ASSUME EInv, NEW w \in Workers, ScopeCommit(w)
  PROVE  EInv'
<1>1. PICK t : t = task[w]
  OBVIOUS
<1> DEFINE old == {<<t.coordinator, n>> : n \in t.marked}
           new == {<<t.coordinator, n>> : n \in t.new}
<1>2. /\ EnrolmentTypeOK /\ w \in Doing("scope")
      /\ scopes' = (scopes \ old) \cup new /\ dropped' = dropped \cup old
      /\ task' = [task EXCEPT ![w] = Missing]
      /\ UNCHANGED <<users, profiles, staged, answer, snapshot>>
  BY <1>1 DEF EInv, ScopeCommit
<1>3. /\ task' \in [Workers -> Task \cup {Missing}]
      /\ \A v \in Doing("enrol")' : v \in Doing("enrol") /\ v # w /\ task'[v] = task[v]
      /\ \A v \in Doing("scope")' : v \in Doing("scope") /\ v # w /\ task'[v] = task[v]
  BY <1>2, OneCallEnds
<1>4. t \in ScopeTask /\ OfTrainees(t)
  BY <1>1, <1>2, DoingTyped DEF EInv, ListsAreOfTrainees
<1>5. new \subseteq Coordinators \X Taken
  BY <1>4 DEF ScopeTask, OfTrainees
<1> HIDE DEF old, new
<1>6. \A u : (Whole(u)' <=> Whole(u)) /\ (Importing(u)' <=> Importing(u))
              /\ (OfTrainees(u)' <=> OfTrainees(u))
  BY <1>2 DEF Whole, Importing, OfTrainees, Taken, Untold, Imported
<1>7. \A token : Untold(token)' <=> Untold(token)
  BY <1>2 DEF Untold, Imported
<1>8. EnrolmentTypeOK'
  BY <1>2, <1>3, <1>5 DEF EnrolmentTypeOK, Taken
<1>9. WritesAreWhole' /\ ListsAreOfTrainees'
  BY <1>3, <1>6 DEF EInv, WritesAreWhole, ListsAreOfTrainees
<1>10. NumbersApart'
  BY <1>3 DEF EInv, NumbersApart, Apart
<1>11. OnePlace'
  <2>1. \A v \in Doing("enrol")' : Importing(task[v])'
    BY <1>3, <1>6 DEF EInv, OnePlace
  <2> QED  BY <1>2, <1>3, <1>7, <2>1 DEF EInv, OnePlace
<1>12. BatchIsAllOrNothing' /\ ImportAnswersAreTrue'
  BY <1>2 DEF EInv, BatchIsAllOrNothing, ImportAnswersAreTrue, Imported
<1>13. EnrolledIsWhole'
  BY <1>2 DEF EInv, EnrolledIsWhole
<1> QED  BY <1>8, <1>9, <1>10, <1>11, <1>12, <1>13 DEF EInv

\* The address of a new coordinator is no trainee's.
LEMMA CreateCoordinatorKeeps ==
  ASSUME EInv, NEW email \in Addresses, CreateCoordinator(email)
  PROVE  EInv'
<1>1. /\ users' = users \cup {email}
      /\ \A v \in Doing("enrol") : email \notin task[v].users
      /\ UNCHANGED <<profiles, scopes, staged, task, answer, snapshot, latest, dropped>>
  BY DEF CreateCoordinator
<1>2. Doing("enrol")' = Doing("enrol") /\ Doing("scope")' = Doing("scope")
  BY <1>1 DEF Doing, Busy
<1>3. EnrolmentTypeOK'
  BY <1>1, <1>2 DEF EInv, EnrolmentTypeOK, Taken
<1>4. WritesAreWhole'
  <2> SUFFICES ASSUME NEW v \in Doing("enrol")
               PROVE  Whole(task[v])'
    BY <1>2 DEF WritesAreWhole
  <2>1. Whole(task[v]) /\ email \notin task[v].users
    BY <1>1 DEF EInv, WritesAreWhole
  <2> QED  BY <1>1, <2>1 DEF Whole, Taken
<1>5. NumbersApart' /\ ListsAreOfTrainees'
  BY <1>1, <1>2 DEF EInv, NumbersApart, ListsAreOfTrainees, Apart, OfTrainees, Taken
<1>6. OnePlace'
  BY <1>1, <1>2 DEF EInv, OnePlace, Importing, Untold, Imported
<1>7. BatchIsAllOrNothing' /\ ImportAnswersAreTrue'
  BY <1>1 DEF EInv, BatchIsAllOrNothing, ImportAnswersAreTrue, Imported
<1>8. EnrolledIsWhole'
  BY <1>1 DEF EInv, EnrolledIsWhole
<1> QED  BY <1>3, <1>4, <1>5, <1>6, <1>7, <1>8 DEF EInv

\* A step that only changes the store keeps the invariant if what is staged is
\* the snapshot of a token that nothing has come of.
LEMMA StoreMoves ==
  ASSUME EInv,
         UNCHANGED <<users, profiles, scopes, task, answer, dropped>>,
         staged' \in [Tokens -> Batch \cup {Missing}],
         snapshot' \in [Tokens -> Seq(Person) \cup {Missing}],
         \A token \in Tokens : snapshot[token] # Missing => snapshot'[token] = snapshot[token],
         \A token \in Tokens : staged'[token] # Missing =>
           /\ snapshot'[token] = staged'[token].rows
           /\ Distinct(staged'[token].rows)
           /\ staged[token] # Missing \/ snapshot[token] = Missing
  PROVE  EInv'
<1>1. /\ Doing("enrol")' = Doing("enrol") /\ Doing("scope")' = Doing("scope")
      /\ \A token : Imported(token)' = Imported(token)
      /\ \A token : Untold(token)' <=> Untold(token)
  BY DEF Doing, Busy, Untold, Imported
<1>2. EnrolmentTypeOK'
  BY <1>1 DEF EInv, EnrolmentTypeOK, Taken
<1>3. WritesAreWhole' /\ NumbersApart' /\ ListsAreOfTrainees'
  BY <1>1 DEF EInv, WritesAreWhole, NumbersApart, ListsAreOfTrainees, Whole, Apart,
              OfTrainees, Taken
<1>4. OnePlace'
  <2>1. \A token \in Tokens : snapshot'[token] = Missing => Untold(token)'
    BY <1>1 DEF EInv, OnePlace
  <2>2. ASSUME NEW token \in Tokens, staged'[token] # Missing
        PROVE  /\ snapshot'[token] = staged'[token].rows /\ Untold(token)'
               /\ Distinct(staged'[token].rows)
               /\ \A w \in Doing("enrol")' : task'[w].origin # token
    <3>1. Untold(token) /\ \A w \in Doing("enrol") : task[w].origin # token
      BY <2>2 DEF EInv, OnePlace, Importing
    <3> QED  BY <1>1, <2>2, <3>1
  <2>3. ASSUME NEW w \in Doing("enrol")
        PROVE  Importing(task[w])'
    BY <1>1 DEF EInv, OnePlace, Importing
  <2>4. \A u, v \in Doing("enrol")' :
          task'[u].origin \in Tokens /\ task'[u].origin = task'[v].origin => u = v
    BY <1>1 DEF EInv, OnePlace
  <2> QED  BY <1>1, <2>1, <2>2, <2>3, <2>4 DEF OnePlace
<1>5. BatchIsAllOrNothing'
  <2> SUFFICES ASSUME NEW token \in Tokens, Imported(token) # {}
               PROVE  People(Imported(token)) = PeopleOf(snapshot'[token])
    BY <1>1 DEF BatchIsAllOrNothing, People
  <2>1. snapshot'[token] = snapshot[token]
    BY DEF EInv, OnePlace, Untold
  <2> QED  BY <2>1 DEF EInv, BatchIsAllOrNothing, People
<1>6. ImportAnswersAreTrue' /\ EnrolledIsWhole'
  BY <1>1 DEF EInv, ImportAnswersAreTrue, EnrolledIsWhole
<1> QED  BY <1>2, <1>3, <1>4, <1>5, <1>6 DEF EInv

\* A validated upload is staged under a token of its own; others may go.
LEMMA ImportValidateKeeps ==
  ASSUME EInv, NEW token \in Tokens, ImportValidate(token)
  PROVE  EInv'
<1>1. PICK file \in Files, creator \in Staff, checked \in BOOLEAN :
        /\ staged' = [Evicted EXCEPT ![token] =
                       [rows |-> ParseAndValidate(file, checked), creator |-> creator,
                        expired |-> FALSE]]
        /\ snapshot' = [snapshot EXCEPT ![token] = ParseAndValidate(file, checked)]
  BY DEF ImportValidate
<1>2. PICK list : /\ list = ParseAndValidate(file, checked)
                  /\ list \in Seq(Person) /\ Distinct(list)
  BY ValidatedRows
<1>3. /\ EnrolmentTypeOK
      /\ staged \in [Tokens -> Batch \cup {Missing}]
      /\ snapshot \in [Tokens -> Seq(Person) \cup {Missing}]
  BY DEF EInv, EnrolmentTypeOK
<1>4. /\ Evicted \in [Tokens -> Batch \cup {Missing}]
      /\ \A other \in Tokens : Evicted[other] # Missing => Evicted[other] = staged[other]
  <2> SUFFICES ASSUME Evicted # staged
               PROVE  /\ Evicted \in [Tokens -> Batch \cup {Missing}]
                      /\ \A other \in Tokens :
                           Evicted[other] # Missing => Evicted[other] = staged[other]
    BY <1>3
  <2>1. Evicted = [t \in Tokens |-> IF staged[t] # Missing /\ staged[t].expired THEN Missing
                                                                     ELSE staged[t]]
    BY DEF Evicted
  <2> QED  BY <1>3, <2>1
<1>5. PICK batch : batch = [rows |-> list, creator |-> creator, expired |-> FALSE]
  OBVIOUS
<1>6. batch \in Batch /\ batch.rows = list
  BY <1>2, <1>5 DEF Batch
<1>7. /\ staged' = [Evicted EXCEPT ![token] = batch]
      /\ snapshot' = [snapshot EXCEPT ![token] = list]
      /\ snapshot[token] = Missing
      /\ UNCHANGED <<users, profiles, scopes, task, answer, dropped>>
  BY <1>1, <1>2, <1>5 DEF ImportValidate
<1>8. /\ staged' \in [Tokens -> Batch \cup {Missing}]
      /\ staged'[token] = batch
      /\ \A other \in Tokens : other # token => staged'[other] = Evicted[other]
  BY <1>4, <1>6, <1>7
<1>9. /\ snapshot' \in [Tokens -> Seq(Person) \cup {Missing}]
      /\ snapshot'[token] = list
      /\ \A other \in Tokens : other # token => snapshot'[other] = snapshot[other]
  BY <1>2, <1>3, <1>7
<1>10. ASSUME NEW other \in Tokens, staged'[other] # Missing
       PROVE  /\ snapshot'[other] = staged'[other].rows
              /\ Distinct(staged'[other].rows)
              /\ staged[other] # Missing \/ snapshot[other] = Missing
  <2>1. CASE other = token
    BY <1>2, <1>6, <1>7, <1>8, <1>9, <2>1
  <2>2. CASE other # token
    <3>1. staged[other] # Missing /\ staged'[other] = staged[other]
      BY <1>4, <1>8, <1>10, <2>2
    <3> QED  BY <1>9, <2>2, <3>1 DEF EInv, OnePlace
  <2> QED  BY <2>1, <2>2
<1> QED  BY <1>7, <1>8, <1>9, <1>10, StoreMoves

\* A batch that is out of date keeps its rows.
LEMMA ImportExpiresKeeps ==
  ASSUME EInv, NEW token \in Tokens, ImportExpires(token)
  PROVE  EInv'
<1>1. /\ EnrolmentTypeOK
      /\ staged \in [Tokens -> Batch \cup {Missing}]
      /\ snapshot \in [Tokens -> Seq(Person) \cup {Missing}]
  BY DEF EInv, EnrolmentTypeOK
<1>2. /\ staged[token] # Missing
      /\ staged' = [staged EXCEPT ![token] = [staged[token] EXCEPT !.expired = TRUE]]
      /\ UNCHANGED <<users, profiles, scopes, task, answer, snapshot, dropped>>
  BY <1>1 DEF ImportExpires
<1>3. PICK batch : batch = [staged[token] EXCEPT !.expired = TRUE]
  OBVIOUS
<1>4. batch \in Batch /\ batch.rows = staged[token].rows
  BY <1>1, <1>2, <1>3, StagedTyped DEF Batch
<1>5. /\ staged' \in [Tokens -> Batch \cup {Missing}]
      /\ staged'[token] = batch
      /\ \A other \in Tokens : other # token => staged'[other] = staged[other]
  BY <1>1, <1>2, <1>3, <1>4
<1>6. ASSUME NEW other \in Tokens, staged'[other] # Missing
      PROVE  /\ snapshot'[other] = staged'[other].rows
             /\ Distinct(staged'[other].rows)
             /\ staged[other] # Missing
  <2>1. staged[other] # Missing /\ staged'[other].rows = staged[other].rows
    BY <1>2, <1>4, <1>5, <1>6
  <2> QED  BY <1>2, <2>1 DEF EInv, OnePlace
<1> QED  BY <1>1, <1>2, <1>5, <1>6, StoreMoves

\* After a restart there is nothing in flight and nothing staged.
LEMMA RestartKeeps ==
  ASSUME EInv, Restart
  PROVE  EInv'
<1>1. /\ task' = [w \in Workers |-> Missing] /\ staged' = [t \in Tokens |-> Missing]
      /\ UNCHANGED <<users, profiles, scopes, answer, snapshot, latest, dropped>>
  BY DEF Restart
<1>2. \A op : Doing(op)' = {}
  BY <1>1 DEF Doing, Busy
<1>3. EnrolmentTypeOK'
  BY <1>1, <1>2 DEF EInv, EnrolmentTypeOK, Taken
<1>4. WritesAreWhole' /\ NumbersApart' /\ ListsAreOfTrainees'
  BY <1>2 DEF WritesAreWhole, NumbersApart, ListsAreOfTrainees
<1>5. OnePlace'
  BY <1>1, <1>2 DEF EInv, OnePlace, Untold, Imported
<1>6. BatchIsAllOrNothing' /\ ImportAnswersAreTrue' /\ EnrolledIsWhole'
  BY <1>1 DEF EInv, BatchIsAllOrNothing, ImportAnswersAreTrue, EnrolledIsWhole, Imported
<1> QED  BY <1>3, <1>4, <1>5, <1>6 DEF EInv

-------------------------------------------------------------------------------
(* The theorems.                                                           *)

\* At first there are the people of Enrolled, none of them by an import.
LEMMA EnrolmentInitInv == EnrolmentInit => EInv
<1> SUFFICES ASSUME EnrolmentInit
             PROVE  EInv
  OBVIOUS
<1>1. \A op : Doing(op) = {}
  BY DEF EnrolmentInit, Doing, Busy
<1>2. \A token \in Tokens : Imported(token) = {}
  BY EnrolmentAssumption DEF EnrolmentInit, Imported
<1>3. \A p \in Enrolled : p.email \in Addresses /\ p.number \in Numbers
  BY EnrolmentAssumption DEF Person
<1>4. Taken = {p.number : p \in Enrolled}
  <2>1. ASSUME NEW p \in Enrolled
        PROVE  \E q \in profiles : q.number = p.number
    <3> DEFINE q == [email |-> p.email, number |-> p.number, creator |-> Admin,
                     origin |-> Manual]
    <3>1. q \in profiles
      BY DEF EnrolmentInit
    <3>2. q.number = p.number
      OBVIOUS
    <3> QED  BY <3>1, <3>2
  <2>2. \A q \in profiles : \E p \in Enrolled : q.number = p.number
    BY DEF EnrolmentInit
  <2> QED  BY <2>1, <2>2 DEF Taken
<1>5. Admin \in Staff
  BY DEF Staff
<1>6. EnrolmentTypeOK
  <2>1. profiles \subseteq Profile
    BY <1>3, <1>5 DEF EnrolmentInit, Profile
  <2>2. scopes \subseteq Coordinators \X Taken
    BY <1>4 DEF EnrolmentInit
  <2>3. users \subseteq Addresses
    BY <1>3 DEF EnrolmentInit
  <2>4. \A v, w \in Doing("enrol") : v # w => task[v].users \cap task[w].users = {}
    BY <1>1
  <2> QED  BY <2>1, <2>2, <2>3, <2>4 DEF EnrolmentInit, EnrolmentTypeOK
<1>7. WritesAreWhole /\ NumbersApart /\ ListsAreOfTrainees
  BY <1>1 DEF WritesAreWhole, NumbersApart, ListsAreOfTrainees
<1>8. OnePlace
  BY <1>1, <1>2 DEF EnrolmentInit, OnePlace, Untold
<1>9. BatchIsAllOrNothing /\ ImportAnswersAreTrue
  BY <1>2 DEF EnrolmentInit, BatchIsAllOrNothing, ImportAnswersAreTrue
<1>10. EnrolledIsWhole
  <2>1. ASSUME NEW p \in profiles
        PROVE  \E e \in Enrolled : p = [email |-> e.email, number |-> e.number,
                                        creator |-> Admin, origin |-> Manual]
    BY DEF EnrolmentInit
  <2>2. ASSUME NEW p \in profiles
        PROVE  p.email \in users /\ p.creator \notin Coordinators
    BY <2>1, EnrolmentAssumption DEF EnrolmentInit
  <2>3. ASSUME NEW p \in profiles, NEW q \in profiles,
               p.email = q.email \/ p.number = q.number
        PROVE  p = q
    <3>1. PICK e \in Enrolled : p = [email |-> e.email, number |-> e.number,
                                     creator |-> Admin, origin |-> Manual]
      BY <2>1
    <3>2. PICK f \in Enrolled : q = [email |-> f.email, number |-> f.number,
                                     creator |-> Admin, origin |-> Manual]
      BY <2>1
    <3>3. e.email = f.email \/ e.number = f.number
      BY <2>3, <3>1, <3>2
    <3>4. e = f
      BY <3>3, EnrolmentAssumption
    <3> QED  BY <3>1, <3>2, <3>4
  <2> QED  BY <2>2, <2>3 DEF EnrolledIsWhole
<1> QED  BY <1>6, <1>7, <1>8, <1>9, <1>10 DEF EInv

\* Every step of enrolment keeps the invariant.
LEMMA EnrolmentNextInv == EInv /\ [EnrolmentNext]_enrolmentVars => EInv'
<1> SUFFICES ASSUME EInv, [EnrolmentNext]_enrolmentVars
             PROVE  EInv'
  OBVIOUS
<1>1. ASSUME NEW w \in Workers, EnrolStep(w)
      PROVE  EInv'
  BY <1>1, CreateKeeps, InsertUserKeeps, InsertProfileKeeps, EnrolCommitKeeps,
     EnrolRollbackKeeps, ImportCommitKeeps DEF EnrolStep
<1>2. ASSUME NEW w \in Workers, ScopeStep(w)
      PROVE  EInv'
  BY <1>2, ScopeKeeps, ScopeCommitKeeps DEF ScopeStep
<1>3. ASSUME NEW token \in Tokens, ImportValidate(token) \/ ImportExpires(token)
      PROVE  EInv'
  BY <1>3, ImportValidateKeeps, ImportExpiresKeeps
<1>4. ASSUME NEW person \in Applicants, CreateCoordinator(person.email)
      PROVE  EInv'
  <2>1. person.email \in Addresses
    BY EnrolmentAssumption DEF Person
  <2> QED  BY <1>4, <2>1, CreateCoordinatorKeeps
<1>5. CASE Restart
  BY <1>5, RestartKeeps
<1>6. CASE UNCHANGED enrolmentVars
  <2>1. EnrolmentTypeOK'
    BY <1>6 DEF enrolmentVars, EInv, EnrolmentTypeOK, Taken, Doing, Busy
  <2>2. staged' \in [Tokens -> Batch \cup {Missing}]
    BY <2>1 DEF EnrolmentTypeOK
  <2>3. snapshot' \in [Tokens -> Seq(Person) \cup {Missing}]
    BY <2>1 DEF EnrolmentTypeOK
  <2>4. \A token \in Tokens : staged'[token] # Missing =>
          /\ snapshot'[token] = staged'[token].rows
          /\ Distinct(staged'[token].rows)
          /\ staged[token] # Missing
    BY <1>6 DEF enrolmentVars, EInv, OnePlace
  <2> QED  BY <1>6, <2>2, <2>3, <2>4, StoreMoves DEF enrolmentVars
<1> QED  BY <1>1, <1>2, <1>3, <1>4, <1>5, <1>6 DEF EnrolmentNext

\* The inductive invariant of enrolment (trainees.go, import.go, users.go): what
\* a transaction has inserted is whole and collides with nothing, and the batch
\* of a token is in one place.
THEOREM EnrolmentInvariance == EnrolmentSpec => []EInv
  BY EnrolmentInitInv, EnrolmentNextInv, PTL DEF EnrolmentSpec

\* Tables, staged batches and transactions have their types.
THEOREM EnrolmentTypes == EnrolmentSpec => []EnrolmentTypeOK
<1>1. EInv => EnrolmentTypeOK
  BY DEF EInv
<1> QED  BY <1>1, EnrolmentInvariance, PTL

\* Whatever imports, creations, scope updates, failures and restarts race, an
\* import creates all the people of its validated upload or none (Commit).
THEOREM ImportIsAtomic == EnrolmentSpec => []BatchIsAllOrNothing
<1>1. EInv => BatchIsAllOrNothing
  BY DEF EInv
<1> QED  BY <1>1, EnrolmentInvariance, PTL

\* What the client of an import was told stays true: no second commit of its
\* token can follow (take).
THEOREM ImportAnswersStayTrue == EnrolmentSpec => []ImportAnswersAreTrue
<1>1. EInv => ImportAnswersAreTrue
  BY DEF EInv
<1> QED  BY <1>1, EnrolmentInvariance, PTL

\* Every trainee has an account, an address and a student number of their own,
\* and their coordinator sees them until a scope update drops them.
THEOREM TraineesAreWhole == EnrolmentSpec => []EnrolledIsWhole
<1>1. EInv => EnrolledIsWhole
  BY DEF EInv
<1> QED  BY <1>1, EnrolmentInvariance, PTL

================================================================================
