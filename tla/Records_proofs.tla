------------------------------ MODULE Records_proofs ----------------------------
(***************************************************************************)
(* Proofs about the records that staff keep.  Of an account and its        *)
(* sessions: types, the sign-outs that reach every session they saw, and   *)
(* the updates that only overlap loses.  Of the directory: the same for    *)
(* sites, settings and assignments, and the one active assignment.         *)
(***************************************************************************)
EXTENDS Accounts, Directory, TLAPS

-------------------------------------------------------------------------------
(* An account: the locals of a call, by operation and statement.           *)

LoginLocals == [op : {"login"}, password : Passwords, pc : {"rehash", "create"}]
PatchLocals ==
  [op : {"patch"}, email : Emails, status : AccountStatuses,
   given : SUBSET PatchFields, was : AccountStatuses, marked : SUBSET Sessions,
   pc : {"write", "commit"}]
AssignLocals == [op : {"assign"}, new : Passwords, marked : SUBSET Sessions, pc : {"commit"}]
SessionLocals == [op : {"logout", "csrf", "change"}, session : Sessions, pc : {"resolved"}]
ProfileLocals == [op : {"profile"}, email : Emails, pc : {"resolved"}]
ChangeLocals == [op : {"change"}, new : Passwords, pc : {"write"}]
TokenLocals == [op : {"csrf"}, session : Sessions, token : 1 .. MaxTokens, pc : {"told"}]

\* A request is one of these.
LEMMA RequestSplit ==
  Request = LoginLocals \cup PatchLocals \cup AssignLocals \cup SessionLocals
              \cup ProfileLocals \cup ChangeLocals \cup TokenLocals
BY DEF Request, LoginLocals, PatchLocals, AssignLocals, SessionLocals, ProfileLocals,
       ChangeLocals, TokenLocals

\* What is known of a call from the operation and the statement it is at.
LEMMA LocalsAt ==
  ASSUME NEW q \in Request
  PROVE  /\ q.op = "login" => q \in LoginLocals
         /\ q.op = "patch" => q \in PatchLocals
         /\ q.op = "assign" => q \in AssignLocals
         /\ q.op \in {"logout", "csrf", "change"} /\ q.pc = "resolved" => q \in SessionLocals
         /\ q.op = "profile" => q \in ProfileLocals
         /\ q.op = "change" /\ q.pc = "write" => q \in ChangeLocals
         /\ q.op = "csrf" /\ q.pc = "told" => q \in TokenLocals
<1>1. CASE q \in LoginLocals BY <1>1 DEF LoginLocals
<1>2. CASE q \in PatchLocals BY <1>2 DEF PatchLocals
<1>3. CASE q \in AssignLocals BY <1>3 DEF AssignLocals
<1>4. CASE q \in SessionLocals BY <1>4 DEF SessionLocals
<1>5. CASE q \in ProfileLocals BY <1>5 DEF ProfileLocals
<1>6. CASE q \in ChangeLocals BY <1>6 DEF ChangeLocals
<1>7. CASE q \in TokenLocals BY <1>7 DEF TokenLocals
<1> QED BY <1>1, <1>2, <1>3, <1>4, <1>5, <1>6, <1>7, RequestSplit

-------------------------------------------------------------------------------
(* Writes to the row.                                                      *)

ColumnValues == Emails \cup AccountStatuses \cup Passwords
RowTypes ==
  /\ account \in Account
  /\ asked \in [AccountColumns -> ColumnValues]
  /\ overlapped \in BOOLEAN

\* The columns of a row have values.
LEMMA ColumnsTyped ==
  ASSUME NEW row \in Account, NEW f \in AccountColumns
  PROVE  row[f] \in ColumnValues
BY DEF Account, AccountColumns, ColumnValues

\* Every account column is as it was last asked, unless calls overlapped.
RowAsAsked == ~overlapped => \A f \in AccountColumns : account[f] = asked[f]

\* A call that sets columns to what it was asked, and the others to what it read
\* of them before or what they are, keeps the types.
LEMMA WriteTypes ==
  ASSUME RowTypes, NEW row \in Account, NEW set, NEW back, Write(row, set, back),
         \A f \in DOMAIN set : set[f] \in ColumnValues
  PROVE  RowTypes'
<1>1. account' \in Account
  BY DEF Write
<1>2. overlapped' \in BOOLEAN
  BY DEF Write, RowTypes
<1>3. asked' \in [AccountColumns -> ColumnValues]
  BY ColumnsTyped DEF Write, RowTypes
<1> QED BY <1>1, <1>2, <1>3 DEF RowTypes

\* And it loses nothing, unless a column it writes back has changed.
LEMMA WriteKeeps ==
  ASSUME RowTypes, RowAsAsked, NEW row \in Account, NEW set, NEW back,
         Write(row, set, back),
         \A f \in DOMAIN set : row[f] = set[f],
         \A f \in AccountColumns : f \notin DOMAIN set /\ f \notin back => row[f] = account[f]
  PROVE  RowAsAsked'
<1> SUFFICES ASSUME ~overlapped', NEW f \in AccountColumns
             PROVE  account'[f] = asked'[f]
  BY DEF RowAsAsked
<1>1. account' = row
  BY DEF Write
<1>2. ~overlapped /\ \A g \in back : row[g] = account[g]
  BY DEF Write, RowTypes
<1>3. asked'[f] = IF f \in DOMAIN set THEN set[f] ELSE asked[f]
  BY DEF Write
<1>4. account[f] = asked[f]
  BY <1>2 DEF RowAsAsked
<1> QED BY <1>1, <1>2, <1>3, <1>4

-------------------------------------------------------------------------------
(* Calls and the row lock.                                                 *)

Holding(q) == q # NoValue /\ q.op \in {"patch", "assign"} /\ q.pc = "commit"
CallTypes == request \in [Requests -> Request \cup {NoValue}]
HolderIsInFlight == \A r \in Requests : rowHolder = r <=> Holding(request[r])
SessionTypes == sessions \in [Sessions -> LoginSession] /\ signedOut \subseteq Sessions

\* The type invariant by what it is about.
LEMMA TypeParts ==
  AccountsTypeOK <=> RowTypes /\ CallTypes /\ HolderIsInFlight /\ SessionTypes
<1>1. ASSUME NEW r \in Requests
      PROVE  Holding(request[r]) <=> At(r, "patch", "commit") \/ At(r, "assign", "commit")
  BY DEF Holding, At
<1> QED BY <1>1 DEF AccountsTypeOK, RowTypes, CallTypes, HolderIsInFlight, SessionTypes, ColumnValues

\* A call moves on: it takes the row, gives it back, or never had it.
LEMMA CallMoves ==
  ASSUME CallTypes, HolderIsInFlight, NEW r \in Requests,
         NEW q \in Request \cup {NoValue},
         request' = [request EXCEPT ![r] = q],
         Holding(q) => rowHolder \in {NoValue, r} /\ rowHolder' = r,
         ~Holding(q) => rowHolder' = IF rowHolder = r THEN NoValue ELSE rowHolder
  PROVE  CallTypes' /\ HolderIsInFlight'
<1>1. CallTypes'
  BY DEF CallTypes
<1>2. ASSUME NEW v \in Requests
      PROVE  rowHolder' = v <=> Holding(request'[v])
  <2>1. v # NoValue /\ r # NoValue
    BY RequestAssumption
  <2>2. request'[v] = IF v = r THEN q ELSE request[v]
    BY DEF CallTypes
  <2>3. rowHolder = v <=> Holding(request[v])
    BY DEF HolderIsInFlight
  <2>4. CASE Holding(q)
    BY <2>1, <2>2, <2>3, <2>4
  <2>5. CASE ~Holding(q)
    BY <2>1, <2>2, <2>3, <2>5
  <2> QED BY <2>4, <2>5
<1> QED BY <1>1, <1>2 DEF HolderIsInFlight, Holding

\* A call that does not hold the row moves on without it.
LEMMA QuietCall ==
  ASSUME CallTypes, HolderIsInFlight, NEW r \in Requests, ~Holding(request[r]),
         NEW q \in Request \cup {NoValue}, ~Holding(q),
         request' = [request EXCEPT ![r] = q], rowHolder' = rowHolder
  PROVE  CallTypes' /\ HolderIsInFlight'
<1>1. rowHolder # r
  BY DEF HolderIsInFlight
<1> QED BY <1>1, CallMoves

\* No answer is a request in flight.
LEMMA Answered == NoValue \in Request \cup {NoValue} /\ ~Holding(NoValue)
BY DEF Holding

\* A call at a statement has its locals.
LEMMA InFlight ==
  ASSUME CallTypes, NEW r \in Requests, NEW op, NEW pc, At(r, op, pc)
  PROVE  /\ request[r] \in Request /\ request[r].op = op /\ request[r].pc = pc
         /\ request[r] # NoValue
BY DEF At, CallTypes

-------------------------------------------------------------------------------
(* The inductive invariant.                                                *)

\* A PATCH of a coordinator gives no e-mail, and the sessions a call has marked
\* are not free to be taken by a login.
Fits(q) ==
  /\ q # NoValue /\ q.op = "patch" /\ account.role = "coordinator" => "email" \notin q.given
  /\ q # NoValue /\ q.op \in {"patch", "assign"} =>
       \A s \in q.marked : sessions[s].state # "unused"

CallsFit == \A r \in Requests : Fits(request[r])
SignedOutIsOver == \A s \in signedOut : sessions[s].state = "over"

AccountsInv ==
  /\ RowTypes /\ CallTypes /\ HolderIsInFlight /\ SessionTypes
  /\ RowAsAsked
  /\ CallsFit
  /\ SignedOutIsOver

\* Sessions only go forward: unused, live, over.
Forward ==
  /\ sessions' \in [Sessions -> LoginSession]
  /\ \A s \in Sessions :
       /\ sessions[s].state = "over" => sessions'[s].state = "over"
       /\ sessions[s].state # "unused" => sessions'[s].state # "unused"

\* So do those that nobody touches.
LEMMA ForwardStays ==
  ASSUME SessionTypes, sessions' = sessions
  PROVE  Forward
BY DEF SessionTypes, Forward

\* Revoking is forward, and ends what it names unless it was never used.
LEMMA RevokedForward ==
  ASSUME SessionTypes, NEW S, sessions' = Revoked(S)
  PROVE  /\ Forward
         /\ \A s \in S \cap Sessions :
              sessions[s].state # "unused" => sessions'[s].state = "over"
<1>1. ASSUME NEW s \in Sessions
      PROVE  /\ sessions'[s] \in LoginSession
             /\ sessions[s].state = "over" => sessions'[s].state = "over"
             /\ sessions[s].state # "unused" => sessions'[s].state # "unused"
             /\ s \in S /\ sessions[s].state # "unused" => sessions'[s].state = "over"
  <2>1. sessions[s] \in LoginSession
    BY DEF SessionTypes
  <2>2. [sessions[s] EXCEPT !.state = "over"] \in LoginSession
        /\ [sessions[s] EXCEPT !.state = "over"].state = "over"
    BY <2>1 DEF LoginSession
  <2>3. sessions'[s] = IF s \in S /\ sessions[s].state = "live"
                       THEN [sessions[s] EXCEPT !.state = "over"] ELSE sessions[s]
    BY DEF Revoked
  <2>4. sessions[s].state \in {"unused", "live", "over"}
    BY <2>1 DEF LoginSession
  <2> QED BY <2>1, <2>2, <2>3, <2>4
<1>2. sessions' \in [Sessions -> LoginSession]
  BY <1>1 DEF Revoked
<1> QED BY <1>1, <1>2 DEF Forward

\* What a step of a call has to keep.
LEMMA StepKeeps ==
  ASSUME AccountsInv, RowTypes', RowAsAsked', CallTypes', HolderIsInFlight',
         account'.role = account.role,
         NEW r \in Requests, NEW q \in Request \cup {NoValue},
         request' = [request EXCEPT ![r] = q], Fits(q),
         Forward, signedOut' \subseteq Sessions,
         \A s \in signedOut' : s \in signedOut \/ sessions'[s].state = "over"
  PROVE  AccountsInv'
<1>1. SessionTypes'
  BY DEF Forward, SessionTypes
<1>2. SignedOutIsOver'
  <2> SUFFICES ASSUME NEW s \in signedOut' PROVE sessions'[s].state = "over"
    BY DEF SignedOutIsOver
  <2>1. CASE s \in signedOut
    BY <2>1 DEF AccountsInv, SignedOutIsOver, Forward, SessionTypes
  <2> QED BY <2>1
<1>3. ASSUME NEW v \in Requests PROVE Fits(request[v])'
  <2>1. request'[v] = IF v = r THEN q ELSE request[v]
    BY DEF AccountsInv, CallTypes
  <2>2. Fits(request'[v])
    BY <2>1 DEF AccountsInv, CallsFit
  <2>3. request'[v] \in Request \cup {NoValue}
    BY DEF CallTypes
  <2>4. ASSUME request'[v] # NoValue, request'[v].op \in {"patch", "assign"}
        PROVE  request'[v].marked \subseteq Sessions
    BY <2>3, <2>4, LocalsAt DEF PatchLocals, AssignLocals
  <2> QED BY <2>2, <2>4 DEF Fits, Forward
<1> QED BY <1>1, <1>2, <1>3 DEF AccountsInv, CallsFit

\* A step that leaves the row alone.
LEMMA RowStays ==
  ASSUME AccountsInv, UNCHANGED <<account, asked, overlapped>>
  PROVE  RowTypes' /\ RowAsAsked' /\ account'.role = account.role
BY DEF AccountsInv, RowTypes, RowAsAsked

\* A step of a call without the row that changes neither row nor sign-outs.
LEMMA QuietStep ==
  ASSUME AccountsInv, NEW r \in Requests, ~Holding(request[r]),
         NEW q \in Request \cup {NoValue}, ~Holding(q), Fits(q),
         request' = [request EXCEPT ![r] = q],
         UNCHANGED <<account, asked, overlapped, rowHolder, signedOut>>, Forward
  PROVE  AccountsInv'
<1>1. CallTypes' /\ HolderIsInFlight'
  BY QuietCall DEF AccountsInv
<1>2. signedOut' \subseteq Sessions /\ \A s \in signedOut' : s \in signedOut
  BY DEF AccountsInv, SessionTypes
<1> QED BY <1>1, <1>2, RowStays, StepKeeps

\* An answered call has nothing to fit.
LEMMA NothingFits == Fits(NoValue)
BY DEF Fits

-------------------------------------------------------------------------------
(* The owner's calls.                                                      *)

\* A login reads the row and touches nothing.
LEMMA LoginReadKeeps ==
  ASSUME AccountsInv, NEW r \in Requests, LoginRead(r)
  PROVE  AccountsInv'
<1> DEFINE q == [op |-> "login", password |-> account.password,
                 pc |-> IF account.outdated THEN "rehash" ELSE "create"]
<1>1. q \in LoginLocals
  BY DEF AccountsInv, RowTypes, Account, LoginLocals
<1>2. q \in Request /\ ~Holding(q) /\ Fits(q)
  BY <1>1, RequestSplit DEF Holding, Fits
<1>3. ~Holding(request[r])
  BY DEF LoginRead, Holding
<1>4. request' = [request EXCEPT ![r] = q] /\ Forward
  BY ForwardStays DEF LoginRead, Goto, AccountsInv
<1> QED BY <1>2, <1>3, <1>4, QuietStep DEF LoginRead

\* It stores the password it verified, which may be an earlier one.
LEMMA LoginRehashKeeps ==
  ASSUME AccountsInv, NEW r \in Requests, LoginRehash(r)
  PROVE  AccountsInv'
<1> DEFINE q == [request[r] EXCEPT !.pc = "create"]
           row == [account EXCEPT !.password = request[r].password, !.outdated = FALSE]
<1>1. request[r] \in LoginLocals /\ ~Holding(request[r])
  BY InFlight, LocalsAt DEF LoginRehash, AccountsInv, Holding
<1>2. q \in LoginLocals
  BY <1>1 DEF LoginLocals
<1>3. q \in Request /\ ~Holding(q) /\ Fits(q)
  BY <1>2, RequestSplit DEF Holding, Fits, LoginLocals
<1>4. /\ row \in Account /\ row.role = account.role
      /\ \A f \in AccountColumns : f # "password" => row[f] = account[f]
  BY <1>1 DEF AccountsInv, RowTypes, Account, LoginLocals, AccountColumns
<1>5. Write(row, <<>>, {"password"})
  BY DEF LoginRehash
<1>6. \A f \in AccountColumns : f \notin DOMAIN <<>>
  BY DEF AccountColumns
<1>7. DOMAIN <<>> = {}
  OBVIOUS
<1>8. RowTypes'
  BY <1>4, <1>5, <1>7, WriteTypes DEF AccountsInv
<1>9. RowAsAsked'
  <2>1. PICK set : set = <<>>
    OBVIOUS
  <2>2. PICK back : back = {"password"}
    OBVIOUS
  <2>3. Write(row, set, back)
    BY <1>5, <2>1, <2>2, Zenon
  <2>4. \A f \in DOMAIN set : row[f] = set[f]
    BY <1>7, <2>1, Zenon
  <2>5. \A f \in AccountColumns : f \notin DOMAIN set /\ f \notin back => row[f] = account[f]
    BY <1>4, <2>2, Zenon
  <2>6. row \in Account /\ RowTypes /\ RowAsAsked
    BY <1>4 DEF AccountsInv
  <2> HIDE DEF row
  <2> QED
    BY <2>3, <2>4, <2>5, <2>6, WriteKeeps
<1>10. account'.role = account.role
  BY <1>4, <1>5 DEF Write
<1>11. request' = [request EXCEPT ![r] = q] /\ Forward
       /\ rowHolder' = rowHolder /\ signedOut' = signedOut
  BY ForwardStays DEF LoginRehash, Goto, AccountsInv
<1>12. CallTypes' /\ HolderIsInFlight'
  BY <1>1, <1>3, <1>11, QuietCall DEF AccountsInv
<1> QED BY <1>3, <1>8, <1>9, <1>10, <1>11, <1>12, StepKeeps DEF AccountsInv, SessionTypes

\* A login takes an unused session, which no sign-out has named.
LEMMA LoginCreateKeeps ==
  ASSUME AccountsInv, NEW r \in Requests, LoginCreate(r)
  PROVE  AccountsInv'
<1>1. PICK s \in Sessions :
        /\ sessions[s].state = "unused"
        /\ sessions' = [sessions EXCEPT ![s] = [state |-> "live", csrf |-> 1, held |-> 1]]
  BY DEF LoginCreate
<1>2. [state |-> "live", csrf |-> 1, held |-> 1] \in LoginSession
  BY AccountsAssumption DEF LoginSession
<1>3. Forward
  BY <1>1, <1>2 DEF AccountsInv, SessionTypes, Forward
<1>4. ~Holding(request[r])
  BY DEF LoginCreate, At, Holding
<1> QED BY <1>3, <1>4, Answered, NothingFits, QuietStep DEF LoginCreate, Answer, Goto

\* RequireAuth keeps the session, or the e-mail, for the handler.
LEMMA ResolveKeeps ==
  ASSUME AccountsInv, NEW r \in Requests, NEW s \in Sessions,
         NEW op \in {"logout", "csrf", "change", "profile"}, Resolve(r, s, op)
  PROVE  AccountsInv'
<1> DEFINE q == IF op = "profile"
                THEN [op |-> op, email |-> account.email, pc |-> "resolved"]
                ELSE [op |-> op, session |-> s, pc |-> "resolved"]
<1>1. q \in ProfileLocals \cup SessionLocals
  BY DEF AccountsInv, RowTypes, Account, ProfileLocals, SessionLocals
<1>2. q \in Request /\ ~Holding(q) /\ Fits(q)
  <2>1. q \in Request
    BY <1>1, RequestSplit
  <2>2. q.op \notin {"patch", "assign"}
    OBVIOUS
  <2> QED BY <2>1, <2>2 DEF Holding, Fits
<1>3. ~Holding(request[r])
  BY DEF Resolve, Holding
<1>4. request' = [request EXCEPT ![r] = q] /\ Forward
  BY ForwardStays DEF Resolve, Goto, AccountsInv
<1> QED BY <1>2, <1>3, <1>4, QuietStep DEF Resolve

\* A logout ends the session of its call.
LEMMA LogoutKeeps ==
  ASSUME AccountsInv, NEW r \in Requests, Logout(r)
  PROVE  AccountsInv'
<1>1. Forward
  BY RevokedForward DEF Logout, AccountsInv
<1>2. ~Holding(request[r])
  BY DEF Logout, At, Holding
<1> QED BY <1>1, <1>2, Answered, NothingFits, QuietStep DEF Logout, Answer, Goto

\* A new token leaves the session in its state, over if it is over.
LEMMA RotateCSRFKeeps ==
  ASSUME AccountsInv, NEW r \in Requests, RotateCSRF(r)
  PROVE  AccountsInv'
<1> DEFINE s == request[r].session
           token == sessions[s].csrf + 1
           q == [op |-> "csrf", session |-> s, token |-> token, pc |-> "told"]
<1>1. s \in Sessions /\ ~Holding(request[r])
  BY InFlight, LocalsAt DEF RotateCSRF, AccountsInv, Holding, SessionLocals
<1>2. sessions[s] \in LoginSession
  BY <1>1 DEF AccountsInv, SessionTypes
<1>3. token \in 1 .. MaxTokens
  BY <1>2, AccountsAssumption DEF LoginSession, RotateCSRF
<1>4. q \in TokenLocals
  BY <1>1, <1>3 DEF TokenLocals
<1>5. q \in Request /\ ~Holding(q) /\ Fits(q)
  BY <1>4, RequestSplit DEF Holding, Fits, TokenLocals
<1>6. [sessions[s] EXCEPT !.csrf = token] \in LoginSession
      /\ [sessions[s] EXCEPT !.csrf = token].state = sessions[s].state
  BY <1>2, <1>3 DEF LoginSession
<1>7. sessions' = [sessions EXCEPT ![s] = [sessions[s] EXCEPT !.csrf = token]]
      /\ request' = [request EXCEPT ![r] = q]
  BY <1>1, <1>2 DEF RotateCSRF, Goto
<1>8. Forward
  BY <1>1, <1>6, <1>7 DEF AccountsInv, SessionTypes, Forward
<1> QED BY <1>1, <1>5, <1>7, <1>8, QuietStep DEF RotateCSRF

\* The answer changes only what the client holds.
LEMMA ClientToldKeeps ==
  ASSUME AccountsInv, NEW r \in Requests, ClientTold(r)
  PROVE  AccountsInv'
<1> DEFINE s == request[r].session
           token == request[r].token
<1>1. s \in Sessions /\ token \in 1 .. MaxTokens /\ ~Holding(request[r])
  BY InFlight, LocalsAt DEF ClientTold, AccountsInv, Holding, TokenLocals
<1>2. sessions[s] \in LoginSession
  BY <1>1 DEF AccountsInv, SessionTypes
<1>3. [sessions[s] EXCEPT !.held = token] \in LoginSession
      /\ [sessions[s] EXCEPT !.held = token].state = sessions[s].state
  BY <1>1, <1>2, AccountsAssumption DEF LoginSession
<1>4. sessions' = [sessions EXCEPT ![s] = [sessions[s] EXCEPT !.held = token]]
  BY <1>1, <1>2 DEF ClientTold
<1>5. Forward
  BY <1>1, <1>3, <1>4 DEF AccountsInv, SessionTypes, Forward
<1> QED BY <1>1, <1>5, Answered, NothingFits, QuietStep DEF ClientTold, Answer, Goto

\* The stated password is checked, and the new one kept.
LEMMA ChangeVerifyKeeps ==
  ASSUME AccountsInv, NEW r \in Requests, ChangeVerify(r)
  PROVE  AccountsInv'
<1>1. PICK new \in Passwords :
        request' = [request EXCEPT ![r] = [op |-> "change", new |-> new, pc |-> "write"]]
  BY DEF ChangeVerify, Goto
<1> DEFINE q == [op |-> "change", new |-> new, pc |-> "write"]
<1>2. q \in Request /\ ~Holding(q) /\ Fits(q)
  BY RequestSplit DEF Holding, Fits, ChangeLocals
<1>3. ~Holding(request[r]) /\ Forward
  BY ForwardStays DEF ChangeVerify, At, Holding, AccountsInv
<1> QED BY <1>1, <1>2, <1>3, QuietStep DEF ChangeVerify

\* A call that sets one column to what it was asked for loses nothing.
LEMMA OneColumn ==
  ASSUME AccountsInv, NEW row \in Account, row.role = account.role,
         NEW c \in AccountColumns, NEW set, DOMAIN set = {c}, set[c] = row[c],
         \A f \in AccountColumns : f # c => row[f] = account[f],
         Write(row, set, {})
  PROVE  RowTypes' /\ RowAsAsked' /\ account'.role = account.role
<1>1. \A f \in DOMAIN set : row[f] = set[f] /\ set[f] \in ColumnValues
  BY ColumnsTyped
<1>2. \A f \in AccountColumns : f \notin DOMAIN set /\ f \notin {} => row[f] = account[f]
  OBVIOUS
<1>3. RowTypes'
  BY <1>1, WriteTypes DEF AccountsInv
<1>4. RowAsAsked'
  BY <1>1, <1>2, WriteKeeps DEF AccountsInv
<1> QED BY <1>3, <1>4 DEF Write

\* What a request for one column sets.
LEMMA OneColumnSet ==
  ASSUME NEW v
  PROVE  /\ DOMAIN [password |-> v] = {"password"} /\ [password |-> v]["password"] = v
         /\ DOMAIN [email |-> v] = {"email"} /\ [email |-> v]["email"] = v
OBVIOUS

\* The new password is what was asked.
LEMMA ChangePasswordKeeps ==
  ASSUME AccountsInv, NEW r \in Requests, ChangePassword(r)
  PROVE  AccountsInv'
<1> DEFINE row == [account EXCEPT !.password = request[r].new, !.outdated = FALSE]
           set == [password |-> request[r].new]
<1>1. request[r] \in ChangeLocals /\ ~Holding(request[r])
  BY InFlight, LocalsAt DEF ChangePassword, AccountsInv, Holding
<1>2. account \in Account /\ request[r].new \in Passwords
  BY <1>1 DEF AccountsInv, RowTypes, ChangeLocals
<1>3. Write(row, set, {})
  BY DEF ChangePassword
<1>4. RowTypes' /\ RowAsAsked' /\ account'.role = account.role
  <2>1. /\ row \in Account /\ row.role = account.role /\ row["password"] = request[r].new
        /\ \A f \in AccountColumns : f # "password" => row[f] = account[f]
    BY <1>2 DEF Account, AccountColumns
  <2>2. DOMAIN set = {"password"} /\ set["password"] = row["password"]
    BY <2>1, OneColumnSet
  <2>3. "password" \in AccountColumns
    BY DEF AccountColumns
  <2>4. Write(row, set, {})
    BY <1>3
  <2> HIDE DEF row, set
  <2> QED BY <2>1, <2>2, <2>3, <2>4, OneColumn
<1>5. request' = [request EXCEPT ![r] = NoValue] /\ Forward
      /\ rowHolder' = rowHolder /\ signedOut' = signedOut
  BY ForwardStays DEF ChangePassword, Answer, Goto, AccountsInv
<1>6. CallTypes' /\ HolderIsInFlight'
  BY <1>1, <1>5, Answered, QuietCall DEF AccountsInv
<1> QED BY <1>4, <1>5, <1>6, Answered, NothingFits, StepKeeps DEF AccountsInv, SessionTypes

\* A trainee's update writes back the e-mail it read, a coordinator's sets it.
LEMMA UpdateProfileKeeps ==
  ASSUME AccountsInv, NEW r \in Requests, UpdateProfile(r)
  PROVE  AccountsInv'
<1>1. request[r] \in ProfileLocals /\ ~Holding(request[r])
  BY InFlight, LocalsAt DEF UpdateProfile, AccountsInv, Holding
<1>2. ASSUME NEW email \in Emails
      PROVE  /\ [account EXCEPT !.email = email] \in Account
             /\ [account EXCEPT !.email = email].role = account.role
             /\ [account EXCEPT !.email = email].email = email
             /\ \A f \in AccountColumns :
                  f # "email" => [account EXCEPT !.email = email][f] = account[f]
  BY DEF AccountsInv, RowTypes, Account, AccountColumns
<1>3. RowTypes' /\ RowAsAsked' /\ account'.role = account.role
  <2>1. CASE account.role = "trainee"
    <3> DEFINE row == [account EXCEPT !.email = request[r].email]
    <3>1. Write(row, <<>>, {"email"})
      BY <2>1 DEF UpdateProfile
    <3>2. request[r].email \in Emails /\ DOMAIN <<>> = {}
      BY <1>1 DEF ProfileLocals
    <3>3. /\ row \in Account /\ row.role = account.role
          /\ \A f \in AccountColumns : f # "email" => row[f] = account[f]
      BY <1>2, <3>2
    <3>4. RowTypes'
      BY <3>1, <3>2, <3>3, WriteTypes DEF AccountsInv
    <3>5. RowAsAsked'
      BY <3>1, <3>2, <3>3, WriteKeeps DEF AccountsInv
    <3> QED BY <3>1, <3>3, <3>4, <3>5 DEF Write
  <2>2. CASE account.role # "trainee"
    <3>1. PICK email \in Emails :
            Write([account EXCEPT !.email = email], [email |-> email], {})
      BY <2>2 DEF UpdateProfile
    <3> DEFINE row == [account EXCEPT !.email = email]
               set == [email |-> email]
    <3>2. /\ row \in Account /\ row.role = account.role /\ row["email"] = email
          /\ \A f \in AccountColumns : f # "email" => row[f] = account[f]
      BY <1>2
    <3>3. DOMAIN set = {"email"} /\ set["email"] = row["email"]
      BY <3>2, OneColumnSet
    <3>4. "email" \in AccountColumns
      BY DEF AccountColumns
    <3> HIDE DEF row, set
    <3>5. Write(row, set, {})
      BY <3>1 DEF row, set
    <3> QED BY <3>2, <3>3, <3>4, <3>5, OneColumn
  <2> QED BY <2>1, <2>2
<1>4. request' = [request EXCEPT ![r] = NoValue] /\ Forward
      /\ rowHolder' = rowHolder /\ signedOut' = signedOut
  BY ForwardStays DEF UpdateProfile, Answer, Goto, AccountsInv
<1>5. CallTypes' /\ HolderIsInFlight'
  BY <1>1, <1>4, Answered, QuietCall DEF AccountsInv
<1> QED BY <1>3, <1>4, <1>5, Answered, NothingFits, StepKeeps DEF AccountsInv, SessionTypes

-------------------------------------------------------------------------------
(* The staff's calls.                                                      *)

\* A PATCH keeps what it was given and what it read; of a coordinator it was
\* not given an e-mail.
LEMMA PatchReadKeeps ==
  ASSUME AccountsInv, NEW r \in Requests, PatchRead(r)
  PROVE  AccountsInv'
<1>1. PICK given \in SUBSET PatchFields, email \in Emails, status \in AccountStatuses :
        /\ account.role = "coordinator" => "email" \notin given
        /\ request' = [request EXCEPT ![r] =
             [op |-> "patch", email |-> email, status |-> status, given |-> given,
              was |-> account.status, marked |-> {}, pc |-> "write"]]
  BY DEF PatchRead, Goto
<1> DEFINE q == [op |-> "patch", email |-> email, status |-> status, given |-> given,
                 was |-> account.status, marked |-> {}, pc |-> "write"]
<1>2. q \in PatchLocals
  BY DEF AccountsInv, RowTypes, Account, PatchLocals
<1>3. q \in Request /\ ~Holding(q) /\ Fits(q)
  BY <1>1, <1>2, RequestSplit DEF Holding, Fits
<1>4. ~Holding(request[r]) /\ Forward
  BY ForwardStays DEF PatchRead, Holding, AccountsInv
<1> QED BY <1>1, <1>3, <1>4, QuietStep DEF PatchRead

\* Its transaction takes the row and marks the live sessions.
LEMMA PatchWriteKeeps ==
  ASSUME AccountsInv, NEW r \in Requests, PatchWrite(r)
  PROVE  AccountsInv'
<1> DEFINE q == [request[r] EXCEPT !.marked = Live, !.pc = "commit"]
<1>1. request[r] \in PatchLocals /\ Fits(request[r]) /\ request[r] # NoValue
  BY InFlight, LocalsAt DEF PatchWrite, AccountsInv, CallsFit
<1>2. q \in PatchLocals /\ q.given = request[r].given /\ q.marked = Live
      /\ q.op = "patch" /\ q.pc = "commit"
  BY <1>1 DEF PatchLocals, Live
<1>3. q \in Request /\ q # NoValue
  BY <1>2, RequestSplit, RequestAssumption
<1>4. Holding(q) /\ Fits(q)
  BY <1>1, <1>2, <1>3 DEF Holding, Fits, Live, PatchLocals
<1>5. request' = [request EXCEPT ![r] = q] /\ Forward /\ rowHolder = NoValue
      /\ rowHolder' = r /\ signedOut' = signedOut
  BY ForwardStays DEF PatchWrite, AccountFree, Goto, AccountsInv
<1>6. CallTypes' /\ HolderIsInFlight'
  BY <1>3, <1>4, <1>5, CallMoves DEF AccountsInv
<1>7. RowTypes' /\ RowAsAsked' /\ account'.role = account.role
  BY RowStays DEF PatchWrite
<1> QED BY <1>3, <1>4, <1>5, <1>6, <1>7, StepKeeps DEF AccountsInv, SessionTypes

\* A reset takes the row at once.
LEMMA AssignWriteKeeps ==
  ASSUME AccountsInv, NEW r \in Requests, AssignWrite(r)
  PROVE  AccountsInv'
<1>1. PICK new \in Passwords :
        request' = [request EXCEPT ![r] =
          [op |-> "assign", new |-> new, marked |-> Live, pc |-> "commit"]]
  BY DEF AssignWrite, Goto
<1> DEFINE q == [op |-> "assign", new |-> new, marked |-> Live, pc |-> "commit"]
<1>2. q \in AssignLocals
  BY DEF AssignLocals, Live
<1>3. q \in Request /\ q # NoValue
  BY <1>2, RequestSplit, RequestAssumption
<1>4. Holding(q) /\ Fits(q)
  BY <1>3 DEF Holding, Fits, Live
<1>5. Forward /\ rowHolder = NoValue /\ rowHolder' = r /\ signedOut' = signedOut
  BY ForwardStays DEF AssignWrite, AccountFree, AccountsInv
<1>6. CallTypes' /\ HolderIsInFlight'
  BY <1>1, <1>3, <1>4, <1>5, CallMoves DEF AccountsInv
<1>7. RowTypes' /\ RowAsAsked' /\ account'.role = account.role
  BY RowStays DEF AssignWrite
<1> QED BY <1>1, <1>3, <1>4, <1>5, <1>6, <1>7, StepKeeps DEF AccountsInv, SessionTypes

\* What a PATCH sets.
LEMMA PatchSets ==
  ASSUME NEW q \in PatchLocals
  PROVE  LET set == [f \in q.given |-> q[f]] IN
           /\ DOMAIN set = q.given /\ q.given \subseteq PatchFields
           /\ \A f \in DOMAIN set : set[f] = q[f] /\ set[f] \in ColumnValues
BY DEF PatchLocals, PatchFields, ColumnValues

\* The row a PATCH writes: what was given is as given, and the password stays.
LEMMA PatchedRow ==
  ASSUME AccountsInv, NEW r \in Requests, request[r] \in PatchLocals
  PROVE  /\ Patched(r) \in Account /\ Patched(r).role = account.role
         /\ \A f \in request[r].given : Patched(r)[f] = request[r][f]
         /\ Patched(r)["password"] = account["password"]
<1> DEFINE q == request[r]
<1>1. account \in Account
  BY DEF AccountsInv, RowTypes
<1>2. q.email \in Emails /\ q.status \in AccountStatuses /\ q.given \subseteq PatchFields
  BY DEF PatchLocals
<1>3. account.role = "coordinator" => "email" \notin q.given
  BY RequestSplit, RequestAssumption DEF AccountsInv, CallsFit, Fits, PatchLocals
<1>4. q["email"] = q.email /\ q["status"] = q.status
  OBVIOUS
<1>5. CASE account.role = "trainee"
  <2>1. Patched(r) = [account EXCEPT !.email = q.email, !.status = q.status]
    BY <1>5 DEF Patched
  <2>2. /\ Patched(r) \in Account /\ Patched(r).role = account.role
        /\ Patched(r)["email"] = q.email /\ Patched(r)["status"] = q.status
        /\ Patched(r)["password"] = account["password"]
    BY <1>1, <1>2, <2>1 DEF Account
  <2> QED BY <1>2, <2>2 DEF PatchFields
<1>6. CASE account.role = "coordinator"
  <2>1. Patched(r) = [account EXCEPT !.status = q.status]
    BY <1>6 DEF Patched
  <2>2. /\ Patched(r) \in Account /\ Patched(r).role = account.role
        /\ Patched(r)["status"] = q.status
        /\ Patched(r)["password"] = account["password"]
    BY <1>1, <1>2, <2>1 DEF Account
  <2> QED BY <1>2, <1>3, <1>6, <2>2 DEF PatchFields
<1> QED BY <1>1, <1>5, <1>6 DEF Account

\* The row is written, and the sessions it marked end if it closes the account.
LEMMA PatchCommitKeeps ==
  ASSUME AccountsInv, NEW r \in Requests, PatchCommit(r)
  PROVE  AccountsInv'
<1> DEFINE q == request[r]
           row == Patched(r)
           set == [f \in q.given |-> q[f]]
           back == PatchFields \ q.given
<1>1. q \in PatchLocals /\ q # NoValue /\ Fits(q) /\ Holding(q)
  BY InFlight, LocalsAt DEF PatchCommit, AccountsInv, CallsFit, Holding
<1>2. Write(row, set, back)
  BY DEF PatchCommit
<1>3. /\ row \in Account /\ row.role = account.role
      /\ \A f \in q.given : row[f] = q[f]
      /\ row["password"] = account["password"]
  BY <1>1, PatchedRow
<1>4. /\ DOMAIN set = q.given /\ q.given \subseteq PatchFields
      /\ \A f \in DOMAIN set : set[f] = q[f] /\ set[f] \in ColumnValues
  BY <1>1, PatchSets
<1>5. \A f \in DOMAIN set : row[f] = set[f] /\ set[f] \in ColumnValues
  BY <1>3, <1>4
<1>6. \A f \in AccountColumns : f \notin DOMAIN set /\ f \notin back => row[f] = account[f]
  <2>1. \A f \in AccountColumns : f \notin PatchFields => f = "password"
    BY DEF AccountColumns, PatchFields
  <2> QED BY <1>3, <1>4, <2>1
<1>7. RowTypes' /\ RowAsAsked' /\ account'.role = account.role
  <2> HIDE DEF row, set, back
  <2>1. RowTypes'
    BY <1>2, <1>3, <1>5, WriteTypes DEF AccountsInv
  <2>2. RowAsAsked'
    BY <1>2, <1>3, <1>5, <1>6, WriteKeeps DEF AccountsInv
  <2> QED BY <1>2, <1>3, <2>1, <2>2 DEF Write
<1>8. request' = [request EXCEPT ![r] = NoValue] /\ rowHolder' = NoValue
  BY DEF PatchCommit, Answer, Goto
<1>9. CallTypes' /\ HolderIsInFlight'
  BY <1>1, <1>8, Answered, CallMoves DEF AccountsInv, HolderIsInFlight
<1>10. q.marked \subseteq Sessions /\ \A s \in q.marked : sessions[s].state # "unused"
  BY <1>1 DEF PatchLocals, Fits
<1>11. Forward /\ (Deactivates(r) => \A s \in q.marked : sessions'[s].state = "over")
  <2>1. CASE Deactivates(r)
    BY <1>10, <2>1, RevokedForward DEF PatchCommit, AccountsInv
  <2>2. CASE ~Deactivates(r)
    BY <2>2, ForwardStays DEF PatchCommit, AccountsInv
  <2> QED BY <2>1, <2>2
<1>12. signedOut' = signedOut \/ (Deactivates(r) /\ signedOut' = signedOut \cup q.marked)
  BY DEF PatchCommit, Deactivates
<1>13. /\ signedOut' \subseteq Sessions
       /\ \A s \in signedOut' : s \in signedOut \/ sessions'[s].state = "over"
  BY <1>10, <1>11, <1>12 DEF AccountsInv, SessionTypes
<1> QED BY <1>7, <1>8, <1>9, <1>11, <1>13, Answered, NothingFits, StepKeeps

\* The password is written, and every session it marked ends.
LEMMA AssignCommitKeeps ==
  ASSUME AccountsInv, NEW r \in Requests, AssignCommit(r)
  PROVE  AccountsInv'
<1> DEFINE q == request[r]
           row == [account EXCEPT !.password = q.new, !.outdated = FALSE]
           set == [password |-> q.new]
<1>1. q \in AssignLocals /\ q # NoValue /\ Fits(q) /\ Holding(q)
  BY InFlight, LocalsAt DEF AssignCommit, AccountsInv, CallsFit, Holding
<1>2. account \in Account /\ q.new \in Passwords
  BY <1>1 DEF AccountsInv, RowTypes, AssignLocals
<1>3. RowTypes' /\ RowAsAsked' /\ account'.role = account.role
  <2>1. /\ row \in Account /\ row.role = account.role /\ row["password"] = q.new
        /\ \A f \in AccountColumns : f # "password" => row[f] = account[f]
    BY <1>2 DEF Account, AccountColumns
  <2>2. DOMAIN set = {"password"} /\ set["password"] = row["password"]
    BY <2>1, OneColumnSet
  <2>3. "password" \in AccountColumns
    BY DEF AccountColumns
  <2>4. Write(row, set, {})
    BY DEF AssignCommit
  <2> HIDE DEF row, set
  <2> QED BY <2>1, <2>2, <2>3, <2>4, OneColumn
<1>4. request' = [request EXCEPT ![r] = NoValue] /\ rowHolder' = NoValue
  BY DEF AssignCommit, Answer, Goto
<1>5. CallTypes' /\ HolderIsInFlight'
  BY <1>1, <1>4, Answered, CallMoves DEF AccountsInv, HolderIsInFlight
<1>6. q.marked \subseteq Sessions /\ \A s \in q.marked : sessions[s].state # "unused"
  BY <1>1 DEF AssignLocals, Fits
<1>7. Forward /\ \A s \in q.marked : sessions'[s].state = "over"
  BY <1>6, RevokedForward DEF AssignCommit, ResetRevokes, AccountsInv
<1>8. /\ signedOut' \subseteq Sessions
      /\ \A s \in signedOut' : s \in signedOut \/ sessions'[s].state = "over"
  BY <1>6, <1>7 DEF AssignCommit, AccountsInv, SessionTypes
<1> QED BY <1>3, <1>4, <1>5, <1>7, <1>8, Answered, NothingFits, StepKeeps

-------------------------------------------------------------------------------
(* Everything else, and the theorems about an account.                     *)

\* A call that dies gives the row back.
LEMMA FailKeeps ==
  ASSUME AccountsInv, NEW r \in Requests, Fail(r)
  PROVE  AccountsInv'
<1>1. request' = [request EXCEPT ![r] = NoValue] /\ Forward
      /\ rowHolder' = (IF rowHolder = r THEN NoValue ELSE rowHolder)
      /\ signedOut' = signedOut
  BY ForwardStays DEF Fail, Answer, Goto, AccountsInv
<1>2. CallTypes' /\ HolderIsInFlight'
  BY <1>1, Answered, CallMoves DEF AccountsInv
<1>3. RowTypes' /\ RowAsAsked' /\ account'.role = account.role
  BY RowStays DEF Fail
<1> QED BY <1>1, <1>2, <1>3, Answered, NothingFits, StepKeeps DEF AccountsInv, SessionTypes

\* An expired session is over for good.
LEMMA ExpireKeeps ==
  ASSUME AccountsInv, NEW s \in Sessions, Expire(s)
  PROVE  AccountsInv'
<1>1. sessions[s] \in LoginSession
  BY DEF AccountsInv, SessionTypes
<1>2. [sessions[s] EXCEPT !.state = "over"] \in LoginSession
      /\ [sessions[s] EXCEPT !.state = "over"].state = "over"
  BY <1>1 DEF LoginSession
<1>3. sessions' = [sessions EXCEPT ![s] = [sessions[s] EXCEPT !.state = "over"]]
  BY <1>1 DEF Expire
<1>4. Forward
  BY <1>2, <1>3 DEF AccountsInv, SessionTypes, Forward
<1>5. RowTypes' /\ RowAsAsked' /\ CallTypes' /\ HolderIsInFlight'
  BY DEF Expire, AccountsInv, RowTypes, RowAsAsked, CallTypes, HolderIsInFlight
<1>6. SessionTypes' /\ SignedOutIsOver'
  BY <1>4 DEF Expire, AccountsInv, SessionTypes, SignedOutIsOver, Forward
<1>7. ASSUME NEW v \in Requests PROVE Fits(request[v])'
  <2>1. request[v] \in Request \cup {NoValue} /\ Fits(request[v])
    BY DEF AccountsInv, CallTypes, CallsFit
  <2>2. ASSUME request[v] # NoValue, request[v].op \in {"patch", "assign"}
        PROVE  request[v].marked \subseteq Sessions
    BY <2>1, <2>2, LocalsAt DEF PatchLocals, AssignLocals
  <2> QED BY <1>4, <2>1, <2>2 DEF Expire, Fits, Forward
<1> QED BY <1>5, <1>6, <1>7 DEF AccountsInv, CallsFit

\* A system that was just installed.
LEMMA AccountsInitInv == AccountsInit => AccountsInv
<1> SUFFICES ASSUME AccountsInit PROVE AccountsInv
  OBVIOUS
<1>1. RowTypes /\ RowAsAsked
  BY ColumnsTyped DEF AccountsInit, RowTypes, RowAsAsked
<1>2. CallTypes /\ CallsFit
  BY DEF AccountsInit, CallTypes, CallsFit, Fits
<1>3. HolderIsInFlight
  BY RequestAssumption DEF AccountsInit, HolderIsInFlight, Holding
<1>4. SessionTypes /\ SignedOutIsOver
  BY AccountsAssumption DEF AccountsInit, SessionTypes, SignedOutIsOver, LoginSession
<1> QED BY <1>1, <1>2, <1>3, <1>4 DEF AccountsInv

\* Every step keeps the invariant.
LEMMA AccountsStep == AccountsInv /\ [AccountsNext]_accountsVars => AccountsInv'
<1> SUFFICES ASSUME AccountsInv, [AccountsNext]_accountsVars PROVE AccountsInv'
  OBVIOUS
<1>1. ASSUME NEW r \in Requests, OwnerStep(r) PROVE AccountsInv'
  <2>1. ASSUME NEW s \in Sessions, NEW op \in {"logout", "csrf", "change", "profile"},
               Resolve(r, s, op)
        PROVE  AccountsInv'
    BY <2>1, ResolveKeeps
  <2> QED BY <1>1, <2>1, LoginReadKeeps, LoginRehashKeeps, LoginCreateKeeps, LogoutKeeps,
             RotateCSRFKeeps, ClientToldKeeps, ChangeVerifyKeeps, ChangePasswordKeeps,
             UpdateProfileKeeps DEF OwnerStep
<1>2. ASSUME NEW r \in Requests, StaffStep(r) PROVE AccountsInv'
  BY <1>2, PatchReadKeeps, PatchWriteKeeps, PatchCommitKeeps, AssignWriteKeeps,
     AssignCommitKeeps DEF StaffStep
<1>3. ASSUME NEW r \in Requests, Fail(r) PROVE AccountsInv'
  BY <1>3, FailKeeps
<1>4. ASSUME NEW s \in Sessions, Expire(s) PROVE AccountsInv'
  BY <1>4, ExpireKeeps
<1>5. CASE UNCHANGED accountsVars
  <2>1. RowTypes' /\ RowAsAsked' /\ CallTypes' /\ HolderIsInFlight'
    BY <1>5 DEF accountsVars, AccountsInv, RowTypes, RowAsAsked, CallTypes, HolderIsInFlight
  <2>2. SessionTypes' /\ CallsFit' /\ SignedOutIsOver'
    BY <1>5 DEF accountsVars, AccountsInv, SessionTypes, CallsFit, Fits, SignedOutIsOver
  <2> QED BY <2>1, <2>2 DEF AccountsInv
<1> QED BY <1>1, <1>2, <1>3, <1>4, <1>5 DEF AccountsNext

\* The invariant holds always.
THEOREM AccountsInvariant == AccountsSpec => []AccountsInv
BY AccountsInitInv, AccountsStep, PTL DEF AccountsSpec

\* Rows and locals have their types, and the row belongs to a call in flight.
THEOREM AccountTypes == AccountsSpec => []AccountsTypeOK
<1>1. AccountsInv => AccountsTypeOK
  BY TypeParts DEF AccountsInv
<1> QED BY <1>1, AccountsInvariant, PTL

\* No session that a reset or a closing PATCH was to end is live again, however
\* many calls, sessions and failures there are.
THEOREM SignOutIsForGood == AccountsSpec => []SignOutReachesEverySession
<1>1. AccountsInv => SignOutReachesEverySession
  BY DEF AccountsInv, SignedOutIsOver, SignOutReachesEverySession, Live
<1> QED BY <1>1, AccountsInvariant, PTL

\* Whoever asks for a column gets it, unless a call wrote back what it had read
\* before another changed it.
THEOREM OnlyOverlapLosesEdits == AccountsSpec => []EditsAreLostOnlyByOverlap
<1>1. AccountsInv => EditsAreLostOnlyByOverlap
  BY DEF AccountsInv, RowAsAsked, EditsAreLostOnlyByOverlap
<1> QED BY <1>1, AccountsInvariant, PTL

-------------------------------------------------------------------------------
(* The directory: the inductive invariant.                                 *)

\* The rows of the table a key belongs to.
RowOf(k) ==
  IF k \in Assignments THEN AssignmentRow
  ELSE IF k \in Sites THEN SiteRow ELSE SettingsRow

RowsTyped == \A k \in Keys : rows[k] # Absent => rows[k] \in RowOf(k)

\* A call in flight writes a row of its table; a creation gives every column,
\* a PATCH is of a row that exists.
CallsTyped ==
  \A c \in Writing :
    /\ call[c].key \in Keys
    /\ call[c].row \in RowOf(call[c].key)
    /\ call[c].op = "create" => call[c].given = Columns(call[c].key)
    /\ call[c].op \in {"create", "patch"}

\* What a table accepts: CHECK constraints, integers, references.
Stored(k, row) == Checks(k, row) /\ NumbersFit(k, row) /\ SiteResolves(k, row)

\* What a call that gave these columns may ask to be written.
Owed(k, row, given) ==
  /\ Checks(k, row)
  /\ ~NumbersFit(k, row) => Numeric(k) \in given
  /\ ~SiteResolves(k, row) => "site" \in given

\* What is stored was accepted, and its site stays.
RowsPass == \A k \in Keys : rows[k] # Absent => Stored(k, rows[k])

DInv ==
  /\ DirectoryTypeOK
  /\ RowsTyped
  /\ CallsTyped
  /\ RowsPass
  /\ TablesRefuseOnlyWhatIsGiven
  /\ OneActiveAssignment
  /\ PatchesAreLostOnlyByOverlap

-------------------------------------------------------------------------------
(* Rows and columns.                                                       *)

\* Keys of the three tables are different.
LEMMA KeysApart ==
  /\ \A k \in Keys : \/ k \in Assignments /\ k \notin Sites /\ k # SettingsKey
                     \/ k \in Sites /\ k \notin Assignments /\ k # SettingsKey
                     \/ k = SettingsKey /\ k \notin Assignments /\ k \notin Sites
  BY DirectoryAssumption DEF Keys

\* A row is the function of its columns.
LEMMA RowIsItsColumns ==
  ASSUME NEW k \in Keys, NEW row \in RowOf(k)
  PROVE  /\ row \in Row /\ row # Absent
         /\ row = [f \in Columns(k) |-> row[f]]
<1>1. row \in Row
  BY DEF RowOf, Row
<1>2. row # Absent
  BY <1>1, DirectoryAssumption
<1>3. row = [f \in Columns(k) |-> row[f]]
  <2>1. CASE k \in Assignments
    BY <2>1 DEF RowOf, Columns, AssignmentRow
  <2>2. CASE k \notin Assignments /\ k \in Sites
    BY <2>2 DEF RowOf, Columns, SiteRow
  <2>3. CASE k \notin Assignments /\ k \notin Sites
    BY <2>3 DEF RowOf, Columns, SettingsRow
  <2> QED
    BY <2>1, <2>2, <2>3
<1> QED
  BY <1>1, <1>2, <1>3

\* A function of the columns with values they may be asked for is a row.
LEMMA ColumnsMakeARow ==
  ASSUME NEW k \in Keys, NEW row, row = [f \in Columns(k) |-> row[f]],
         \A f \in Columns(k) : row[f] \in Values(k, f)
  PROVE  row \in RowOf(k)
<1>1. CASE k \in Assignments
  <2>1. /\ row["site"] \in Sites /\ row["start"] \in Days
        /\ row["end"] \in Days \cup {Absent} /\ row["rule"] \in Rules
        /\ row["status"] \in ValidStatuses
    BY <1>1 DEF Columns, Values
  <2> QED
    BY <1>1, <2>1 DEF RowOf, Columns, AssignmentRow
<1>2. CASE k \notin Assignments /\ k \in Sites
  <2>1. row["radius"] \in Amounts /\ row["active"] \in BOOLEAN
    BY <1>2 DEF Columns, Values
  <2> QED
    BY <1>2, <2>1 DEF RowOf, Columns, SiteRow
<1>3. CASE k \notin Assignments /\ k \notin Sites
  <2>1. row["accuracy"] \in Amounts /\ row["cutoff"] \in {0, 1}
    BY <1>3 DEF Columns, Values
  <2> QED
    BY <1>3, <2>1 DEF RowOf, Columns, SettingsRow
<1> QED
  BY <1>1, <1>2, <1>3

\* Its columns have such values.
LEMMA RowHasItsValues ==
  ASSUME NEW k \in Keys, NEW row \in RowOf(k), NEW f \in Columns(k)
  PROVE  row[f] \in Values(k, f)
<1>1. CASE k \in Assignments
  BY <1>1 DEF RowOf, Columns, Values, AssignmentRow
<1>2. CASE k \notin Assignments /\ k \in Sites
  BY <1>2 DEF RowOf, Columns, Values, SiteRow
<1>3. CASE k \notin Assignments /\ k \notin Sites
  BY <1>3 DEF RowOf, Columns, Values, SettingsRow
<1> QED
  BY <1>1, <1>2, <1>3

\* What a PATCH gives are legal columns, and a merged row is a row: columns
\* that are not given are as they were read.
LEMMA MergedRow ==
  ASSUME NEW k \in Keys, rows[k] \in RowOf(k), NEW patch \in Patches(k)
  PROVE  /\ Given(patch) \subseteq Columns(k)
         /\ Merged(k, patch) \in RowOf(k)
         /\ \A f \in Columns(k) \ Given(patch) : Merged(k, patch)[f] = rows[k][f]
<1>1. patch \subseteq Fields(k)
  BY DEF Patches, kSubset
<1>2. \A p \in patch : p[1] \in Columns(k) /\ p[2] \in Values(k, p[1])
  BY <1>1 DEF Fields
<1>3. Given(patch) \subseteq Columns(k)
  BY <1>2 DEF Given
<1>4. ASSUME NEW f \in Columns(k)
      PROVE  Merged(k, patch)[f] \in Values(k, f)
  <2>1. CASE f \in Given(patch)
    <3>1. \E p \in patch : p[1] = f
      BY <2>1 DEF Given
    <3>2. (CHOOSE p \in patch : p[1] = f)[2] \in Values(k, f)
      BY <1>2, <3>1
    <3> QED
      BY <1>4, <2>1, <3>2 DEF Merged
  <2>2. CASE f \notin Given(patch)
    BY <1>4, <2>2, RowHasItsValues DEF Merged
  <2> QED
    BY <2>1, <2>2
<1>5. \A f \in Columns(k) \ Given(patch) : Merged(k, patch)[f] = rows[k][f]
  BY DEF Merged
<1>6. Merged(k, patch) = [f \in Columns(k) |-> Merged(k, patch)[f]]
  BY DEF Merged
<1>7. Merged(k, patch) \in RowOf(k)
  BY <1>4, <1>6, ColumnsMakeARow
<1> QED
  BY <1>3, <1>5, <1>7

\* A merged row that validation accepts passes the CHECK constraints, and the
\* tables otherwise refuse only columns that were given: what was not given was
\* stored by a request that passed.
LEMMA AcceptedPasses ==
  ASSUME NEW k \in Keys, rows[k] \in RowOf(k), Stored(k, rows[k]),
         NEW patch \in Patches(k), Accepts(k, Merged(k, patch), Given(patch))
  PROVE  Owed(k, Merged(k, patch), Given(patch))
<1> DEFINE row == Merged(k, patch)
<1>1. \A f \in Columns(k) \ Given(patch) : row[f] = rows[k][f]
  BY MergedRow
<1> HIDE DEF row
<1>2. Checks(k, row)
  <2>1. CASE k \in Assignments
    BY <1>1, <2>1 DEF Accepts, Checks, Stored, Columns, row
  <2>2. CASE k \notin Assignments
    BY <1>1, <2>2 DEF Accepts, Checks, Stored, Columns, row
  <2> QED
    BY <2>1, <2>2
<1>3. ~NumbersFit(k, row) => Numeric(k) \in Given(patch)
  BY <1>1 DEF NumbersFit, Numeric, Stored, Columns
<1>4. ~SiteResolves(k, row) => "site" \in Given(patch)
  BY <1>1 DEF SiteResolves, Stored, Columns
<1> QED
  BY <1>2, <1>3, <1>4 DEF Owed, row

-------------------------------------------------------------------------------
(* The steps.                                                              *)

\* The tables of a fresh or an old installation satisfy DInv.
LEMMA DirectoryInitInv == DirectoryInit => DInv
<1> SUFFICES ASSUME DirectoryInit PROVE DInv
  OBVIOUS
<1> DEFINE site == [radius |-> 1, active |-> TRUE]
           settings == [accuracy |-> 1, cutoff |-> 1]
<1>1. /\ rows \in [Keys -> {Absent, site, settings} \cup Proposals]
      /\ \A k \in Assignments : rows[k] \in Proposals \cup {Absent}
      /\ \A k \in Sites : rows[k] \in {Absent, site}
      /\ rows[SettingsKey] = settings
      /\ \A k \in Assignments : rows[k] # Absent =>
           Checks(k, rows[k]) /\ NumbersFit(k, rows[k]) /\ rows[rows[k].site] # Absent
      /\ \A k, l \in Assignments : rows[k] # Absent /\ rows[l] # Absent
            /\ rows[k].status = "active" /\ rows[l].status = "active" => k = l
      /\ call = [c \in Calls |-> Absent] /\ wanted = rows /\ clobbered = FALSE
  BY DEF DirectoryInit
<1>2. /\ site \in SiteRow /\ settings \in SettingsRow /\ Proposals \subseteq AssignmentRow
      /\ site.radius = 1 /\ settings.accuracy = 1
  BY DirectoryAssumption DEF SiteRow, SettingsRow, Amounts
<1> HIDE DEF site, settings
<1>3. Writing = {}
  BY <1>1 DEF Writing
<1>4. DirectoryTypeOK
  BY <1>1, <1>2 DEF DirectoryTypeOK, Row
<1>5. RowsTyped
  BY <1>1, <1>2, KeysApart DEF RowsTyped, RowOf
<1>6. RowsPass
  <2>1. ASSUME NEW k \in Sites, rows[k] # Absent PROVE Stored(k, rows[k])
    BY <1>1, <1>2, <2>1, KeysApart DEF Stored, Checks, NumbersFit, SiteResolves, Widest, Keys
  <2>2. Stored(SettingsKey, rows[SettingsKey])
    BY <1>1, <1>2, KeysApart DEF Stored, Checks, NumbersFit, SiteResolves, Widest, Keys
  <2>3. ASSUME NEW k \in Assignments, rows[k] # Absent PROVE Stored(k, rows[k])
    BY <1>1, <2>3 DEF Stored, SiteResolves
  <2> QED
    BY <2>1, <2>2, <2>3 DEF RowsPass, Keys
<1>7. OneActiveAssignment
  BY <1>1 DEF OneActiveAssignment
<1> QED
  BY <1>1, <1>3, <1>4, <1>5, <1>6, <1>7 DEF DInv, CallsTyped, TablesRefuseOnlyWhatIsGiven,
     PatchesAreLostOnlyByOverlap

\* A call that goes on with a row of its table.
LEMMA ReadKeeps ==
  ASSUME DInv, NEW c \in Calls, NEW k \in Keys, NEW row \in RowOf(k),
         NEW given \in SUBSET Columns(k), NEW op \in {"create", "patch"},
         Owed(k, row, given),
         op = "create" => given = Columns(k),
         call' = [call EXCEPT ![c] = [key |-> k, row |-> row, given |-> given, op |-> op]],
         UNCHANGED <<rows, wanted, clobbered>>
  PROVE  DInv'
<1> DEFINE local == [key |-> k, row |-> row, given |-> given, op |-> op]
<1>1. /\ local \in Local /\ local.key = k /\ local.row = row
      /\ local.given = given /\ local.op = op
  <2>1. row \in Row
    BY RowIsItsColumns
  <2>2. Columns(k) \subseteq {"site", "start", "end", "rule", "status", "radius",
                              "active", "accuracy", "cutoff"}
    BY DEF Columns
  <2> QED
    BY <2>1, <2>2 DEF Local
<1>2. local # Absent /\ local # Ended
  BY <1>1, DirectoryAssumption
<1>3. call' = [call EXCEPT ![c] = local]
  OBVIOUS
<1> HIDE DEF local
<1>4. call'[c] = local /\ \A d \in Calls \ {c} : call'[d] = call[d]
  BY <1>3 DEF DInv, DirectoryTypeOK
<1>5. Writing' = Writing \cup {c}
  BY <1>2, <1>4 DEF Writing
<1>6. DirectoryTypeOK'
  BY <1>1, <1>3 DEF DInv, DirectoryTypeOK
<1>7. CallsTyped'
  BY <1>1, <1>4, <1>5 DEF DInv, CallsTyped, Writing
<1>8. TablesRefuseOnlyWhatIsGiven'
  <2>1. Owed(k, row, given)'
    BY DEF Owed, SiteResolves
  <2>2. \A d \in Writing : Owed(call[d].key, call[d].row, call[d].given)'
          \/ d = c
    BY <1>4 DEF DInv, TablesRefuseOnlyWhatIsGiven, Owed, Written, SiteResolves, Writing
  <2> QED
    BY <1>1, <1>4, <1>5, <2>1, <2>2 DEF TablesRefuseOnlyWhatIsGiven, Owed, Written
<1>9. RowsTyped' /\ RowsPass' /\ OneActiveAssignment' /\ PatchesAreLostOnlyByOverlap'
  BY DEF DInv, RowsTyped, RowsPass, Stored, SiteResolves, OneActiveAssignment,
     PatchesAreLostOnlyByOverlap
<1> QED
  BY <1>6, <1>7, <1>8, <1>9 DEF DInv

\* Get, merge, validate.
LEMMA MergePatchKeeps ==
  ASSUME DInv, NEW c \in Calls, NEW k \in Keys, MergePatch(c, k)
  PROVE  DInv'
<1>1. PICK patch \in Patches(k) :
        /\ Accepts(k, Merged(k, patch), Given(patch))
        /\ call' = [call EXCEPT ![c] = [key |-> k, row |-> Merged(k, patch),
                                        given |-> Given(patch), op |-> "patch"]]
  BY DEF MergePatch
<1>2. rows[k] \in RowOf(k) /\ Stored(k, rows[k])
  BY DEF MergePatch, DInv, RowsTyped, RowsPass
<1>3. /\ Merged(k, patch) \in RowOf(k) /\ Given(patch) \in SUBSET Columns(k)
      /\ Owed(k, Merged(k, patch), Given(patch))
  BY <1>1, <1>2, MergedRow, AcceptedPasses
<1>4. UNCHANGED <<rows, wanted, clobbered>>
  BY DEF MergePatch
<1> QED
  BY <1>1, <1>3, <1>4, ReadKeeps

\* A creation is validated as a whole.
LEMMA CreateReadKeeps ==
  ASSUME DInv, NEW c \in Calls, NEW k \in Assignments, CreateRead(c, k)
  PROVE  DInv'
<1>1. PICK row \in Proposals :
        /\ Accepts(k, row, Columns(k)) /\ rows[row.site] # Absent
        /\ call' = [call EXCEPT ![c] = [key |-> k, row |-> row, given |-> Columns(k),
                                        op |-> "create"]]
  BY DEF CreateRead
<1>2. k \in Keys /\ row \in RowOf(k)
  BY DirectoryAssumption DEF Keys, RowOf
<1>3. Owed(k, row, Columns(k))
  BY <1>1 DEF Owed, Accepts, Checks, Columns, Numeric, SiteResolves
<1>4. UNCHANGED <<rows, wanted, clobbered>>
  BY DEF CreateRead
<1> QED
  BY <1>1, <1>2, <1>3, <1>4, ReadKeeps

\* A call that ends with a row in place, and a wish that is fulfilled.
LEMMA RowWriteKeeps ==
  ASSUME DInv, NEW c \in Calls, NEW k \in Keys, NEW row \in RowOf(k), Stored(k, row),
         ~ActiveTaken(k, row),
         rows' = [rows EXCEPT ![k] = row],
         call' = [call EXCEPT ![c] = Ended],
         clobbered' \in BOOLEAN,
         wanted' = rows' \/ (clobbered' /\ wanted' \in [Keys -> Row \cup {Absent}])
  PROVE  DInv'
<1>1. row \in Row /\ row # Absent
  BY RowIsItsColumns
<1>2. rows'[k] = row /\ \A l \in Keys \ {k} : rows'[l] = rows[l]
  BY DEF DInv, DirectoryTypeOK
<1>3. /\ call'[c] = Ended /\ \A d \in Calls \ {c} : call'[d] = call[d]
      /\ Writing' \subseteq Writing \ {c}
  BY DEF DInv, DirectoryTypeOK, Writing
<1>4. DirectoryTypeOK'
  <2>1. rows' \in [Keys -> Row \cup {Absent}]
    BY <1>1 DEF DInv, DirectoryTypeOK
  <2>2. call' \in [Calls -> Local \cup {Absent, Ended}]
    BY DEF DInv, DirectoryTypeOK
  <2> QED
    BY <2>1, <2>2 DEF DirectoryTypeOK
<1>5. RowsTyped' /\ RowsPass'
  <2>1. ASSUME NEW l \in Keys, NEW x, x \in RowOf(l), SiteResolves(l, x)
        PROVE  SiteResolves(l, x)'
    <3>1. l \in Assignments => x.site \in Keys
      BY <2>1 DEF RowOf, AssignmentRow, Keys
    <3> QED
      BY <1>1, <1>2, <2>1, <3>1 DEF SiteResolves
  <2>2. RowsTyped'
    BY <1>2 DEF DInv, RowsTyped
  <2>3. ASSUME NEW l \in Keys, rows'[l] # Absent
        PROVE  Stored(l, rows[l])'
    <3>1. rows'[l] \in RowOf(l) /\ Stored(l, rows'[l])
      BY <1>2, <2>3 DEF DInv, RowsTyped, RowsPass
    <3> QED
      BY <2>1, <3>1 DEF Stored, Checks, NumbersFit
  <2> QED
    BY <2>2, <2>3 DEF RowsPass
<1>6. CallsTyped' /\ TablesRefuseOnlyWhatIsGiven'
  <2>1. CallsTyped'
    BY <1>3 DEF DInv, CallsTyped
  <2>2. ASSUME NEW d \in Writing'
        PROVE  Owed(call[d].key, call[d].row, call[d].given)'
    <3>1. /\ d \in Writing /\ call'[d] = call[d]
          /\ call[d].key \in Keys /\ call[d].row \in RowOf(call[d].key)
          /\ Owed(call[d].key, call[d].row, call[d].given)
      BY <1>3, <2>2 DEF DInv, CallsTyped, TablesRefuseOnlyWhatIsGiven, Owed, Written, Writing
    <3>2. call[d].key \in Assignments => call[d].row.site \in Keys
      BY <3>1 DEF RowOf, AssignmentRow, Keys
    <3>3. SiteResolves(call[d].key, call[d].row) => SiteResolves(call[d].key, call[d].row)'
      BY <1>1, <1>2, <3>1, <3>2 DEF SiteResolves
    <3> QED
      BY <3>1, <3>3 DEF Owed
  <2> QED
    BY <2>1, <2>2 DEF TablesRefuseOnlyWhatIsGiven, Owed, Written
<1>7. OneActiveAssignment'
  BY <1>2 DEF DInv, OneActiveAssignment, ActiveTaken, Keys
<1>8. PatchesAreLostOnlyByOverlap'
  BY DEF PatchesAreLostOnlyByOverlap
<1> QED
  BY <1>4, <1>5, <1>6, <1>7, <1>8 DEF DInv

\* INSERT and UPDATE: the table's index speaks, and a row written back whole is
\* what was asked for unless a column has changed since it was read.
LEMMA StoreKeeps ==
  ASSUME DInv, NEW c \in Calls, Store(c)
  PROVE  DInv'
<1> DEFINE k == call[c].key
           row == call[c].row
           given == call[c].given
<1>1. /\ c \in Writing /\ Stored(k, row) /\ ~ActiveTaken(k, row)
      /\ rows' = [rows EXCEPT ![k] = row]
      /\ clobbered' = (clobbered
           \/ (call[c].op = "patch" /\ \E f \in Columns(k) \ given : row[f] # rows[k][f]))
      /\ wanted' = IF clobbered' THEN rows'
                   ELSE [wanted EXCEPT ![k] = [f \in Columns(k) |->
                           IF f \in given THEN row[f] ELSE wanted[k][f]]]
      /\ call' = [call EXCEPT ![c] = Ended]
  BY DEF Store, Stored, Written
<1>2. /\ k \in Keys /\ row \in RowOf(k)
      /\ call[c].op \in {"create", "patch"}
      /\ call[c].op = "create" => given = Columns(k)
  BY <1>1 DEF DInv, CallsTyped
<1>3. row = [f \in Columns(k) |-> row[f]]
  BY <1>2, RowIsItsColumns
<1> HIDE DEF k, row, given
<1>4. wanted' = rows'
  <2>1. CASE clobbered'
    BY <1>1, <2>1
  <2>2. CASE ~clobbered'
    <3>1. rows = wanted
      BY <1>1, <2>2 DEF DInv, PatchesAreLostOnlyByOverlap
    <3>2. \A f \in Columns(k) : f \in given \/ wanted[k][f] = row[f]
      BY <1>1, <1>2, <2>2, <3>1
    <3>3. [f \in Columns(k) |-> IF f \in given THEN row[f] ELSE wanted[k][f]]
            = [f \in Columns(k) |-> row[f]]
      BY <3>2
    <3> QED
      BY <1>1, <1>3, <2>2, <3>1, <3>3
  <2> QED
    BY <2>1, <2>2
<1>5. clobbered' \in BOOLEAN
  BY <1>1 DEF DInv, DirectoryTypeOK
<1> QED
  BY <1>1, <1>2, <1>4, <1>5, RowWriteKeeps

\* A site is created in one statement.
LEMMA CreateSiteKeeps ==
  ASSUME DInv, NEW c \in Calls, NEW k \in Sites, CreateSite(c, k)
  PROVE  DInv'
<1>1. PICK row \in SiteRow :
        /\ Accepts(k, row, Columns(k)) /\ NumbersFit(k, row)
        /\ rows' = [rows EXCEPT ![k] = row]
        /\ wanted' = [wanted EXCEPT ![k] = row]
  BY DEF CreateSite
<1>2. /\ k \in Keys /\ k \notin Assignments /\ row \in RowOf(k)
      /\ Stored(k, row) /\ ~ActiveTaken(k, row)
  BY <1>1, DirectoryAssumption
     DEF Keys, RowOf, Accepts, Stored, Checks, SiteResolves, ActiveTaken
<1>3. call' = [call EXCEPT ![c] = Ended] /\ clobbered' = clobbered /\ clobbered' \in BOOLEAN
  BY DEF CreateSite, DInv, DirectoryTypeOK
<1>4. wanted' = rows' \/ (clobbered' /\ wanted' \in [Keys -> Row \cup {Absent}])
  <2>1. row \in Row
    BY <1>2, RowIsItsColumns
  <2>2. clobbered \/ rows = wanted
    BY DEF DInv, PatchesAreLostOnlyByOverlap
  <2> QED
    BY <1>1, <1>2, <1>3, <2>1, <2>2 DEF DInv, DirectoryTypeOK
<1> QED
  BY <1>1, <1>2, <1>3, <1>4, RowWriteKeeps

\* A refused call writes nothing.
LEMMA RefuseKeeps ==
  ASSUME DInv, NEW c \in Calls, Refuse(c)
  PROVE  DInv'
<1>1. /\ call' = [call EXCEPT ![c] = Ended]
      /\ UNCHANGED <<rows, wanted, clobbered>>
  BY DEF Refuse
<1>2. /\ \A d \in Calls \ {c} : call'[d] = call[d]
      /\ Writing' \subseteq Writing \ {c}
  BY <1>1 DEF DInv, DirectoryTypeOK, Writing
<1>3. DirectoryTypeOK'
  BY <1>1 DEF DInv, DirectoryTypeOK
<1>4. CallsTyped' /\ TablesRefuseOnlyWhatIsGiven'
  BY <1>1, <1>2 DEF DInv, CallsTyped, TablesRefuseOnlyWhatIsGiven, SiteResolves, Written, Writing
<1>5. RowsTyped' /\ RowsPass' /\ OneActiveAssignment' /\ PatchesAreLostOnlyByOverlap'
  BY <1>1 DEF DInv, RowsTyped, RowsPass, Stored, SiteResolves, OneActiveAssignment, PatchesAreLostOnlyByOverlap
<1> QED
  BY <1>3, <1>4, <1>5 DEF DInv

-------------------------------------------------------------------------------
(* The theorems about the directory.                                       *)

\* Rows and calls in flight are typed and pass the CHECK constraints, one
\* assignment at most is active, and nothing was lost without an overlap.
THEOREM DirectoryInvariance == DirectorySpec => []DInv
<1>1. DInv /\ [DirectoryNext]_directoryVars => DInv'
  <2>1. ASSUME DInv, UNCHANGED directoryVars PROVE DInv'
    BY <2>1 DEF directoryVars, DInv, DirectoryTypeOK, RowsTyped, CallsTyped, RowsPass,
       Stored, SiteResolves, TablesRefuseOnlyWhatIsGiven, Written, Writing, OneActiveAssignment,
       PatchesAreLostOnlyByOverlap
  <2> QED
    BY <2>1, MergePatchKeeps, CreateReadKeeps, StoreKeeps, CreateSiteKeeps, RefuseKeeps
       DEF DirectoryNext
<1> QED
  BY <1>1, DirectoryInitInv, PTL DEF DirectorySpec

\* Rows, calls in flight and their history are typed.
THEOREM DirectoryTypes == DirectorySpec => []DirectoryTypeOK
<1>1. DInv => DirectoryTypeOK
  BY DEF DInv
<1> QED
  BY <1>1, DirectoryInvariance, PTL

\* However updates, their stale statuses and creations overlap, the trainee has
\* at most one active assignment.
THEOREM OneActive == DirectorySpec => []OneActiveAssignment
<1>1. DInv => OneActiveAssignment
  BY DEF DInv
<1> QED
  BY <1>1, DirectoryInvariance, PTL

\* What the handlers accept passes the CHECK constraints when it is written,
\* although it was validated in part before it was merged, and the tables refuse a
\* missing site or a number too wide only to the call that gave it.
THEOREM OnlyGivenIsRefused == DirectorySpec => []TablesRefuseOnlyWhatIsGiven
<1>1. DInv => TablesRefuseOnlyWhatIsGiven
  BY DEF DInv
<1> QED
  BY <1>1, DirectoryInvariance, PTL

\* A PATCH is lost only to one that wrote back a column it had read before.
THEOREM LossNeedsOverlap == DirectorySpec => []PatchesAreLostOnlyByOverlap
<1>1. DInv => PatchesAreLostOnlyByOverlap
  BY DEF DInv
<1> QED
  BY <1>1, DirectoryInvariance, PTL
================================================================================
