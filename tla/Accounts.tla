------------------------------- MODULE Accounts -------------------------------
(***************************************************************************)
(* One account (a users row), its login sessions and the calls that change *)
(* them: login, logout, CSRF rotation, the owner's own profile and         *)
(* password (internal/auth), and the staff's PATCH and password reset      *)
(* (internal/trainees for a trainee, internal/users for a coordinator).    *)
(*                                                                         *)
(* Hardly any of these runs in one transaction: what a call has read of    *)
(* the row (seen) is used after other calls have changed it.  A call that  *)
(* is refused changes nothing and has no action of its own.  Audit events, *)
(* the last_login_at and last_seen_at stamps, and the display name, which  *)
(* a PATCH writes as it writes a trainee's e-mail, are left out.           *)
(***************************************************************************)
EXTENDS Naturals, FiniteSets

CONSTANTS
  Requests,   \* HTTP calls in flight
  Sessions,   \* user_sessions rows (bound: logins)
  Emails,
  Passwords,
  MaxTokens,  \* bound: CSRF tokens issued for a session
  NoValue     \* no request in flight; a field absent from a PATCH

ASSUME AccountsAssumption ==
  /\ NoValue \notin Emails \cup Passwords
  /\ MaxTokens \in Nat \ {0}
  /\ Emails # {} /\ Passwords # {}

VARIABLES
  account,     \* the users row
  sessions,    \* its user_sessions rows
  request,     \* handler locals of a call in flight, NoValue otherwise
  rowHolder,   \* the call whose transaction has updated the row, NoValue if none
  asked,       \* history: each column as the last request set it, until overlapped
  overlapped,  \* history: a call wrote back a column changed since it read it
  signedOut    \* history: sessions that a sign-out of the account was to end

accountsVars ==
  <<account, sessions, request, rowHolder, asked, overlapped, signedOut>>

AccountStatuses == {"active", "inactive", "locked"}
AccountColumns == {"email", "status", "password"}

Account == [email : Emails, status : AccountStatuses, password : Passwords,
            outdated : BOOLEAN,  \* hashed under earlier parameters
            role : {"trainee", "coordinator"}]

LoginSession == [state : {"unused", "live", "over"},
                 csrf : 0 .. MaxTokens,  \* the token whose hash is stored
                 held : 0 .. MaxTokens]  \* the token the client was told last

\* The fields a PATCH may give; the others are written back as they were read.
PatchFields == {"email", "status"}

Request ==
  [op : {"login"}, password : Passwords, pc : {"rehash", "create"}]
  \cup [op : {"patch"}, email : Emails, status : AccountStatuses,
        given : SUBSET PatchFields, was : AccountStatuses, marked : SUBSET Sessions,
        pc : {"write", "commit"}]
  \cup [op : {"assign"}, new : Passwords, marked : SUBSET Sessions, pc : {"commit"}]
  \cup [op : {"logout", "csrf", "change"}, session : Sessions, pc : {"resolved"}]
  \cup [op : {"profile"}, email : Emails, pc : {"resolved"}]
  \cup [op : {"change"}, new : Passwords, pc : {"write"}]
  \cup [op : {"csrf"}, session : Sessions, token : 1 .. MaxTokens, pc : {"told"}]

ASSUME RequestAssumption == NoValue \notin Requests \cup Request

At(r, op, pc) ==
  request[r] # NoValue /\ request[r].op = op /\ request[r].pc = pc
Goto(r, locals) == request' = [request EXCEPT ![r] = locals]
Answer(r) == Goto(r, NoValue)

Live == {s \in Sessions : sessions[s].state = "live"}

\* A slip: nobody waits.
AccountAlwaysFree == TRUE

\* UPDATE users waits for the transaction that has updated the row.
AccountFree == rowHolder = NoValue

\* A call that was asked to set these columns writes row; the values of those
\* in back come from an earlier read of the row.
Write(row, set, back) ==
  /\ account' = row
  /\ overlapped' = (overlapped \/ \E f \in back : row[f] # account[f])
  /\ asked' = [f \in AccountColumns |-> IF overlapped' THEN row[f]
                                ELSE IF f \in DOMAIN set THEN set[f] ELSE asked[f]]

-------------------------------------------------------------------------------
(* Login: the row is read, the password verified, the session inserted.    *)

LoginRead(r) ==
  /\ request[r] = NoValue
  /\ account.status = "active"
  /\ Goto(r, [op |-> "login", password |-> account.password,
              pc |-> IF account.outdated THEN "rehash" ELSE "create"])
  /\ UNCHANGED <<account, sessions, rowHolder, asked, overlapped, signedOut>>

\* The password just verified is hashed again and stored, whatever the row
\* holds by now.
LoginRehash(r) ==
  /\ At(r, "login", "rehash")
  /\ AccountFree
  /\ Write([account EXCEPT !.password = request[r].password, !.outdated = FALSE],
           <<>>, {"password"})
  /\ Goto(r, [request[r] EXCEPT !.pc = "create"])
  /\ UNCHANGED <<sessions, rowHolder, signedOut>>

LoginCreate(r) ==
  /\ At(r, "login", "create")
  /\ \E s \in Sessions :
       /\ sessions[s].state = "unused"
       /\ sessions' = [sessions EXCEPT ![s] = [state |-> "live", csrf |-> 1, held |-> 1]]
  /\ Answer(r)
  /\ UNCHANGED <<account, rowHolder, asked, overlapped, signedOut>>

-------------------------------------------------------------------------------
(* Calls of the owner: RequireAuth resolves the session, CSRFProtect       *)
(* compares the token the client holds, the handler acts.                  *)

Resolves(s) == sessions[s].state = "live" /\ account.status = "active"

ValidCSRF(s) == sessions[s].held = sessions[s].csrf

Resolve(r, s, op) ==
  /\ request[r] = NoValue
  /\ Resolves(s)
  /\ op # "csrf" => ValidCSRF(s)
  /\ Goto(r, IF op = "profile"
             THEN [op |-> op, email |-> account.email, pc |-> "resolved"]
             ELSE [op |-> op, session |-> s, pc |-> "resolved"])
  /\ UNCHANGED <<account, sessions, rowHolder, asked, overlapped, signedOut>>

\* Sessions that are revoked: one that is unused or over stays as it is.
Revoked(S) == [s \in Sessions |->
  IF s \in S /\ sessions[s].state = "live" THEN [sessions[s] EXCEPT !.state = "over"]
                                           ELSE sessions[s]]

Logout(r) ==
  /\ At(r, "logout", "resolved")
  /\ sessions' = Revoked({request[r].session})
  /\ Answer(r)
  /\ UNCHANGED <<account, rowHolder, asked, overlapped, signedOut>>

RotateCSRF(r) ==
  /\ At(r, "csrf", "resolved")
  /\ LET s == request[r].session
         token == sessions[s].csrf + 1 IN
       /\ token <= MaxTokens
       /\ sessions' = [sessions EXCEPT ![s].csrf = token]
       /\ Goto(r, [op |-> "csrf", session |-> s, token |-> token, pc |-> "told"])
  /\ UNCHANGED <<account, rowHolder, asked, overlapped, signedOut>>

\* The answer reaches the client; those of two calls may arrive in any order.
ClientTold(r) ==
  /\ At(r, "csrf", "told")
  /\ sessions' = [sessions EXCEPT ![request[r].session].held = request[r].token]
  /\ Answer(r)
  /\ UNCHANGED <<account, rowHolder, asked, overlapped, signedOut>>

\* The current password, read now, is the one the caller states.
ChangeVerify(r) ==
  /\ At(r, "change", "resolved")
  /\ \E new \in Passwords : Goto(r, [op |-> "change", new |-> new, pc |-> "write"])
  /\ UNCHANGED <<account, sessions, rowHolder, asked, overlapped, signedOut>>

ChangePassword(r) ==
  /\ At(r, "change", "write")
  /\ AccountFree
  /\ Write([account EXCEPT !.password = request[r].new, !.outdated = FALSE],
           [password |-> request[r].new], {})
  /\ Answer(r)
  /\ UNCHANGED <<sessions, rowHolder, signedOut>>

\* A trainee's own update writes back the e-mail that RequireAuth read.
UpdateProfile(r) ==
  /\ At(r, "profile", "resolved")
  /\ AccountFree
  /\ IF account.role = "trainee"
     THEN Write([account EXCEPT !.email = request[r].email], <<>>, {"email"})
     ELSE \E email \in Emails :
            Write([account EXCEPT !.email = email], [email |-> email], {})
  /\ Answer(r)
  /\ UNCHANGED <<sessions, rowHolder, signedOut>>

-------------------------------------------------------------------------------
(* Calls of the staff.                                                     *)

\* The fields given are merged into the row as it is read.
PatchRead(r) ==
  /\ request[r] = NoValue
  /\ \E given \in SUBSET PatchFields, email \in Emails, status \in AccountStatuses :
       /\ account.role = "coordinator" => "email" \notin given
       /\ "email" \notin given => email = account.email
       /\ "status" \notin given => status = account.status
       /\ Goto(r, [op |-> "patch", email |-> email, status |-> status, given |-> given,
                   was |-> account.status, marked |-> {}, pc |-> "write"])
  /\ UNCHANGED <<account, sessions, rowHolder, asked, overlapped, signedOut>>

\* A slip: only one of the two ways to close an account signs it out.
DeactivatesInactive(r) == request[r].status = "inactive" /\ request[r].was # "inactive"

\* The update closes the account, as far as the call has seen.
Deactivates(r) == request[r].status # "active" /\ request[r].status # request[r].was

\* The transaction updates the row and marks the sessions that live now; a
\* session inserted before it commits is not among them.
PatchWrite(r) ==
  /\ At(r, "patch", "write")
  /\ AccountFree
  /\ rowHolder' = r
  /\ Goto(r, [request[r] EXCEPT !.marked = Live, !.pc = "commit"])
  /\ UNCHANGED <<account, sessions, asked, overlapped, signedOut>>

\* A slip: the e-mail a PATCH gives is not written.
PatchedStatusOnly(r) == [account EXCEPT !.status = request[r].status]

\* For a coordinator the e-mail is not among the columns written.
Patched(r) ==
  IF account.role = "trainee"
  THEN [account EXCEPT !.email = request[r].email, !.status = request[r].status]
  ELSE [account EXCEPT !.status = request[r].status]

PatchCommit(r) ==
  /\ At(r, "patch", "commit")
  /\ Write(Patched(r), [f \in request[r].given |-> request[r][f]],
           PatchFields \ request[r].given)
  /\ sessions' = IF Deactivates(r) THEN Revoked(request[r].marked) ELSE sessions
  /\ signedOut' =
       IF account.status = "active" /\ request[r].was = "active"
          /\ request[r].status # "active"
       THEN signedOut \cup request[r].marked ELSE signedOut
  /\ rowHolder' = NoValue
  /\ Answer(r)

\* A password reset ends every session that lived when it ran.
ResetRevokes(r) == request[r].marked

AssignWrite(r) ==
  /\ request[r] = NoValue
  /\ AccountFree
  /\ rowHolder' = r
  /\ \E new \in Passwords :
       Goto(r, [op |-> "assign", new |-> new, marked |-> Live, pc |-> "commit"])
  /\ UNCHANGED <<account, sessions, asked, overlapped, signedOut>>

AssignCommit(r) ==
  /\ At(r, "assign", "commit")
  /\ Write([account EXCEPT !.password = request[r].new, !.outdated = FALSE],
           [password |-> request[r].new], {})
  /\ sessions' = Revoked(ResetRevokes(r))
  /\ signedOut' = signedOut \cup request[r].marked
  /\ rowHolder' = NoValue
  /\ Answer(r)

-------------------------------------------------------------------------------
\* The server dies or a statement fails (another account has the e-mail): what
\* was committed stays, an open transaction is rolled back.
Fail(r) ==
  /\ request[r] # NoValue
  /\ rowHolder' = IF rowHolder = r THEN NoValue ELSE rowHolder
  /\ Answer(r)
  /\ UNCHANGED <<account, sessions, asked, overlapped, signedOut>>

Expire(s) ==
  /\ s \in Live
  /\ sessions' = [sessions EXCEPT ![s].state = "over"]
  /\ UNCHANGED <<account, request, rowHolder, asked, overlapped, signedOut>>

AccountsInit ==
  /\ account \in {a \in Account : a.status = "active" /\ a.outdated}
  /\ sessions = [s \in Sessions |-> [state |-> "unused", csrf |-> 0, held |-> 0]]
  /\ request = [r \in Requests |-> NoValue]
  /\ rowHolder = NoValue
  /\ asked = [f \in AccountColumns |-> account[f]]
  /\ overlapped = FALSE
  /\ signedOut = {}

OwnerStep(r) ==
  \/ LoginRead(r) \/ LoginRehash(r) \/ LoginCreate(r)
  \/ \E s \in Sessions, op \in {"logout", "csrf", "change", "profile"} : Resolve(r, s, op)
  \/ Logout(r) \/ RotateCSRF(r) \/ ClientTold(r)
  \/ ChangeVerify(r) \/ ChangePassword(r) \/ UpdateProfile(r)

StaffStep(r) ==
  \/ PatchRead(r) \/ PatchWrite(r) \/ PatchCommit(r)
  \/ AssignWrite(r) \/ AssignCommit(r)

AccountsNext ==
  \/ \E r \in Requests : OwnerStep(r) \/ StaffStep(r) \/ Fail(r)
  \/ \E s \in Sessions : Expire(s)

AccountsSpec == AccountsInit /\ [][AccountsNext]_accountsVars

-------------------------------------------------------------------------------
(* What the accounts promise.                                              *)

\* Columns and locals have their types, and a row lock belongs to the
\* transaction of a call in flight.
AccountsTypeOK ==
  /\ account \in Account
  /\ sessions \in [Sessions -> LoginSession]
  /\ request \in [Requests -> Request \cup {NoValue}]
  /\ \A r \in Requests :
       (rowHolder = r) <=> At(r, "patch", "commit") \/ At(r, "assign", "commit")
  /\ asked \in [AccountColumns -> Emails \cup AccountStatuses \cup Passwords]
  /\ overlapped \in BOOLEAN
  /\ signedOut \subseteq Sessions

\* A staff password reset, and a PATCH that closes an account it saw active,
\* end every session that lived when they ran, for good: whatever logins, CSRF
\* rotations and other updates go on meanwhile.  Only a login that had read the
\* row before can still open one (trainees.go Update, SetPassword; users.go).
SignOutReachesEverySession == signedOut \cap Live = {}

\* An account is what its last requests made it, column by column, as long as
\* no call writes back a value that has changed since it read it: a PATCH its
\* absent fields, a trainee's profile update the e-mail, a login the password
\* it hashes again.
EditsAreLostOnlyByOverlap ==
  ~overlapped => \A f \in AccountColumns : account[f] = asked[f]
===============================================================================
