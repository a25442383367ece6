------------------------------ MODULE Sessions ------------------------------
(***************************************************************************)
(* Refresh-token sessions of the API: modules/auth/auth.service.ts over    *)
(* sessions.repository.ts and users.repository.ts.                         *)
(*                                                                         *)
(* A request is a process: every database statement, or transaction, it    *)
(* awaits is one action, and what it read earlier is kept in its record.   *)
(* PostgreSQL runs at READ COMMITTED, so the rows a step reads are the     *)
(* ones committed when that step runs, and an update whose WHERE clause    *)
(* does not name a column does not notice that the column has moved on.    *)
(*                                                                         *)
(* Data abstraction.  A session row is named by its order of insertion,    *)
(* and so is the one refresh token whose hash the row stores.  A family is *)
(* named by the session that founded it.  A password is the number of the  *)
(* write that chose it.  Wrong passwords and the lockout are left to the   *)
(* login counter; tokens that match no row change nothing and are not      *)
(* actions.                                                                *)
(***************************************************************************)
EXTENDS Naturals

CONSTANTS
    User,        \* people who may have an account, one e-mail address each
    NoUser,      \* the user field of an idle request
    Request,     \* HTTP requests the servers handle at once
    MaxSession,  \* bound: session rows ever inserted
    MaxPassword  \* bound: password writes per account

ASSUME SessionsAssumption ==
    /\ NoUser \notin User
    /\ MaxSession \in Nat
    /\ MaxPassword \in Nat

VARIABLES
    issued,    \* number of session rows inserted so far
    sessions,  \* the sessions table
    accounts,  \* the users table
    requests,  \* what each in-flight request is about to do
    swept,     \* history: the newest password whose change has signed every device out
    late,      \* history: families that got a row from a rotation whose token had
               \* been revoked between its read and its insert
    straggled, \* history: families opened by a request that had passed its check
               \* before a password change signed every device out
    restored   \* history: older passwords that a login's rehash wrote back over a
               \* newer one

vars == <<issued, sessions, accounts, requests, swept, late, straggled, restored>>

SessionId == 1..MaxSession
Password == 0..MaxPassword

\* revokedReason; no code reads it back, so "withdrawn" stands for the seven
\* labels a revocation other than a rotation writes.
Reason == {"none", "rotated", "withdrawn"}

Session == [user: User, family: SessionId, expired: BOOLEAN, revoked: BOOLEAN,
            reason: Reason, replacedBy: 0..MaxSession,
            epoch: Password]  \* epoch: the password the family was opened with

Account == [status: {"absent", "active", "inactive"},
            password: Password,
            written: Password,       \* how many passwords were ever chosen
            weak: BOOLEAN]           \* hash made with outdated parameters

Step == {"idle", "register_create", "login_record", "start_session",
         "refresh_user", "refresh_rotate", "password_read", "password_write",
         "password_revoke", "revoke_find", "revoke", "revoke_family",
         "revoke_all"}

RequestState == [pc: Step, user: User \cup {NoUser}, sid: 0..MaxSession,
                 password: Password, rehash: BOOLEAN,
                 asof: Password]  \* history: swept, when the password was checked

Idle == [pc |-> "idle", user |-> NoUser, sid |-> 0,
         password |-> 0, rehash |-> FALSE, asof |-> 0]

TypeOK ==
    /\ issued \in 0..MaxSession
    /\ sessions \in [1..issued -> Session]
    /\ accounts \in [User -> Account]
    /\ requests \in [Request -> RequestState]
    /\ swept \in [User -> Password]
    /\ late \subseteq SessionId
    /\ straggled \subseteq SessionId
    /\ restored \in [User -> SUBSET Password]

Init ==
    /\ issued = 0
    /\ sessions = [s \in 1..0 |-> Idle]
    /\ accounts \in [User -> {a \in Account :
            \/ /\ a.status = "absent" /\ a.password = 0 /\ a.written = 0 /\ ~a.weak
            \/ /\ a.status = "active" /\ a.password = 1 /\ a.written = 1}]
    /\ requests = [r \in Request |-> Idle]
    /\ swept = [u \in User |-> 0]
    /\ late = {}
    /\ straggled = {}
    /\ restored = [u \in User |-> {}]

-----------------------------------------------------------------------------
Live(s) == ~sessions[s].revoked
OfFamily(f) == {s \in 1..issued : sessions[s].family = f}

\* Mutant: the newest session, taken for the caller's, survives the sweep.
OfUserButNewest(u) == {s \in 1..issued : sessions[s].user = u /\ s < issued}

OfUser(u) == {s \in 1..issued : sessions[s].user = u}

\* The updateMany every revocation is: rows already revoked keep their reason.
Revoked(S) ==
    [s \in 1..issued |->
        IF s \in S /\ Live(s)
        THEN [sessions[s] EXCEPT !.revoked = TRUE, !.reason = "withdrawn"]
        ELSE sessions[s]]

\* Mutant: every row founds a family, as create does when it is given none.
FamilyOfItsOwn(u, f, e) ==
    [user |-> u, family |-> issued + 1, expired |-> FALSE, revoked |-> FALSE,
     reason |-> "none", replacedBy |-> 0, epoch |-> e]

\* The row an insert writes, and the table after it.
NewSession(u, f, e) ==
    [user |-> u, family |-> f, expired |-> FALSE, revoked |-> FALSE,
     reason |-> "none", replacedBy |-> 0, epoch |-> e]

Inserted(table, row) ==
    [s \in 1..(issued + 1) |-> IF s = issued + 1 THEN row ELSE table[s]]

Goto(r, next) == requests' = [requests EXCEPT ![r].pc = next]
Finish(r) == requests' = [requests EXCEPT ![r] = Idle]

-----------------------------------------------------------------------------
(* register: look the address up, insert the account, start a session.     *)

RegisterRead(r, u) ==
    /\ requests[r].pc = "idle"
    /\ accounts[u].status = "absent"
    /\ requests' = [requests EXCEPT ![r] =
            [Idle EXCEPT !.pc = "register_create", !.user = u]]
    /\ UNCHANGED <<issued, sessions, accounts, swept, late, straggled, restored>>

\* The unique index on users.email fails the second of two concurrent inserts.  A
\* registration that carries an invitation accepts it next (see Membership); when
\* that fails the account stays and no session starts, as after a crash.
RegisterCreate(r) ==
    LET u == requests[r].user IN
    /\ requests[r].pc = "register_create"
    /\ \/ /\ accounts[u].status = "absent"
          /\ MaxPassword > 0
          /\ accounts' = [accounts EXCEPT ![u] =
                [status |-> "active", password |-> 1, written |-> 1, weak |-> FALSE]]
          /\ requests' = [requests EXCEPT ![r].pc = "start_session",
                                          ![r].password = 1,
                                          ![r].asof = swept[u]]
       \/ /\ accounts[u].status # "absent"
          /\ Finish(r)
          /\ UNCHANGED accounts
    /\ UNCHANGED <<issued, sessions, swept, late, straggled, restored>>

(* login: read the row and verify against the hash read, record the login  *)
(* (and the rehashed password when its parameters are outdated), start a   *)
(* session.                                                                *)

LoginVerify(r, u) ==
    /\ requests[r].pc = "idle"
    /\ accounts[u].status = "active"
    /\ requests' = [requests EXCEPT ![r] =
            [pc |-> "login_record", user |-> u, sid |-> 0,
             password |-> accounts[u].password, rehash |-> accounts[u].weak,
             asof |-> swept[u]]]
    /\ UNCHANGED <<issued, sessions, accounts, swept, late, straggled, restored>>

\* The rehash is of the password the login verified, whatever the row holds by now.
LoginRecord(r) ==
    LET u == requests[r].user
        p == requests[r].password
    IN
    /\ requests[r].pc = "login_record"
    /\ \/ /\ requests[r].rehash
          /\ accounts' = [accounts EXCEPT ![u].password = p, ![u].weak = FALSE]
          /\ restored' = [restored EXCEPT ![u] =
                            IF accounts[u].password = p THEN @ ELSE @ \cup {p}]
       \/ /\ ~requests[r].rehash
          /\ UNCHANGED <<accounts, restored>>
    /\ Goto(r, "start_session")
    /\ UNCHANGED <<issued, sessions, swept, late, straggled>>

StartSession(r) ==
    LET u == requests[r].user
        f == issued + 1
    IN
    /\ requests[r].pc = "start_session"
    /\ issued < MaxSession
    /\ sessions' = Inserted(sessions, NewSession(u, f, requests[r].password))
    /\ issued' = issued + 1
    /\ straggled' = IF swept[u] # requests[r].asof THEN straggled \cup {f} ELSE straggled
    /\ Finish(r)
    /\ UNCHANGED <<accounts, swept, late, restored>>

-----------------------------------------------------------------------------
(* The three revocations of sessions.repository.ts, the last statement of   *)
(* several handlers each.                                                  *)

Revoke(r) ==
    /\ requests[r].pc = "revoke"
    /\ sessions' = Revoked({requests[r].sid})
    /\ Finish(r)
    /\ UNCHANGED <<issued, accounts, swept, late, straggled, restored>>

\* Mutant: the replayed token is revoked, its family is not.
RevokeReplayed(r) ==
    /\ requests[r].pc = "revoke_family"
    /\ sessions' = Revoked({requests[r].sid})
    /\ Finish(r)
    /\ UNCHANGED <<issued, accounts, swept, late, straggled, restored>>

RevokeFamily(r) ==
    /\ requests[r].pc = "revoke_family"
    /\ sessions' = Revoked(OfFamily(sessions[requests[r].sid].family))
    /\ Finish(r)
    /\ UNCHANGED <<issued, accounts, swept, late, straggled, restored>>

RevokeAllForUser(r) ==
    /\ requests[r].pc = "revoke_all"
    /\ sessions' = Revoked(OfUser(requests[r].user))
    /\ Finish(r)
    /\ UNCHANGED <<issued, accounts, swept, late, straggled, restored>>

(* refresh: read the row of the token.  A revoked one kills the family, an *)
(* expired one is revoked, a live one is rotated once the user's row has   *)
(* been read and is active; an inactive user's family is killed.           *)

RefreshRead(r, s) ==
    /\ requests[r].pc = "idle"
    /\ s \in 1..issued
    /\ requests' = [requests EXCEPT ![r] = [Idle EXCEPT
            !.sid = s,
            !.pc = CASE sessions[s].revoked -> "revoke_family"
                     [] ~sessions[s].revoked /\ sessions[s].expired -> "revoke"
                     [] OTHER -> "refresh_user"]]
    /\ UNCHANGED <<issued, sessions, accounts, swept, late, straggled, restored>>

RefreshUser(r) ==
    LET u == sessions[requests[r].sid].user IN
    /\ requests[r].pc = "refresh_user"
    /\ Goto(r, IF accounts[u].status = "active"
               THEN "refresh_rotate" ELSE "revoke_family")
    /\ UNCHANGED <<issued, sessions, accounts, swept, late, straggled, restored>>

\* Mutants: the predecessor names the row after its successor; or stays live.
SupersededTooFar(row, next) ==
    [row EXCEPT !.replacedBy = next + 1, !.revoked = TRUE, !.reason = "rotated"]
SupersededAlive(row, next) ==
    [row EXCEPT !.replacedBy = next, !.reason = "rotated"]

\* The predecessor after the rotation: update({ where: { id } }) writes the row
\* whatever its state, so a revocation that landed after the read is relabelled.
Superseded(row, next) ==
    [row EXCEPT !.replacedBy = next, !.revoked = TRUE, !.reason = "rotated"]

\* Mutant: no transaction, and the predecessor is written first.
RefreshRotateInTwo(r) ==
    LET s == requests[r].sid IN
    /\ requests[r].pc = "refresh_rotate"
    /\ issued < MaxSession
    /\ \/ /\ Live(s)
          /\ sessions' = [sessions EXCEPT ![s] = Superseded(@, issued + 1)]
          /\ UNCHANGED <<issued, requests>>
       \/ /\ ~Live(s)
          /\ sessions' = Inserted(sessions, NewSession(sessions[s].user,
                                    sessions[s].family, sessions[s].epoch))
          /\ issued' = issued + 1
          /\ Finish(r)
    /\ UNCHANGED <<accounts, swept, late, straggled, restored>>

\* One transaction: insert the successor in the predecessor's family, then
\* write the predecessor.
RefreshRotate(r) ==
    LET s == requests[r].sid
        f == sessions[s].family
    IN
    /\ requests[r].pc = "refresh_rotate"
    /\ issued < MaxSession
    /\ sessions' = Inserted([sessions EXCEPT ![s] = Superseded(@, issued + 1)],
                            NewSession(sessions[s].user, f, sessions[s].epoch))
    /\ issued' = issued + 1
    /\ late' = IF Live(s) THEN late ELSE late \cup {f}
    /\ Finish(r)
    /\ UNCHANGED <<accounts, swept, straggled, restored>>

-----------------------------------------------------------------------------
(* logout: the token's row is read, and revoked if it was still live.      *)

LogoutRead(r, s) ==
    /\ requests[r].pc = "idle"
    /\ s \in 1..issued
    /\ Live(s)
    /\ requests' = [requests EXCEPT ![r] =
            [Idle EXCEPT !.pc = "revoke", !.sid = s]]
    /\ UNCHANGED <<issued, sessions, accounts, swept, late, straggled, restored>>

(* Signed-in requests: JwtAuthGuard reads the session row of the access    *)
(* token and refuses a revoked one; expiresAt is not looked at.            *)

Admit(r, s, first) ==
    /\ requests[r].pc = "idle"
    /\ s \in 1..issued
    /\ Live(s)
    /\ requests' = [requests EXCEPT ![r] =
            [Idle EXCEPT !.pc = first, !.user = sessions[s].user]]
    /\ UNCHANGED <<issued, sessions, accounts, swept, late, straggled, restored>>

LogoutEverywhere(r, s) == Admit(r, s, "revoke_all")

(* changePassword: read and verify, write the new hash, revoke every       *)
(* session of the user.  The three are separate statements.                *)

ChangePassword(r, s) == Admit(r, s, "password_read")

\* The client knows the current password or not; not knowing it ends here.
PasswordRead(r) ==
    /\ requests[r].pc = "password_read"
    /\ accounts[requests[r].user].status # "absent"
    /\ \/ Goto(r, "password_write")
       \/ Finish(r)
    /\ UNCHANGED <<issued, sessions, accounts, swept, late, straggled, restored>>

PasswordWrite(r) ==
    LET u == requests[r].user
        p == accounts[u].written + 1
    IN
    /\ requests[r].pc = "password_write"
    /\ p \in Password
    /\ accounts' = [accounts EXCEPT ![u] =
            [@ EXCEPT !.password = p, !.written = p, !.weak = FALSE]]
    /\ requests' = [requests EXCEPT ![r].pc = "password_revoke", ![r].password = p]
    /\ UNCHANGED <<issued, sessions, swept, late, straggled, restored>>

PasswordRevoke(r) ==
    LET u == requests[r].user
        p == requests[r].password
    IN
    /\ requests[r].pc = "password_revoke"
    /\ sessions' = Revoked(OfUser(u))
    /\ swept' = [swept EXCEPT ![u] = IF p > @ THEN p ELSE @]
    /\ Finish(r)
    /\ UNCHANGED <<issued, accounts, late, straggled, restored>>

(* revokeSession: find the row by id, revoke it if it is the caller's own. *)

RevokeSession(r, s) == Admit(r, s, "revoke_find")

RevokeFind(r, s) ==
    /\ requests[r].pc = "revoke_find"
    /\ s \in 1..issued
    /\ \/ /\ sessions[s].user = requests[r].user
          /\ requests' = [requests EXCEPT ![r].pc = "revoke", ![r].sid = s]
       \/ /\ sessions[s].user # requests[r].user
          /\ Finish(r)
    /\ UNCHANGED <<issued, sessions, accounts, swept, late, straggled, restored>>

-----------------------------------------------------------------------------
(* The environment. *)

\* expiresAt comes from the clock of the server that inserted the row, so rows
\* need not expire in the order they were inserted.
Expire(s) ==
    /\ s \in 1..issued
    /\ ~sessions[s].expired
    /\ sessions' = [sessions EXCEPT ![s].expired = TRUE]
    /\ UNCHANGED <<issued, accounts, requests, swept, late, straggled, restored>>

\* No endpoint writes users.is_active; an operator does, in the database.
Deactivate(u) ==
    /\ accounts[u].status = "active"
    /\ accounts' = [accounts EXCEPT ![u].status = "inactive"]
    /\ UNCHANGED <<issued, sessions, requests, swept, late, straggled, restored>>

\* The server dies, or a statement fails, between two awaits of a request.
Crash(r) ==
    /\ requests[r].pc # "idle"
    /\ Finish(r)
    /\ UNCHANGED <<issued, sessions, accounts, swept, late, straggled, restored>>

-----------------------------------------------------------------------------
\* What a request does once its handler is past the first read.
Continue(r) ==
    \/ RegisterCreate(r) \/ LoginRecord(r) \/ StartSession(r)
    \/ Revoke(r) \/ RevokeFamily(r) \/ RevokeAllForUser(r)
    \/ RefreshUser(r) \/ RefreshRotate(r)
    \/ PasswordRead(r) \/ PasswordWrite(r) \/ PasswordRevoke(r)
    \/ \E s \in SessionId : RevokeFind(r, s)

Begin(r) ==
    \/ \E u \in User : RegisterRead(r, u) \/ LoginVerify(r, u)
    \/ \E s \in SessionId :
          \/ RefreshRead(r, s) \/ LogoutRead(r, s) \/ LogoutEverywhere(r, s)
          \/ ChangePassword(r, s) \/ RevokeSession(r, s)

Environment ==
    \/ \E s \in SessionId : Expire(s)
    \/ \E u \in User : Deactivate(u)

Up == (\E r \in Request : Begin(r) \/ Continue(r)) \/ Environment

Next == Up \/ \E r \in Request : Crash(r)

Spec == Init /\ [][Next]_vars

\* While the servers stay up, the statement a request is waiting for runs: an
\* await on the database settles.  Nothing makes a client start a request.
UpSpec == Init /\ [][Up]_vars /\ \A r \in Request : WF_vars(Continue(r))

-----------------------------------------------------------------------------
(* Properties *)

\* A rotated session, and no other, names a successor, and the successor is a
\* younger session of the same family, user and password.  No session succeeds
\* two others.  Rotation never grafts a family onto another login.
Lineage ==
    \A s \in 1..issued :
        /\ sessions[s].family <= s
        /\ (sessions[s].reason = "rotated") <=> (sessions[s].replacedBy # 0)
        /\ (sessions[s].reason = "none") <=> Live(s)
        /\ sessions[s].replacedBy # 0 =>
              LET n == sessions[s].replacedBy IN
              /\ n \in (s + 1)..issued
              /\ sessions[n].user = sessions[s].user
              /\ sessions[n].family = sessions[s].family
              /\ sessions[n].epoch = sessions[s].epoch
              /\ \A t \in 1..issued : sessions[t].replacedBy = n => t = s

\* The newest session of a family is never a rotated one: however requests
\* interleave or crash, a family that ends with no live session ended by a
\* sign-out, an expiry or a kill, never by losing its token half-way through a
\* rotation.
NoSilentSignOut ==
    \A s \in 1..issued :
        (\A t \in OfFamily(sessions[s].family) : t <= s) => sessions[s].reason # "rotated"

\* A family has two live sessions only after a rotation overtook another write
\* to the token it was given.
SoleLive ==
    \A s, t \in 1..issued :
        /\ Live(s) /\ Live(t)
        /\ sessions[s].family = sessions[t].family
        /\ sessions[s].family \notin late
        => s = t

\* Once a password change has signed every device out, a session still alive
\* was opened with that password or a later one.  Two races and one write break
\* that, and nothing else does: a login or a rotation that had passed its check
\* when the devices were signed out and inserts its row afterwards, and a login's
\* rehash that writes an older password back, with which anyone who knows it
\* signs in again.
PasswordCutoff ==
    \A s \in 1..issued :
        Live(s) /\ sessions[s].family \notin late \cup straggled
        => \/ sessions[s].epoch >= swept[sessions[s].user]
           \/ sessions[s].epoch \in restored[sessions[s].user]

\* A session ends only by a request of its own user: one signed in as that user,
\* or one that presents a token of that user; never by someone else's sign-out
\* naming its id, and never in two people's families at once.
EndedByItsUser ==
    [][\A s \in 1..issued :
        Live(s) /\ ~Live(s)' =>
            \E r \in Request :
                /\ requests[r] # requests'[r]
                /\ requests[r].user \in {NoUser, sessions[s].user}
                /\ \/ requests[r].user = sessions[s].user
                   \/ requests[r].sid \in OfUser(sessions[s].user)]_vars

\* While the servers stay up, a replayed token (or the token of a deactivated
\* user) ends with every session of its family that was alive when the server
\* noticed revoked, whatever rotates meanwhile.
ReuseKills ==
    \A s \in SessionId :
        (\E r \in Request :
            /\ requests[r].pc = "revoke_family"
            /\ s \in OfFamily(sessions[requests[r].sid].family))
        ~> (s \in 1..issued /\ ~Live(s))
=============================================================================
