--------------------------- MODULE SessionsProofs ---------------------------
(* TLAPS proofs about the two ends of a session: Sessions, the server, for  *)
(* every set of users and requests, and WebClient, the browser, for every   *)
(* set of tabs and calls, with every bound.                                 *)
EXTENDS Sessions, WebClient, TLAPS

\* What the record of an in-flight request refers to: a row that exists, a user.
Located ==
    \A r \in Request :
        /\ requests[r].pc \in {"refresh_user", "refresh_rotate", "revoke", "revoke_family"}
              => requests[r].sid \in 1..issued
        /\ requests[r].pc \in {"register_create", "login_record", "start_session",
                               "password_read", "password_write", "password_revoke",
                               "revoke_find", "revoke_all"}
              => requests[r].user \in User

Typed == TypeOK /\ Located

USE SessionsAssumption DEF SessionId, Password

LEMMA IdleTyped == Idle \in RequestState
BY DEF Idle, RequestState, Step

\* The steps handlers move to.
LEMMA Steps ==
    /\ {"register_create", "login_record", "start_session"} \subseteq Step
    /\ {"refresh_user", "refresh_rotate", "revoke", "revoke_family", "revoke_all"} \subseteq Step
    /\ {"password_read", "password_write", "password_revoke", "revoke_find"} \subseteq Step
BY DEF Step

\* The three revocations: every row keeps everything but revoked and reason.
LEMMA RevokedRows ==
    ASSUME TypeOK, NEW S
    PROVE  /\ Revoked(S) \in [1..issued -> Session]
           /\ \A s \in 1..issued :
                /\ Revoked(S)[s].user = sessions[s].user
                /\ Revoked(S)[s].family = sessions[s].family
                /\ Revoked(S)[s].epoch = sessions[s].epoch
                /\ Revoked(S)[s].replacedBy = sessions[s].replacedBy
                /\ Revoked(S)[s].revoked <=> (sessions[s].revoked \/ s \in S)
                /\ Revoked(S)[s].reason =
                     IF s \in S /\ ~sessions[s].revoked THEN "withdrawn" ELSE sessions[s].reason
<1>1. ASSUME NEW s \in 1..issued
      PROVE  /\ Revoked(S)[s] \in Session
             /\ Revoked(S)[s].user = sessions[s].user
             /\ Revoked(S)[s].family = sessions[s].family
             /\ Revoked(S)[s].epoch = sessions[s].epoch
             /\ Revoked(S)[s].replacedBy = sessions[s].replacedBy
             /\ Revoked(S)[s].revoked <=> (sessions[s].revoked \/ s \in S)
             /\ Revoked(S)[s].reason =
                     IF s \in S /\ ~sessions[s].revoked THEN "withdrawn" ELSE sessions[s].reason
  <2>1. sessions[s] \in Session
    BY <1>1 DEF TypeOK
  <2>2. CASE s \in S /\ Live(s)
    <3>1. Revoked(S)[s] = [sessions[s] EXCEPT !.revoked = TRUE, !.reason = "withdrawn"]
      BY <2>2, <1>1 DEF Revoked
    <3> QED
      BY <3>1, <2>1, <2>2 DEF Live, Session, Reason
  <2>3. CASE ~(s \in S /\ Live(s))
    <3>1. Revoked(S)[s] = sessions[s]
      BY <2>3, <1>1 DEF Revoked
    <3> QED
      BY <3>1, <2>1, <2>3 DEF Live, Session
  <2> QED
    BY <2>2, <2>3
<1>2. Revoked(S) = [s \in 1..issued |-> Revoked(S)[s]]
  BY DEF Revoked
<1> QED
  BY <1>1, <1>2

\* A request's record is replaced by a well-typed one, the others stay.
LEMMA RequestWritten ==
    ASSUME TypeOK, NEW r \in Request, NEW new \in RequestState,
           requests' = [requests EXCEPT ![r] = new]
    PROVE  /\ requests' \in [Request -> RequestState]
           /\ requests'[r] = new
           /\ \A q \in Request : q # r => requests'[q] = requests[q]
BY DEF TypeOK
\* An insert adds one row to a well-typed table.
LEMMA InsertedRows ==
    ASSUME TypeOK, issued < MaxSession, NEW table \in [1..issued -> Session],
           NEW row \in Session
    PROVE  /\ issued + 1 \in 1..MaxSession
           /\ Inserted(table, row) \in [1..(issued + 1) -> Session]
           /\ Inserted(table, row)[issued + 1] = row
           /\ \A s \in 1..issued : Inserted(table, row)[s] = table[s]
BY DEF TypeOK, Inserted

LEMMA InitTyped == Init => Typed
<1> SUFFICES ASSUME Init PROVE Typed
  OBVIOUS
<1>1. sessions \in [1..0 -> Session]
  BY DEF Init
<1>2. accounts \in [User -> Account]
  BY DEF Init
<1>3. requests \in [Request -> RequestState] /\ swept \in [User -> Password]
  BY IdleTyped DEF Init
<1>4. /\ issued \in 0..MaxSession /\ 1..0 = 1..issued
      /\ late \subseteq SessionId /\ straggled \subseteq SessionId
      /\ restored \in [User -> SUBSET Password]
  BY DEF Init
<1>5. Located
  BY DEF Init, Located, Idle
<1> QED
  BY <1>1, <1>2, <1>3, <1>4, <1>5 DEF Typed, TypeOK, Init

\* Each step writes the record of one request, or of none.
LEMMA StepsLocated ==
    ASSUME Typed, NEW r \in Request, NEW new \in RequestState,
           requests' = [requests EXCEPT ![r] = new],
           issued' \in Nat, issued <= issued',
           new.pc \in {"refresh_user", "refresh_rotate", "revoke", "revoke_family"}
              => new.sid \in 1..issued,
           new.pc \in {"register_create", "login_record", "start_session",
                       "password_read", "password_write", "password_revoke",
                       "revoke_find", "revoke_all"}
              => new.user \in User
    PROVE  Located' /\ requests' \in [Request -> RequestState]
<1>1. /\ requests' \in [Request -> RequestState]
      /\ requests'[r] = new
      /\ \A q \in Request : q # r => requests'[q] = requests[q]
  BY RequestWritten DEF Typed
<1>2. issued \in Nat
  BY DEF Typed, TypeOK
<1> QED
  BY <1>1, <1>2 DEF Typed, Located

LEMMA FinishLocated ==
    ASSUME Typed, NEW r \in Request, Finish(r), issued' \in Nat, issued <= issued'
    PROVE  Located' /\ requests' \in [Request -> RequestState]
BY IdleTyped, StepsLocated DEF Finish, Idle

\* The reads that open a request touch no table.
LEMMA BeginTyped ==
    ASSUME Typed, NEW r \in Request, Begin(r)
    PROVE  Typed'
<1>1. ASSUME NEW new \in RequestState,
             requests' = [requests EXCEPT ![r] = new],
             UNCHANGED <<issued, sessions, accounts, swept, late, straggled, restored>>,
             new.pc \in {"refresh_user", "refresh_rotate", "revoke", "revoke_family"}
                => new.sid \in 1..issued,
             new.pc \in {"register_create", "login_record", "start_session",
                         "password_read", "password_write", "password_revoke",
                         "revoke_find", "revoke_all"}
                => new.user \in User
      PROVE  Typed'
  <2>1. issued' \in Nat /\ issued <= issued'
    BY <1>1 DEF Typed, TypeOK
  <2>2. Located' /\ requests' \in [Request -> RequestState]
    BY <1>1, <2>1, StepsLocated
  <2> QED
    BY <1>1, <2>2 DEF Typed, TypeOK
<1>2. ASSUME NEW u \in User, RegisterRead(r, u) PROVE Typed'
  <2> DEFINE new == [Idle EXCEPT !.pc = "register_create", !.user = u]
  <2>1. new \in RequestState /\ new.pc = "register_create" /\ new.user = u
    BY IdleTyped, Steps DEF RequestState
  <2> QED
    BY <1>2, <2>1, <1>1 DEF RegisterRead
<1>3. ASSUME NEW u \in User, LoginVerify(r, u) PROVE Typed'
  <2> DEFINE new == [pc |-> "login_record", user |-> u, sid |-> 0,
                     password |-> accounts[u].password, rehash |-> accounts[u].weak,
                     asof |-> swept[u]]
  <2>1. new \in RequestState /\ new.pc = "login_record" /\ new.user = u
    BY DEF Typed, TypeOK, Account, RequestState, Step
  <2> QED
    BY <1>3, <2>1, <1>1 DEF LoginVerify
<1>4. ASSUME NEW s \in SessionId, RefreshRead(r, s) PROVE Typed'
  <2> DEFINE pc == CASE sessions[s].revoked -> "revoke_family"
                     [] ~sessions[s].revoked /\ sessions[s].expired -> "revoke"
                     [] OTHER -> "refresh_user"
             new == [Idle EXCEPT !.sid = s, !.pc = pc]
  <2>1. pc \in {"revoke_family", "revoke", "refresh_user"}
    OBVIOUS
  <2>2. new \in RequestState /\ new.pc = pc /\ new.sid = s
    BY <2>1, s \in 0..MaxSession, IdleTyped, Steps DEF RequestState
  <2>3. s \in 1..issued
    BY <1>4 DEF RefreshRead
  <2>4. requests' = [requests EXCEPT ![r] = new]
    BY <1>4 DEF RefreshRead
  <2> HIDE DEF pc, new
  <2> QED
    BY <1>4, <2>1, <2>2, <2>3, <2>4, <1>1 DEF RefreshRead
<1>5. ASSUME NEW s \in SessionId, LogoutRead(r, s) PROVE Typed'
  <2> DEFINE new == [Idle EXCEPT !.pc = "revoke", !.sid = s]
  <2>1. new \in RequestState /\ new.pc = "revoke" /\ new.sid = s
    BY s \in 0..MaxSession, IdleTyped, Steps DEF RequestState
  <2> QED
    BY <1>5, <2>1, <1>1 DEF LogoutRead
<1>6. ASSUME NEW s \in SessionId, NEW first \in {"revoke_all", "password_read", "revoke_find"},
             Admit(r, s, first)
      PROVE  Typed'
  <2> DEFINE new == [Idle EXCEPT !.pc = first, !.user = sessions[s].user]
  <2>1. sessions[s].user \in User
    BY <1>6 DEF Admit, Typed, TypeOK, Session
  <2>2. new \in RequestState /\ new.pc = first /\ new.user = sessions[s].user
    BY <2>1, IdleTyped, Steps DEF RequestState
  <2> QED
    BY <1>6, <2>1, <2>2, <1>1 DEF Admit
<1> QED
  BY <1>2, <1>3, <1>4, <1>5, <1>6 DEF Begin, LogoutEverywhere, ChangePassword, RevokeSession

LEMMA NextTyped == Typed /\ [Next]_vars => Typed'
<1> SUFFICES ASSUME Typed, [Next]_vars PROVE Typed'
  OBVIOUS
<1>0. issued \in Nat
  BY DEF Typed, TypeOK
<1>2. ASSUME NEW r \in Request, RegisterCreate(r) PROVE Typed'
  <2>1. accounts' \in [User -> Account]
    <3>1. MaxPassword > 0 =>
            [status |-> "active", password |-> 1, written |-> 1, weak |-> FALSE] \in Account
      BY DEF Account
    <3> QED
      BY <1>2, <3>1 DEF RegisterCreate, Typed, TypeOK
  <2>2. CASE Finish(r)
    BY <1>2, <1>0, <2>1, <2>2, FinishLocated DEF RegisterCreate, Typed, TypeOK
  <2>3. CASE requests' = [requests EXCEPT ![r].pc = "start_session", ![r].password = 1,
                                          ![r].asof = swept[requests[r].user]]
                /\ MaxPassword > 0
    <3> DEFINE new == [requests[r] EXCEPT !.pc = "start_session", !.password = 1,
                                          !.asof = swept[requests[r].user]]
    <3>1. new \in RequestState /\ new.pc = "start_session" /\ new.user = requests[r].user
      <4>1. /\ requests[r] \in RequestState /\ 1 \in Password
            /\ swept[requests[r].user] \in Password
        BY <1>2, <2>3 DEF RegisterCreate, Typed, TypeOK, Located
      <4> QED
        BY <4>1, Steps DEF RequestState
    <3>2. requests[r].user \in User
      BY <1>2 DEF RegisterCreate, Typed, Located
    <3>3. requests' = [requests EXCEPT ![r] = new]
      BY <2>3 DEF Typed, TypeOK, RequestState
    <3> HIDE DEF new
    <3>4. Located' /\ requests' \in [Request -> RequestState]
      <4>1. issued' \in Nat /\ issued <= issued'
        BY <1>2, <1>0 DEF RegisterCreate
      <4> QED
        BY <4>1, <3>1, <3>2, <3>3, StepsLocated
    <3> QED
      BY <1>2, <2>1, <3>4 DEF RegisterCreate, Typed, TypeOK
  <2> QED
    BY <1>2, <2>2, <2>3 DEF RegisterCreate
\* A request that only moves on keeps its user and its row.
<1>3. ASSUME NEW r \in Request, NEW n \in Step, Goto(r, n), issued' = issued,
             n \in {"refresh_user", "refresh_rotate", "revoke", "revoke_family"}
                => requests[r].sid \in 1..issued,
             n \in {"register_create", "login_record", "start_session",
                    "password_read", "password_write", "password_revoke",
                    "revoke_find", "revoke_all"}
                => requests[r].user \in User
      PROVE  Located' /\ requests' \in [Request -> RequestState]
  <2> DEFINE new == [requests[r] EXCEPT !.pc = n]
  <2>1. /\ new \in RequestState /\ new.pc = n
        /\ new.user = requests[r].user /\ new.sid = requests[r].sid
    BY DEF Typed, TypeOK, RequestState
  <2>2. requests' = [requests EXCEPT ![r] = new]
    BY <1>3 DEF Goto, Typed, TypeOK
  <2> HIDE DEF new
  <2>3. issued' \in Nat /\ issued <= issued'
    BY <1>3, <1>0
  <2>4. /\ new.pc \in {"refresh_user", "refresh_rotate", "revoke", "revoke_family"}
              => new.sid \in 1..issued
        /\ new.pc \in {"register_create", "login_record", "start_session",
                        "password_read", "password_write", "password_revoke",
                        "revoke_find", "revoke_all"}
              => new.user \in User
    BY <1>3, <2>1
  <2> QED
    BY <2>1, <2>2, <2>3, <2>4, StepsLocated
<1>4. ASSUME NEW r \in Request, LoginRecord(r) PROVE Typed'
  <2>1. accounts' \in [User -> Account]
    <3> DEFINE u == requests[r].user
    <3>1. u \in User /\ requests[r].password \in Password /\ accounts[u] \in Account
      BY <1>4 DEF LoginRecord, Typed, TypeOK, Located, RequestState
    <3>2. [accounts[u] EXCEPT !.password = requests[r].password, !.weak = FALSE] \in Account
      BY <3>1 DEF Account
    <3>3. accounts' = [accounts EXCEPT ![u] = [accounts[u] EXCEPT
                            !.password = requests[r].password, !.weak = FALSE]]
            \/ accounts' = accounts
      BY <1>4, <3>1 DEF LoginRecord, Typed, TypeOK, Account
    <3> QED
      BY <3>1, <3>2, <3>3 DEF Typed, TypeOK
  <2>2. Located' /\ requests' \in [Request -> RequestState]
    BY <1>4, <1>3 DEF LoginRecord, Typed, Located, Step
  <2>3. restored' \in [User -> SUBSET Password]
    <3>1. requests[r].password \in Password /\ restored \in [User -> SUBSET Password]
      BY DEF Typed, TypeOK, RequestState
    <3> QED
      BY <1>4, <3>1 DEF LoginRecord
  <2> QED
    BY <1>4, <2>1, <2>2, <2>3 DEF LoginRecord, Typed, TypeOK
<1>5. ASSUME NEW r \in Request, StartSession(r) PROVE Typed'
  <2>1. NewSession(requests[r].user, issued + 1, requests[r].password) \in Session
    BY <1>5 DEF StartSession, NewSession, Session, Reason, Typed, TypeOK, Located, RequestState
  <2>2. /\ issued' = issued + 1 /\ issued' \in 0..MaxSession
        /\ sessions' \in [1..issued' -> Session]
    BY <1>5, <2>1, InsertedRows DEF StartSession, Typed, TypeOK
  <2>3. Located' /\ requests' \in [Request -> RequestState]
    BY <1>5, <1>0, <2>2, FinishLocated DEF StartSession
  <2>4. straggled' \subseteq SessionId
    BY <1>5, <1>0 DEF StartSession, Typed, TypeOK
  <2> QED
    BY <1>5, <2>2, <2>3, <2>4 DEF StartSession, Typed, TypeOK
<1>6. ASSUME NEW r \in Request,
             Revoke(r) \/ RevokeFamily(r) \/ RevokeAllForUser(r) \/ PasswordRevoke(r)
      PROVE Typed'
  <2>1. sessions' \in [1..issued -> Session]
    BY <1>6, RevokedRows DEF Revoke, RevokeFamily, RevokeAllForUser, PasswordRevoke, Typed
  <2>2. Located' /\ requests' \in [Request -> RequestState]
    BY <1>6, <1>0, FinishLocated DEF Revoke, RevokeFamily, RevokeAllForUser, PasswordRevoke
  <2>3. swept' \in [User -> Password]
    BY <1>6 DEF Revoke, RevokeFamily, RevokeAllForUser, PasswordRevoke, Typed, TypeOK,
       RequestState
  <2> QED
    BY <1>6, <2>1, <2>2, <2>3 DEF Revoke, RevokeFamily, RevokeAllForUser, PasswordRevoke,
       Typed, TypeOK
<1>7. ASSUME NEW r \in Request, RefreshUser(r) PROVE Typed'
  <2>1. requests[r].sid \in 1..issued
    BY <1>7 DEF RefreshUser, Typed, Located
  <2>2. Located' /\ requests' \in [Request -> RequestState]
    BY <1>7, <2>1, <1>3 DEF RefreshUser, Step
  <2> QED
    BY <1>7, <2>2 DEF RefreshUser, Typed, TypeOK
<1>8. ASSUME NEW r \in Request, RefreshRotate(r) PROVE Typed'
  <2> DEFINE s == requests[r].sid
             table == [sessions EXCEPT ![s] = Superseded(@, issued + 1)]
  <2>1. s \in 1..issued /\ issued < MaxSession /\ sessions[s] \in Session
    BY <1>8 DEF RefreshRotate, Typed, Located, TypeOK
  <2>2. NewSession(sessions[s].user, sessions[s].family, sessions[s].epoch) \in Session
    BY <2>1 DEF NewSession, Session, Reason
  <2>3. Superseded(sessions[s], issued + 1) \in Session
    <3>1. issued + 1 \in 0..MaxSession
      BY <2>1, <1>0
    <3> QED
      BY <2>1, <3>1 DEF Superseded, Session, Reason
  <2>4. table \in [1..issued -> Session]
    BY <2>1, <2>3 DEF Typed, TypeOK
  <2>5. /\ issued' = issued + 1 /\ issued' \in 0..MaxSession
        /\ sessions' \in [1..issued' -> Session]
    <3> HIDE DEF table
    <3>1. sessions' = Inserted(table, NewSession(sessions[s].user, sessions[s].family,
                                                 sessions[s].epoch))
      BY <1>8 DEF RefreshRotate, table
    <3>2. issued' = issued + 1
      BY <1>8 DEF RefreshRotate
    <3> QED
      BY <1>0, <2>1, <2>2, <2>4, <3>1, <3>2, InsertedRows DEF Typed
  <2>6. late' \subseteq SessionId
    BY <1>8, <2>1 DEF RefreshRotate, Typed, TypeOK, Session
  <2>7. Located' /\ requests' \in [Request -> RequestState]
    <3>1. Finish(r) /\ issued' = issued + 1
      BY <1>8 DEF RefreshRotate
    <3>2. issued' \in Nat /\ issued <= issued'
      BY <1>0, <3>1
    <3> QED
      BY <1>0, <3>1, <3>2, FinishLocated
  <2> HIDE DEF table
  <2> QED
    BY <1>8, <2>5, <2>6, <2>7 DEF RefreshRotate, Typed, TypeOK
<1>9. ASSUME NEW r \in Request, PasswordRead(r) PROVE Typed'
  <2>1. Located' /\ requests' \in [Request -> RequestState]
    BY <1>9, <1>0, <1>3, FinishLocated DEF PasswordRead, Step, Typed, Located
  <2> QED
    BY <1>9, <2>1 DEF PasswordRead, Typed, TypeOK
<1>10. ASSUME NEW r \in Request, PasswordWrite(r) PROVE Typed'
  <2> DEFINE u == requests[r].user
             p == accounts[u].written + 1
             new == [requests[r] EXCEPT !.pc = "password_revoke", !.password = p]
  <2>1. u \in User /\ p \in Password
    BY <1>10 DEF PasswordWrite, Typed, Located
  <2>2. accounts' \in [User -> Account]
    <3> DEFINE account == [accounts[u] EXCEPT !.password = p, !.written = p, !.weak = FALSE]
    <3>1. accounts \in [User -> Account]
      BY DEF Typed, TypeOK
    <3>2. account \in Account
      BY <2>1, <3>1 DEF Account
    <3>3. accounts' = [accounts EXCEPT ![u] = account]
      BY <1>10 DEF PasswordWrite
    <3> HIDE DEF account, u
    <3> QED
      BY <3>1, <3>2, <3>3
  <2>3. new \in RequestState /\ new.pc = "password_revoke" /\ new.user = u
    <3>1. requests[r] \in RequestState
      BY DEF Typed, TypeOK
    <3> QED
      BY <2>1, <3>1, Steps DEF RequestState
  <2>4. requests' = [requests EXCEPT ![r] = new]
    BY <1>10 DEF PasswordWrite, Typed, TypeOK, RequestState
  <2>5. Located' /\ requests' \in [Request -> RequestState]
    <3> HIDE DEF new
    <3>1. issued' \in Nat /\ issued <= issued'
      BY <1>10, <1>0 DEF PasswordWrite
    <3> QED
      BY <2>1, <2>3, <2>4, <3>1, StepsLocated
  <2> QED
    BY <1>10, <2>2, <2>5 DEF PasswordWrite, Typed, TypeOK
<1>11. ASSUME NEW r \in Request, NEW s \in SessionId, RevokeFind(r, s) PROVE Typed'
  <2>1. CASE Finish(r)
    BY <1>11, <1>0, <2>1, FinishLocated DEF RevokeFind, Typed, TypeOK
  <2>2. CASE requests' = [requests EXCEPT ![r].pc = "revoke", ![r].sid = s]
    <3> DEFINE new == [requests[r] EXCEPT !.pc = "revoke", !.sid = s]
    <3>1. new \in RequestState /\ new.pc = "revoke" /\ new.sid = s
      <4>1. requests[r] \in RequestState /\ s \in 0..MaxSession
        BY DEF Typed, TypeOK
      <4> QED
        BY <4>1, Steps DEF RequestState
    <3>2. requests' = [requests EXCEPT ![r] = new]
      BY <2>2 DEF Typed, TypeOK, RequestState
    <3> HIDE DEF new
    <3>3. Located' /\ requests' \in [Request -> RequestState]
      <4>1. issued' \in Nat /\ issued <= issued' /\ s \in 1..issued
        BY <1>11, <1>0 DEF RevokeFind
      <4> QED
        BY <3>1, <3>2, <4>1, StepsLocated
    <3> QED
      BY <1>11, <3>3 DEF RevokeFind, Typed, TypeOK
  <2> QED
    BY <1>11, <2>1, <2>2 DEF RevokeFind
<1>12. CASE Environment
  <2>1. sessions' \in [1..issued -> Session] /\ accounts' \in [User -> Account]
    <3>1. ASSUME NEW s \in SessionId, Expire(s)
          PROVE  sessions' \in [1..issued -> Session] /\ accounts' \in [User -> Account]
      <4>1. sessions[s] \in Session /\ sessions \in [1..issued -> Session]
        BY <3>1 DEF Expire, Typed, TypeOK
      <4>2. [sessions[s] EXCEPT !.expired = TRUE] \in Session
        BY <4>1 DEF Session
      <4> QED
        BY <3>1, <4>1, <4>2 DEF Expire, Typed, TypeOK
    <3>2. ASSUME NEW u \in User, Deactivate(u)
          PROVE  sessions' \in [1..issued -> Session] /\ accounts' \in [User -> Account]
      <4>1. accounts[u] \in Account /\ accounts \in [User -> Account]
        BY <3>2 DEF Typed, TypeOK
      <4>2. [accounts[u] EXCEPT !.status = "inactive"] \in Account
        BY <4>1 DEF Account
      <4> QED
        BY <3>2, <4>1, <4>2 DEF Deactivate, Typed, TypeOK
    <3> QED
      BY <1>12, <3>1, <3>2 DEF Environment
  <2> QED
    BY <1>12, <2>1 DEF Environment, Expire, Deactivate, Typed, TypeOK, Located
<1>13. ASSUME NEW r \in Request, Crash(r) PROVE Typed'
  BY <1>13, <1>0, FinishLocated DEF Crash, Typed, TypeOK
<1>14. CASE UNCHANGED vars
  BY <1>14 DEF vars, Typed, TypeOK, Located
<1> QED
  BY BeginTyped, <1>2, <1>4, <1>5, <1>6, <1>7, <1>8, <1>9, <1>10, <1>11, <1>12, <1>13, <1>14
     DEF Next, Up, Continue

\* The tables and the in-flight requests keep their types whatever interleaves.
THEOREM TypeCorrect == Spec => []TypeOK
<1>1. Spec => []Typed
  BY InitTyped, NextTyped, PTL DEF Spec
<1> QED
  BY <1>1, PTL DEF Typed

-----------------------------------------------------------------------------
\* What the four invariants need of each other: a rotation keeps SoleLive
\* because Lineage places the successor in the family of the only live row, and
\* PasswordCutoff because the successor inherits the family's password.
Safe == Lineage /\ NoSilentSignOut /\ SoleLive /\ PasswordCutoff

USE DEF Live, OfFamily, OfUser

\* The passwords a session of u may be opened with once swept[u] was enforced.
Allowed(u, p) == p >= swept[u] \/ p \in restored[u]

\* Why a login that no sweep overtook opens its session with an allowed password:
\* the row holds one at every moment, between a change and its sweep included.
Current(u) ==
    /\ Allowed(u, accounts[u].password)
    /\ swept[u] <= accounts[u].written
    /\ accounts[u].status = "absent" => accounts[u].written = 0

Checked(req) ==
    LET u == req.user
        p == req.password
    IN
    /\ req.pc \in {"login_record", "start_session"}
          => /\ req.asof <= swept[u]
             /\ req.asof = swept[u] => Allowed(u, p)
    /\ req.pc \in {"password_write", "password_revoke"}
          => accounts[u].status # "absent"
    /\ req.pc = "password_revoke"
          => /\ p <= accounts[u].written
             /\ accounts[u].password >= p \/ accounts[u].password \in restored[u]

Verified ==
    /\ \A u \in User : Current(u)
    /\ \A r \in Request : Checked(requests[r])

LEMMA InitVerified == Init => Verified
BY DEF Init, Verified, Current, Checked, Allowed, Idle, Account

\* Steps that touch neither the users table nor the two histories, and write the
\* record of one request.
LEMMA KeepsVerified ==
    ASSUME Typed, Verified, NEW r \in Request, NEW new \in RequestState,
           requests' = [requests EXCEPT ![r] = new],
           UNCHANGED <<accounts, swept, restored>>,
           Checked(new)
    PROVE  Verified'
<1>1. requests'[r] = new /\ \A q \in Request : q # r => requests'[q] = requests[q]
  BY RequestWritten DEF Typed
<1>2. \A q \in Request : Checked(requests'[q])
  BY <1>1 DEF Verified
<1> QED
  BY <1>2 DEF Verified, Checked, Allowed, Current

LEMMA IdleChecked == Checked(Idle)
BY DEF Checked, Idle

LEMMA NextVerified == Typed /\ Verified /\ [Next]_vars => Verified'
<1> SUFFICES ASSUME Typed, Verified, [Next]_vars PROVE Verified'
  OBVIOUS
<1>0. /\ requests \in [Request -> RequestState] /\ accounts \in [User -> Account]
      /\ swept \in [User -> Password] /\ restored \in [User -> SUBSET Password]
  BY DEF Typed, TypeOK
<1>1. ASSUME NEW r \in Request, Finish(r), UNCHANGED <<accounts, swept, restored>>
      PROVE  Verified'
  BY <1>1, IdleTyped, IdleChecked, KeepsVerified DEF Finish
\* A request moves on to a step that neither checks a password nor writes one.
<1>2. ASSUME NEW r \in Request, NEW new, NEW pc \in Step,
             new = [requests[r] EXCEPT !.pc = pc]
                \/ (\E s \in SessionId : new = [requests[r] EXCEPT !.pc = pc, !.sid = s])
                \/ (\E s \in SessionId : new = [Idle EXCEPT !.pc = pc, !.sid = s])
                \/ (\E u \in User : new = [Idle EXCEPT !.pc = pc, !.user = u]),
             pc \notin {"login_record", "start_session", "password_write", "password_revoke"},
             requests' = [requests EXCEPT ![r] = new],
             UNCHANGED <<accounts, swept, restored>>
      PROVE  Verified'
  <2>1. new \in RequestState /\ new.pc = pc
    <3>1. requests[r] \in RequestState
      BY <1>0
    <3>2. CASE new = [requests[r] EXCEPT !.pc = pc]
      BY <1>2, <3>1, <3>2 DEF RequestState
    <3>0. \A s \in SessionId : s \in 0..MaxSession
      BY DEF SessionId
    <3>3. CASE \E s \in SessionId : new = [requests[r] EXCEPT !.pc = pc, !.sid = s]
      BY <1>2, <3>0, <3>1, <3>3 DEF RequestState
    <3>4. CASE \E s \in SessionId : new = [Idle EXCEPT !.pc = pc, !.sid = s]
      BY <1>2, IdleTyped, <3>0, <3>4 DEF RequestState
    <3>5. CASE \E u \in User : new = [Idle EXCEPT !.pc = pc, !.user = u]
      BY <1>2, IdleTyped, <3>5 DEF RequestState
    <3> QED
      BY <1>2, <3>2, <3>3, <3>4, <3>5
  <2>2. Checked(new)
    BY <1>2, <2>1 DEF Checked
  <2> QED
    BY <1>2, <2>1, <2>2, KeepsVerified
<1>3. ASSUME NEW r \in Request, NEW u \in User, LoginVerify(r, u) PROVE Verified'
  <2> DEFINE new == [pc |-> "login_record", user |-> u, sid |-> 0,
                     password |-> accounts[u].password, rehash |-> accounts[u].weak,
                     asof |-> swept[u]]
  <2>1. new \in RequestState
    BY <1>0 DEF Account, RequestState, Step
  <2>2. Checked(new)
    BY <1>0 DEF Checked, Verified, Current
  <2> HIDE DEF new
  <2>3. requests' = [requests EXCEPT ![r] = new]
    BY <1>3 DEF LoginVerify, new
  <2> QED
    BY <1>3, <2>1, <2>2, <2>3, KeepsVerified DEF LoginVerify
<1>4. ASSUME NEW r \in Request, Begin(r) PROVE Verified'
  <2>1. ASSUME NEW u \in User, RegisterRead(r, u) PROVE Verified'
    BY <2>1, <1>2, Steps DEF RegisterRead
  <2>2. ASSUME NEW s \in SessionId, RefreshRead(r, s) PROVE Verified'
    <3> DEFINE pc == CASE sessions[s].revoked -> "revoke_family"
                       [] ~sessions[s].revoked /\ sessions[s].expired -> "revoke"
                       [] OTHER -> "refresh_user"
    <3>1. pc \in {"revoke_family", "revoke", "refresh_user"}
      OBVIOUS
    <3>2. requests' = [requests EXCEPT ![r] = [Idle EXCEPT !.pc = pc, !.sid = s]]
      <4>1. requests' = [requests EXCEPT ![r] = [Idle EXCEPT !.sid = s, !.pc = pc]]
        BY <2>2 DEF RefreshRead
      <4>2. [Idle EXCEPT !.sid = s, !.pc = pc] = [Idle EXCEPT !.pc = pc, !.sid = s]
        BY DEF Idle
      <4> QED
        BY <4>1, <4>2
    <3> HIDE DEF pc
    <3> QED
      BY <2>2, <3>1, <3>2, <1>2, Steps DEF RefreshRead
  <2>3. ASSUME NEW s \in SessionId, LogoutRead(r, s) PROVE Verified'
    BY <2>3, <1>2, Steps DEF LogoutRead
  <2>4. ASSUME NEW s \in SessionId, NEW first \in {"revoke_all", "password_read", "revoke_find"},
               Admit(r, s, first)
        PROVE  Verified'
    <3> DEFINE u == sessions[s].user
               new == [Idle EXCEPT !.pc = first, !.user = u]
    <3>1. /\ u \in User /\ UNCHANGED <<accounts, swept, restored>>
          /\ requests' = [requests EXCEPT ![r] = new]
      BY <2>4 DEF Admit, Typed, TypeOK, Session
    <3> HIDE DEF u
    <3>2. \E v \in User : new = [Idle EXCEPT !.pc = first, !.user = v]
      BY <3>1
    <3> HIDE DEF new
    <3>3. first \in Step /\ first \notin {"login_record", "start_session",
                                          "password_write", "password_revoke"}
      BY Steps
    <3> QED
      BY <3>1, <3>2, <3>3, <1>2
  <2> QED
    BY <1>3, <1>4, <2>1, <2>2, <2>3, <2>4
       DEF Begin, LogoutEverywhere, ChangePassword, RevokeSession
\* No one else is changing the password of an account that does not exist yet.
<1>5. ASSUME NEW r \in Request, RegisterCreate(r) PROVE Verified'
  <2> DEFINE u == requests[r].user
             new == [requests[r] EXCEPT !.pc = "start_session", !.password = 1,
                                        !.asof = swept[u]]
  <2>1. CASE Finish(r) /\ UNCHANGED accounts
    BY <1>1, <1>5, <2>1 DEF RegisterCreate
  <2>2. CASE /\ accounts[u].status = "absent"
             /\ accounts' = [accounts EXCEPT ![u] =
                   [status |-> "active", password |-> 1, written |-> 1, weak |-> FALSE]]
             /\ requests' = [requests EXCEPT ![r] = new]
    <3>1. /\ u \in User /\ swept[u] = 0 /\ swept' = swept /\ restored' = restored
          /\ \A v \in User : v # u => accounts'[v] = accounts[v]
          /\ accounts'[u].password = 1 /\ accounts'[u].written = 1
          /\ accounts'[u].status = "active"
      BY <1>0, <1>5, <2>2 DEF RegisterCreate, Typed, Located, Verified, Current
    <3>2. new.pc = "start_session" /\ new.password = 1 /\ new.asof = 0 /\ new.user = u
      BY <1>0, <3>1 DEF RequestState
    <3> HIDE DEF u, new
    <3>3. /\ requests'[r] = new
          /\ \A q \in Request : q # r => requests'[q] = requests[q]
      BY <1>0, <2>2
    <3>4. \A v \in User : Current(v)'
      BY <1>0, <3>1 DEF Verified, Current, Allowed
    <3>5. ASSUME NEW q \in Request PROVE Checked(requests[q])'
      <4>1. CASE q = r
        BY <1>0, <3>1, <3>2, <3>3, <4>1 DEF Checked, Allowed
      <4>2. CASE q # r
        BY <1>0, <2>2, <3>1, <3>3, <4>2 DEF Verified, Checked, Allowed
      <4> QED
        BY <4>1, <4>2
    <3> QED
      BY <3>4, <3>5 DEF Verified
  <2>3. requests' = [requests EXCEPT ![r].pc = "start_session", ![r].password = 1,
                                     ![r].asof = swept[u]]
        => requests' = [requests EXCEPT ![r] = new]
    BY <1>0 DEF RequestState
  <2> QED
    BY <1>5, <2>1, <2>2, <2>3 DEF RegisterCreate
\* A rehash that does not find the password it verified is one that restores it.
<1>6. ASSUME NEW r \in Request, LoginRecord(r) PROVE Verified'
  <2> DEFINE u == requests[r].user
             p == requests[r].password
             new == [requests[r] EXCEPT !.pc = "start_session"]
  <2>1. requests' = [requests EXCEPT ![r] = new] /\ new \in RequestState
        /\ new.pc = "start_session" /\ new.user = u /\ new.password = p
        /\ new.asof = requests[r].asof
    BY <1>0, <1>6, Steps DEF LoginRecord, Goto, RequestState
  <2>2. u \in User /\ p \in Password
    BY <1>0, <1>6 DEF LoginRecord, Typed, Located, RequestState
  <2>3. CASE UNCHANGED <<accounts, restored>>
    <3>1. Checked(new)
      BY <1>6, <2>1 DEF LoginRecord, Verified, Checked
    <3> HIDE DEF new
    <3> QED
      BY <1>6, <2>1, <2>3, <3>1, KeepsVerified DEF LoginRecord
  <2>4. CASE /\ accounts' = [accounts EXCEPT ![u].password = p, ![u].weak = FALSE]
             /\ restored' = [restored EXCEPT ![u] =
                    IF accounts[u].password = p THEN @ ELSE @ \cup {p}]
    <3>1. swept' = swept
      BY <1>6 DEF LoginRecord
    <3> HIDE DEF u, p
    <3>2. /\ \A v \in User : /\ accounts'[v].status = accounts[v].status
                             /\ accounts'[v].written = accounts[v].written
                             /\ restored[v] \subseteq restored'[v]
                             /\ v # u => accounts'[v] = accounts[v]
          /\ accounts'[u].password = accounts[u].password
                \/ accounts'[u].password \in restored'[u]
      BY <1>0, <2>2, <2>4 DEF Account
    <3>3. \A v \in User : Current(v)'
      BY <1>0, <3>1, <3>2 DEF Verified, Current, Allowed
    <3>4. ASSUME NEW q \in Request PROVE Checked(requests[q])'
      <4> HIDE DEF new
      <4>0. /\ requests'[r] = new
            /\ \A o \in Request : o # r => requests'[o] = requests[o]
        BY <1>0, <2>1
      <4>1. CASE q = r
        <5>1. /\ requests[r].asof <= swept[u]
              /\ requests[r].asof = swept[u] => Allowed(u, p)
          BY <1>6 DEF LoginRecord, Verified, Checked, u, p
        <5> QED
          BY <1>0, <2>1, <2>2, <3>1, <3>2, <4>0, <4>1, <5>1 DEF Checked, Allowed
      <4>2. CASE q # r
        <5>1. Checked(requests[q]) /\ requests'[q] = requests[q]
          BY <4>0, <4>2 DEF Verified
        <5>2. requests[q].pc \in {"login_record", "start_session", "password_write",
                                  "password_revoke"} => requests[q].user \in User
          BY DEF Typed, Located
        <5> QED
          BY <1>0, <3>1, <3>2, <5>1, <5>2 DEF Checked, Allowed
      <4> QED
        BY <4>1, <4>2
    <3> QED
      BY <3>3, <3>4 DEF Verified
  <2> QED
    BY <1>6, <2>3, <2>4 DEF LoginRecord
<1>7. ASSUME NEW r \in Request, PasswordRead(r) PROVE Verified'
  <2>1. CASE Finish(r)
    BY <1>1, <1>7, <2>1 DEF PasswordRead
  <2>2. CASE Goto(r, "password_write")
    <3> DEFINE new == [requests[r] EXCEPT !.pc = "password_write"]
    <3>1. requests' = [requests EXCEPT ![r] = new] /\ new \in RequestState
          /\ new.pc = "password_write" /\ new.user = requests[r].user
      BY <1>0, <2>2, Steps DEF Goto, RequestState
    <3>2. Checked(new)
      BY <1>7, <3>1 DEF PasswordRead, Checked
    <3> HIDE DEF new
    <3> QED
      BY <1>7, <3>1, <3>2, KeepsVerified DEF PasswordRead
  <2> QED
    BY <1>7, <2>1, <2>2 DEF PasswordRead
\* The password written is newer than every one before it.
<1>8. ASSUME NEW r \in Request, PasswordWrite(r) PROVE Verified'
  <2> DEFINE u == requests[r].user
             p == accounts[u].written + 1
             new == [requests[r] EXCEPT !.pc = "password_revoke", !.password = p]
  <2>1. u \in User /\ p \in Password /\ accounts[u].status # "absent"
    BY <1>8 DEF PasswordWrite, Typed, Located, Verified, Checked
  <2>2. /\ requests' = [requests EXCEPT ![r] = new] /\ new.pc = "password_revoke"
        /\ new.user = u /\ new.password = p
    BY <1>0, <1>8 DEF PasswordWrite, RequestState
  <2>3. /\ swept' = swept /\ restored' = restored
        /\ accounts' = [accounts EXCEPT ![u] =
                [@ EXCEPT !.password = p, !.written = p, !.weak = FALSE]]
    BY <1>8 DEF PasswordWrite
  <2> HIDE DEF new, u
  <2>4. /\ \A v \in User : v # u => accounts'[v] = accounts[v]
        /\ accounts'[u].password = p /\ accounts'[u].written = p
        /\ accounts'[u].status = accounts[u].status
        /\ accounts[u].written \in Nat /\ p > accounts[u].written
    BY <1>0, <2>1, <2>3 DEF Account
  <2>5. /\ requests'[r] = new
        /\ \A q \in Request : q # r => requests'[q] = requests[q]
    BY <1>0, <2>2
  <2> HIDE DEF p
  <2>6. \A v \in User : Current(v)'
    BY <1>0, <2>1, <2>3, <2>4 DEF Verified, Current, Allowed
  <2>7. ASSUME NEW q \in Request PROVE Checked(requests[q])'
    <3>1. CASE q = r
      BY <1>0, <2>1, <2>2, <2>3, <2>4, <2>5, <3>1 DEF Checked
    <3>2. CASE q # r
      <4>1. Checked(requests[q]) /\ requests'[q] = requests[q]
        BY <2>5, <3>2 DEF Verified
      <4>2. requests[q].password \in Nat
        BY <1>0 DEF RequestState
      <4> QED
        BY <1>0, <2>1, <2>3, <2>4, <4>1, <4>2 DEF Checked, Allowed
    <3> QED
      BY <3>1, <3>2
  <2> QED
    BY <2>6, <2>7 DEF Verified
\* A login checked before the sweep remembers that it was.
<1>9. ASSUME NEW r \in Request, PasswordRevoke(r) PROVE Verified'
  <2> DEFINE u == requests[r].user
             p == requests[r].password
  <2>1. /\ u \in User /\ p \in Password
        /\ p <= accounts[u].written
        /\ accounts[u].password >= p \/ accounts[u].password \in restored[u]
    BY <1>0, <1>9 DEF PasswordRevoke, Typed, Located, RequestState, Verified, Checked
  <2>2. /\ accounts' = accounts /\ restored' = restored
        /\ swept' = [swept EXCEPT ![u] = IF p > @ THEN p ELSE @]
        /\ requests' = [requests EXCEPT ![r] = Idle]
    BY <1>9 DEF PasswordRevoke, Finish
  <2> HIDE DEF u, p
  <2>3. /\ \A v \in User : v # u => swept'[v] = swept[v]
        /\ swept'[u] = IF p > swept[u] THEN p ELSE swept[u]
    BY <1>0, <2>1, <2>2
  <2>4. \A v \in User : Current(v)'
    BY <1>0, <2>1, <2>2, <2>3 DEF Verified, Current, Allowed
  <2>5. ASSUME NEW q \in Request PROVE Checked(requests[q])'
    <3>0. requests'[q] = IF q = r THEN Idle ELSE requests[q]
      BY <1>0, <2>2
    <3>1. CASE q = r
      BY <3>0, <3>1 DEF Checked, Idle
    <3>2. CASE q # r
      <4>1. Checked(requests[q]) /\ requests'[q] = requests[q] /\ requests[q].asof \in Nat
        BY <1>0, <3>0, <3>2 DEF Verified, RequestState
      <4>2. requests[q].pc \in {"login_record", "start_session"} => requests[q].user \in User
        BY DEF Typed, Located
      <4> QED
        BY <1>0, <2>1, <2>2, <2>3, <4>1, <4>2 DEF Checked, Allowed
    <3> QED
      BY <3>1, <3>2
  <2> QED
    BY <2>4, <2>5 DEF Verified
<1>10. ASSUME NEW r \in Request, NEW s \in SessionId, RevokeFind(r, s) PROVE Verified'
  <2>1. CASE Finish(r)
    BY <1>1, <1>10, <2>1 DEF RevokeFind
  <2>2. CASE requests' = [requests EXCEPT ![r].pc = "revoke", ![r].sid = s]
    <3>1. requests' = [requests EXCEPT ![r] = [requests[r] EXCEPT !.pc = "revoke", !.sid = s]]
      BY <1>0, <2>2 DEF RequestState
    <3> QED
      BY <1>10, <3>1, <1>2, Steps DEF RevokeFind
  <2> QED
    BY <1>10, <2>1, <2>2 DEF RevokeFind
<1>11. ASSUME NEW r \in Request, RefreshUser(r) PROVE Verified'
  BY <1>11, <1>2, Steps DEF RefreshUser, Goto
<1>12. CASE Environment
  <2>1. ASSUME NEW u \in User, Deactivate(u) PROVE Verified'
    <3>1. /\ swept' = swept /\ restored' = restored /\ requests' = requests
          /\ \A v \in User : /\ accounts'[v].password = accounts[v].password
                             /\ accounts'[v].written = accounts[v].written
                             /\ (accounts'[v].status = "absent") <=> (accounts[v].status = "absent")
      BY <1>0, <2>1 DEF Deactivate, Account
    <3>2. \A v \in User : Current(v)'
      BY <3>1 DEF Verified, Current, Allowed
    <3>3. ASSUME NEW q \in Request PROVE Checked(requests[q])'
      <4>1. requests[q].pc \in {"login_record", "start_session", "password_write",
                                "password_revoke"} => requests[q].user \in User
        BY DEF Typed, Located
      <4> QED
        BY <3>1, <4>1 DEF Verified, Checked, Allowed
    <3> QED
      BY <3>2, <3>3 DEF Verified
  <2>2. ASSUME NEW s \in SessionId, Expire(s) PROVE Verified'
    BY <2>2 DEF Expire, Verified, Current, Checked, Allowed
  <2> QED
    BY <1>12, <2>1, <2>2 DEF Environment
<1>13. CASE UNCHANGED vars
  BY <1>13 DEF vars, Verified, Current, Checked, Allowed
<1>14. ASSUME NEW r \in Request,
              Crash(r) \/ StartSession(r) \/ Revoke(r) \/ RevokeFamily(r)
                \/ RevokeAllForUser(r) \/ RefreshRotate(r)
       PROVE  Verified'
  BY <1>1, <1>14 DEF Crash, StartSession, Revoke, RevokeFamily, RevokeAllForUser, RefreshRotate
<1> QED
  BY <1>4, <1>5, <1>6, <1>7, <1>8, <1>9, <1>10, <1>11, <1>12, <1>13, <1>14
     DEF Next, Up, Continue

LEMMA InitSafe == Init => Safe
BY DEF Init, Safe, Lineage, NoSilentSignOut, SoleLive, PasswordCutoff

\* Steps that touch neither the table nor the history.
LEMMA KeepsSafe ==
    ASSUME Typed, Safe, UNCHANGED <<issued, sessions, swept, late, straggled>>,
           \A u \in User : restored[u] \subseteq restored'[u]
    PROVE  Safe'
BY DEF Safe, Lineage, NoSilentSignOut, SoleLive, PasswordCutoff, Typed, TypeOK, Session

\* A revocation relabels live rows only, so a rotated row stays rotated; what is
\* left alive was alive before.
LEMMA SweepSafe ==
    ASSUME Typed, Safe, NEW S, sessions' = Revoked(S),
           UNCHANGED <<issued, late, straggled, restored>>,
           \A s \in 1..issued : s \notin S => swept'[sessions[s].user] = swept[sessions[s].user]
    PROVE  Safe'
<1>1. /\ issued' = issued /\ late' = late /\ straggled' = straggled /\ restored' = restored
      /\ \A s \in 1..issued :
                /\ sessions'[s].user = sessions[s].user
                /\ sessions'[s].family = sessions[s].family
                /\ sessions'[s].epoch = sessions[s].epoch
                /\ sessions'[s].replacedBy = sessions[s].replacedBy
                /\ sessions'[s].revoked <=> (sessions[s].revoked \/ s \in S)
                /\ sessions'[s].reason =
                     IF s \in S /\ ~sessions[s].revoked THEN "withdrawn" ELSE sessions[s].reason
  BY RevokedRows DEF Typed
<1>2. Lineage'
  <2>1. \A s \in 1..issued :
          /\ sessions[s].reason = "none" <=> ~sessions[s].revoked
          /\ sessions[s].reason = "rotated" <=> sessions[s].replacedBy # 0
    BY DEF Safe, Lineage
  <2>2. \A s \in 1..issued :
          /\ sessions'[s].reason = "none" <=> ~sessions'[s].revoked
          /\ sessions'[s].reason = "rotated" <=> sessions[s].reason = "rotated"
    BY <1>1, <2>1
  <2> QED
    BY <1>1, <2>1, <2>2 DEF Safe, Lineage
<1>3. NoSilentSignOut'
  BY <1>1 DEF Safe, NoSilentSignOut
<1>4. SoleLive'
  BY <1>1 DEF Safe, SoleLive
<1>5. PasswordCutoff'
  BY <1>1 DEF Safe, PasswordCutoff
<1> QED
  BY <1>2, <1>3, <1>4, <1>5 DEF Safe

\* A login founds a family of its own.
LEMMA StartSafe ==
    ASSUME Typed, Verified, Safe, NEW r \in Request, StartSession(r)
    PROVE  Safe'
<1> DEFINE n == issued + 1
           row == NewSession(requests[r].user, n, requests[r].password)
<1>1. /\ issued \in Nat /\ issued' = n /\ issued < MaxSession /\ swept' = swept
      /\ \A s \in 1..issued : sessions[s] \in Session
      /\ requests[r].user \in User /\ requests[r].password \in Nat
      /\ \A u \in User : swept[u] \in Nat
  BY DEF StartSession, Typed, TypeOK, Located, RequestState
<1>2. /\ row \in Session
      /\ row.user = requests[r].user /\ row.family = n /\ row.epoch = requests[r].password
      /\ row.replacedBy = 0 /\ row.reason = "none" /\ ~row.revoked
  BY <1>1 DEF NewSession, Session, Reason, StartSession, Typed, TypeOK, RequestState
<1>3. sessions'[n] = row /\ \A s \in 1..issued : sessions'[s] = sessions[s]
  <2>1. sessions \in [1..issued -> Session]
    BY DEF Typed, TypeOK
  <2>2. sessions' = Inserted(sessions, row)
    BY DEF StartSession
  <2> HIDE DEF row
  <2>3. TypeOK /\ issued < MaxSession /\ row \in Session
    BY <1>1, <1>2 DEF Typed
  <2>4. /\ Inserted(sessions, row)[issued + 1] = row
        /\ \A s \in 1..issued : Inserted(sessions, row)[s] = sessions[s]
    BY <2>1, <2>3, InsertedRows
  <2> QED
    BY <2>2, <2>4
<1>4. \A s \in 1..issued' : s = n \/ s \in 1..issued
  BY <1>1
<1>5. \A s \in 1..issued : sessions[s].family <= issued
  BY <1>1 DEF Safe, Lineage, Session
<1>6. /\ late' = late /\ straggled \subseteq straggled' /\ restored' = restored
      /\ requests[r].asof # swept[requests[r].user] => n \in straggled'
  BY <1>1 DEF StartSession
<1> HIDE DEF row
<1>7. Lineage'
  <2>0. \A s \in 1..issued : sessions[s].replacedBy \in Nat /\ sessions[s].replacedBy <= issued
    BY <1>1 DEF Safe, Lineage, Session
  <2> SUFFICES ASSUME NEW s \in 1..issued'
               PROVE  /\ sessions'[s].family <= s
                      /\ (sessions'[s].reason = "rotated") <=> (sessions'[s].replacedBy # 0)
                      /\ (sessions'[s].reason = "none") <=> ~sessions'[s].revoked
                      /\ sessions'[s].replacedBy # 0 =>
                           LET m == sessions'[s].replacedBy IN
                           /\ m \in (s + 1)..issued'
                           /\ sessions'[m].user = sessions'[s].user
                           /\ sessions'[m].family = sessions'[s].family
                           /\ sessions'[m].epoch = sessions'[s].epoch
                           /\ \A t \in 1..issued' : sessions'[t].replacedBy = m => t = s
    BY DEF Lineage
  <2>1. CASE s = n
    BY <1>1, <1>2, <1>3, <2>1
  <2>2. CASE s \in 1..issued
    <3>1. sessions[s].replacedBy # 0 =>
            sessions[s].replacedBy \in (s + 1)..issued /\ sessions[s].replacedBy \in 1..issued
      BY <1>1, <2>0, <2>2 DEF Safe, Lineage
    <3>2. ASSUME sessions[s].replacedBy # 0
          PROVE  LET m == sessions[s].replacedBy IN
                 /\ m \in (s + 1)..issued' /\ m \in 1..issued
                 /\ sessions'[m] = sessions[m]
                 /\ \A t \in 1..issued' : sessions'[t].replacedBy = m => t = s
      BY <1>1, <1>2, <1>3, <1>4, <2>2, <3>1, <3>2 DEF Safe, Lineage
    <3> QED
      BY <1>1, <1>3, <2>2, <3>2 DEF Safe, Lineage
  <2> QED
    BY <1>4, <2>1, <2>2
<1>8. NoSilentSignOut'
  BY <1>1, <1>2, <1>3, <1>4, <1>5 DEF Safe, NoSilentSignOut, Session
<1>9. SoleLive'
  <2> SUFFICES ASSUME NEW s \in 1..issued', NEW t \in 1..issued',
                      ~sessions'[s].revoked, ~sessions'[t].revoked,
                      sessions'[s].family = sessions'[t].family,
                      sessions'[s].family \notin late'
               PROVE  s = t
    BY DEF SoleLive, Live
  <2>1. CASE s \in 1..issued /\ t \in 1..issued
    BY <1>3, <1>6, <2>1 DEF Safe, SoleLive, Live
  <2>2. CASE s = n \/ t = n
    <3>1. n \notin 1..issued /\ \A q \in 1..issued : sessions[q].family # n
      BY <1>1, <1>5
    <3> QED
      BY <1>2, <1>3, <1>4, <2>2, <3>1
  <2> QED
    BY <1>4, <2>1, <2>2
<1>10. PasswordCutoff'
  <2> SUFFICES ASSUME NEW s \in 1..issued', ~sessions'[s].revoked,
                      sessions'[s].family \notin late' \cup straggled'
               PROVE  \/ sessions'[s].epoch >= swept'[sessions'[s].user]
                      \/ sessions'[s].epoch \in restored'[sessions'[s].user]
    BY DEF PasswordCutoff
  <2>1. CASE s = n
    <3>1. requests[r].asof = swept[requests[r].user]
      BY <1>2, <1>3, <1>6, <2>1
    <3> QED
      BY <1>1, <1>2, <1>3, <1>6, <2>1, <3>1 DEF Verified, Checked, StartSession, Allowed
  <2>2. CASE s \in 1..issued
    BY <1>1, <1>3, <1>6, <2>2 DEF Safe, PasswordCutoff
  <2> QED
    BY <1>4, <2>1, <2>2
<1> QED
  BY <1>7, <1>8, <1>9, <1>10 DEF Safe

\* A rotation replaces a row of the family by its newest one.
LEMMA RotateSafe ==
    ASSUME Typed, Safe, NEW r \in Request, RefreshRotate(r)
    PROVE  Safe'
<1> DEFINE n == issued + 1
           p == requests[r].sid
           old == Superseded(sessions[p], n)
           row == NewSession(sessions[p].user, sessions[p].family, sessions[p].epoch)
           table == [sessions EXCEPT ![p] = old]
<1>1. /\ issued \in Nat /\ issued' = n /\ issued < MaxSession /\ swept' = swept
      /\ p \in 1..issued
      /\ \A s \in 1..issued : sessions[s] \in Session
      /\ \A u \in User : swept[u] \in Nat
  BY DEF RefreshRotate, Typed, TypeOK, Located
<1>2. /\ row \in Session
      /\ row.user = sessions[p].user /\ row.family = sessions[p].family
      /\ row.epoch = sessions[p].epoch
      /\ row.replacedBy = 0 /\ row.reason = "none" /\ ~row.revoked
  BY <1>1 DEF NewSession, Session, Reason
<1>3. /\ old \in Session
      /\ old.user = sessions[p].user /\ old.family = sessions[p].family
      /\ old.epoch = sessions[p].epoch
      /\ old.replacedBy = n /\ old.reason = "rotated" /\ old.revoked
  <2>1. n \in 0..MaxSession
    BY <1>1
  <2> QED
    BY <1>1, <2>1 DEF Superseded, Session, Reason
<1>4. /\ sessions'[n] = row /\ sessions'[p] = old
      /\ \A s \in 1..issued : s # p => sessions'[s] = sessions[s]
  <2>1. table \in [1..issued -> Session]
    BY <1>1, <1>3 DEF Typed, TypeOK
  <2>2. table[p] = old /\ \A s \in 1..issued : s # p => table[s] = sessions[s]
    BY <1>1 DEF Typed, TypeOK
  <2>3. sessions' = Inserted(table, row)
    BY DEF RefreshRotate
  <2> HIDE DEF table, row, old
  <2>4. TypeOK /\ issued < MaxSession /\ row \in Session
    BY <1>1, <1>2 DEF Typed
  <2>5. /\ Inserted(table, row)[issued + 1] = row
        /\ \A s \in 1..issued : Inserted(table, row)[s] = table[s]
    BY <2>1, <2>4, InsertedRows
  <2> QED
    BY <1>1, <2>2, <2>3, <2>5
<1>5. \A s \in 1..issued' : s = n \/ s \in 1..issued
  BY <1>1
<1>6. /\ \A f : f \in late' <=> (f \in late \/ (sessions[p].revoked /\ f = sessions[p].family))
      /\ straggled' = straggled /\ restored' = restored
  BY DEF RefreshRotate
<1> HIDE DEF row, old, table
<1>7. Lineage'
  <2>0. \A s \in 1..issued : sessions[s].replacedBy \in Nat /\ sessions[s].replacedBy <= issued
    BY <1>1 DEF Safe, Lineage, Session
  <2> SUFFICES ASSUME NEW s \in 1..issued'
               PROVE  /\ sessions'[s].family <= s
                      /\ (sessions'[s].reason = "rotated") <=> (sessions'[s].replacedBy # 0)
                      /\ (sessions'[s].reason = "none") <=> ~sessions'[s].revoked
                      /\ sessions'[s].replacedBy # 0 =>
                           LET m == sessions'[s].replacedBy IN
                           /\ m \in (s + 1)..issued'
                           /\ sessions'[m].user = sessions'[s].user
                           /\ sessions'[m].family = sessions'[s].family
                           /\ sessions'[m].epoch = sessions'[s].epoch
                           /\ \A t \in 1..issued' : sessions'[t].replacedBy = m => t = s
    BY DEF Lineage
  <2>1. CASE s = n
    BY <1>1, <1>2, <1>4, <2>1 DEF Safe, Lineage, Session
  <2>2. CASE s = p
    <3>1. /\ sessions'[s] = old /\ sessions'[n] = row /\ s \in 1..issued
          /\ sessions[s].family <= s /\ n \in (s + 1)..issued'
      BY <1>1, <1>4, <2>2 DEF Safe, Lineage
    <3>2. \A t \in 1..issued' : sessions'[t].replacedBy = n => t = s
      <4>1. \A t \in 1..issued : sessions[t].replacedBy # n
        BY <1>1, <2>0
      <4>2. n # 0
        BY <1>1
      <4> QED
        BY <1>2, <1>4, <1>5, <2>2, <4>1, <4>2
    <3>3. n # 0 /\ s = p
      BY <1>1, <2>2
    <3> QED
      BY <1>2, <1>3, <3>1, <3>2, <3>3
  <2>3. CASE s \in 1..issued /\ s # p
    <3>1. sessions'[s] = sessions[s] /\ s # n
      BY <1>1, <1>4, <2>3
    <3>2. ASSUME sessions[s].replacedBy # 0
          PROVE  LET m == sessions[s].replacedBy IN
                 /\ m \in (s + 1)..issued' /\ m \in 1..issued
                 /\ sessions'[m].user = sessions[m].user
                 /\ sessions'[m].family = sessions[m].family
                 /\ sessions'[m].epoch = sessions[m].epoch
                 /\ \A t \in 1..issued' : sessions'[t].replacedBy = m => t = s
      <4> DEFINE m == sessions[s].replacedBy
      <4>1. m \in (s + 1)..issued /\ m \in 1..issued
            /\ \A t \in 1..issued : sessions[t].replacedBy = m => t = s
        BY <1>1, <2>0, <2>3, <3>2 DEF Safe, Lineage
      <4>2. m # n /\ m \in (s + 1)..issued'
        BY <1>1, <4>1
      <4>3. /\ sessions'[m].user = sessions[m].user
            /\ sessions'[m].family = sessions[m].family
            /\ sessions'[m].epoch = sessions[m].epoch
        BY <1>3, <1>4, <4>1, <4>2
      <4>4. \A t \in 1..issued' : sessions'[t].replacedBy = m => t = s
        BY <1>1, <1>2, <1>3, <1>4, <1>5, <4>1, <4>2, <3>2
      <4> QED
        BY <4>1, <4>2, <4>3, <4>4
    <3> QED
      BY <1>1, <2>3, <3>1, <3>2 DEF Safe, Lineage
  <2> QED
    BY <1>5, <2>1, <2>2, <2>3
<1>8. NoSilentSignOut'
  BY <1>1, <1>2, <1>3, <1>4, <1>5 DEF Safe, NoSilentSignOut
<1>9. SoleLive'
  BY <1>1, <1>2, <1>3, <1>4, <1>5, <1>6 DEF Safe, SoleLive
<1>10. PasswordCutoff'
  BY <1>1, <1>2, <1>3, <1>4, <1>5, <1>6 DEF Safe, PasswordCutoff
<1> QED
  BY <1>7, <1>8, <1>9, <1>10 DEF Safe

LEMMA ExpireSafe ==
    ASSUME Typed, Safe, NEW s \in SessionId, Expire(s)
    PROVE  Safe'
<1>1. /\ issued' = issued /\ swept' = swept /\ late' = late
      /\ straggled' = straggled /\ restored' = restored
      /\ \A t \in 1..issued :
            /\ sessions'[t].user = sessions[t].user
            /\ sessions'[t].family = sessions[t].family
            /\ sessions'[t].epoch = sessions[t].epoch
            /\ sessions'[t].replacedBy = sessions[t].replacedBy
            /\ sessions'[t].revoked = sessions[t].revoked
            /\ sessions'[t].reason = sessions[t].reason
  BY DEF Expire, Typed, TypeOK, Session
<1> QED
  BY <1>1 DEF Safe, Lineage, NoSilentSignOut, SoleLive, PasswordCutoff

LEMMA NextSafe == Typed /\ Verified /\ Safe /\ [Next]_vars => Safe'
<1> SUFFICES ASSUME Typed, Verified, Safe, [Next]_vars PROVE Safe'
  OBVIOUS
<1>1. ASSUME NEW r \in Request, Begin(r) \/ Crash(r) \/ RegisterCreate(r)
             \/ RefreshUser(r) \/ PasswordRead(r) \/ PasswordWrite(r)
             \/ \E s \in SessionId : RevokeFind(r, s)
      PROVE  Safe'
  BY <1>1, KeepsSafe DEF Begin, RegisterRead, LoginVerify, RefreshRead, LogoutRead,
     LogoutEverywhere, ChangePassword, RevokeSession, Admit, Crash, RegisterCreate,
     RefreshUser, PasswordRead, PasswordWrite, RevokeFind
<1>6. ASSUME NEW r \in Request, LoginRecord(r) PROVE Safe'
  <2>1. \A u \in User : restored[u] \subseteq restored'[u]
    BY <1>6 DEF LoginRecord, Typed, TypeOK
  <2> QED
    BY <1>6, <2>1, KeepsSafe DEF LoginRecord
<1>2. ASSUME NEW r \in Request, Revoke(r) \/ RevokeFamily(r) \/ RevokeAllForUser(r)
      PROVE  Safe'
  BY <1>2, SweepSafe DEF Revoke, RevokeFamily, RevokeAllForUser
\* The sweep that raises the cutoff of a user leaves that user no live row.
<1>3. ASSUME NEW r \in Request, PasswordRevoke(r) PROVE Safe'
  <2> DEFINE u == requests[r].user
  <2>1. sessions' = Revoked(OfUser(u)) /\ UNCHANGED <<issued, late, straggled, restored>>
    BY <1>3 DEF PasswordRevoke
  <2>2. \A s \in 1..issued : s \notin OfUser(u) =>
            swept'[sessions[s].user] = swept[sessions[s].user]
    BY <1>3 DEF PasswordRevoke, Typed, TypeOK, Session
  <2> QED
    BY <2>1, <2>2, SweepSafe
<1>4. CASE Environment
  BY <1>4, ExpireSafe, KeepsSafe DEF Environment, Deactivate
<1>5. CASE UNCHANGED vars
  BY <1>5, KeepsSafe DEF vars
<1> QED
  BY <1>1, <1>2, <1>3, <1>4, <1>5, <1>6, StartSafe, RotateSafe DEF Next, Up, Continue

LEMMA SpecSafe == Spec => []Safe
<1>1. Init => Typed /\ Verified /\ Safe
  BY InitTyped, InitVerified, InitSafe
<1>2. Typed /\ Verified /\ Safe /\ [Next]_vars => (Typed /\ Verified /\ Safe)'
  BY NextTyped, NextVerified, NextSafe
<1> QED
  BY <1>1, <1>2, PTL DEF Spec

\* Rotation chains stay within one family, user and password, and never fork
\* backwards: for any number of users, requests and sessions.
THEOREM LineageHolds == Spec => []Lineage
BY SpecSafe, PTL DEF Safe

\* No interleaving or crash loses a family's token half-way through a rotation.
THEOREM NoSilentSignOutHolds == Spec => []NoSilentSignOut
BY SpecSafe, PTL DEF Safe

\* A second live token in a family always comes from an overtaken rotation.
THEOREM SoleLiveHolds == Spec => []SoleLive
BY SpecSafe, PTL DEF Safe

\* After a completed password change a session opened with an older password is
\* alive only through one of the two overtaken inserts, or because a login's
\* rehash wrote that older password back.
THEOREM PasswordCutoffHolds == Spec => []PasswordCutoff
BY SpecSafe, PTL DEF Safe

-----------------------------------------------------------------------------
(* Whose sessions end: a request's own user's, or those of the user whose  *)
(* token it presents.                                                      *)

\* A family is one user's, and what a request is about to revoke is its own.
Families ==
    \A s, t \in 1..issued :
        sessions[s].family = sessions[t].family => sessions[s].user = sessions[t].user

CallerOf(req) ==
    /\ req.pc \in {"refresh_user", "refresh_rotate", "revoke_family"} => req.user = NoUser
    /\ req.pc = "revoke" => req.user \in {NoUser, sessions[req.sid].user}

Callers == \A r \in Request : CallerOf(requests[r])

Owned == Families /\ Callers

\* No step moves a row to another user or family, and a row it adds is in a
\* family of its own or in that of a row of its user.
RowsKept ==
    /\ \A s \in 1..issued : /\ sessions'[s].user = sessions[s].user
                            /\ sessions'[s].family = sessions[s].family
    /\ \/ issued' = issued
       \/ /\ issued' = issued + 1
          /\ \/ sessions'[issued + 1].family = issued + 1
             \/ \E p \in 1..issued : /\ sessions'[issued + 1].family = sessions[p].family
                                     /\ sessions'[issued + 1].user = sessions[p].user

LEMMA StartKeepsRows ==
    ASSUME Typed, NEW r \in Request, StartSession(r)
    PROVE  RowsKept
<1> DEFINE n == issued + 1
           row == NewSession(requests[r].user, n, requests[r].password)
<1>1. /\ issued \in Nat /\ issued' = n /\ issued < MaxSession
      /\ requests[r].user \in User /\ requests[r].password \in Nat
  BY DEF StartSession, Typed, TypeOK, Located, RequestState
<1>2. /\ row \in Session
      /\ row.family = n
  BY <1>1 DEF NewSession, Session, Reason, StartSession, Typed, TypeOK, RequestState
<1>3. sessions'[n] = row /\ \A s \in 1..issued : sessions'[s] = sessions[s]
  <2>1. sessions \in [1..issued -> Session]
    BY DEF Typed, TypeOK
  <2>2. sessions' = Inserted(sessions, row)
    BY DEF StartSession
  <2> HIDE DEF row
  <2>3. TypeOK /\ issued < MaxSession /\ row \in Session
    BY <1>1, <1>2 DEF Typed
  <2>4. /\ Inserted(sessions, row)[issued + 1] = row
        /\ \A s \in 1..issued : Inserted(sessions, row)[s] = sessions[s]
    BY <2>1, <2>3, InsertedRows
  <2> QED
    BY <2>2, <2>4
<1> HIDE DEF row
<1> QED
  BY <1>1, <1>2, <1>3 DEF RowsKept

LEMMA RotatedRows ==
    ASSUME Typed, NEW r \in Request, RefreshRotate(r)
    PROVE  /\ RowsKept
           /\ requests[r].sid \in 1..issued
           /\ \A s \in 1..issued : s # requests[r].sid => sessions'[s] = sessions[s]
<1> DEFINE n == issued + 1
           p == requests[r].sid
           old == Superseded(sessions[p], n)
           row == NewSession(sessions[p].user, sessions[p].family, sessions[p].epoch)
           table == [sessions EXCEPT ![p] = old]
<1>1. /\ issued \in Nat /\ issued' = n /\ issued < MaxSession /\ p \in 1..issued
      /\ sessions[p] \in Session /\ n \in 0..MaxSession
  BY DEF RefreshRotate, Typed, TypeOK, Located
<1>2. sessions \in [1..issued -> Session]
  BY DEF Typed, TypeOK
<1>3. /\ row \in Session
      /\ row.user = sessions[p].user /\ row.family = sessions[p].family
  BY <1>1 DEF NewSession, Session, Reason
<1>4. /\ old \in Session
      /\ old.user = sessions[p].user /\ old.family = sessions[p].family
  BY <1>1 DEF Superseded, Session, Reason
<1>5. sessions' = Inserted(table, row)
  BY DEF RefreshRotate
<1> HIDE DEF row, old
<1>6. /\ table \in [1..issued -> Session]
      /\ table[p] = old /\ \A s \in 1..issued : s # p => table[s] = sessions[s]
  BY <1>1, <1>2, <1>4
<1> HIDE DEF table
<1>7. /\ Inserted(table, row)[issued + 1] = row
      /\ \A s \in 1..issued : Inserted(table, row)[s] = table[s]
  <2>1. TypeOK /\ issued < MaxSession
    BY <1>1 DEF Typed
  <2> QED
    BY <2>1, <1>3, <1>6, InsertedRows
<1>8. \A s \in 1..issued : s # p => sessions'[s] = sessions[s]
  BY <1>5, <1>6, <1>7
<1>9. \A s \in 1..issued : /\ sessions'[s].user = sessions[s].user
                           /\ sessions'[s].family = sessions[s].family
  <2>1. sessions'[p] = old
    BY <1>1, <1>5, <1>6, <1>7
  <2> QED
    BY <1>4, <1>8, <2>1
<1>10. sessions'[n] = row
  BY <1>5, <1>7
<1> QED
  BY <1>1, <1>3, <1>8, <1>9, <1>10 DEF RowsKept

LEMMA NextKeepsRows == Typed /\ [Next]_vars => RowsKept
<1> SUFFICES ASSUME Typed, [Next]_vars PROVE RowsKept
  OBVIOUS
\* Steps that write no row.
<1>1. ASSUME UNCHANGED <<issued, sessions>> PROVE RowsKept
  BY <1>1 DEF RowsKept
<1>2. ASSUME NEW S, sessions' = Revoked(S), issued' = issued PROVE RowsKept
  BY <1>2, RevokedRows DEF RowsKept, Typed
<1>3. ASSUME NEW s \in SessionId, Expire(s) PROVE RowsKept
  BY <1>3 DEF RowsKept, Expire, Typed, TypeOK, Session
<1>4. ASSUME NEW r \in Request, Begin(r) \/ Crash(r) \/ RegisterCreate(r) \/ LoginRecord(r)
             \/ RefreshUser(r) \/ PasswordRead(r) \/ PasswordWrite(r)
             \/ \E s \in SessionId : RevokeFind(r, s)
      PROVE  RowsKept
  <2>1. UNCHANGED <<issued, sessions>>
    BY <1>4 DEF Begin, RegisterRead, LoginVerify, RefreshRead, LogoutRead,
       LogoutEverywhere, ChangePassword, RevokeSession, Admit, Crash, RegisterCreate,
       LoginRecord, RefreshUser, PasswordRead, PasswordWrite, RevokeFind
  <2> QED
    BY <1>1, <2>1
<1>5. ASSUME NEW r \in Request, Revoke(r) \/ RevokeFamily(r) \/ RevokeAllForUser(r)
             \/ PasswordRevoke(r)
      PROVE  RowsKept
  BY <1>2, <1>5 DEF Revoke, RevokeFamily, RevokeAllForUser, PasswordRevoke
<1>6. CASE Environment
  BY <1>1, <1>3, <1>6 DEF Environment, Deactivate
<1>7. CASE UNCHANGED vars
  BY <1>1, <1>7 DEF vars
<1> QED
  BY <1>4, <1>5, <1>6, <1>7, StartKeepsRows, RotatedRows DEF Next, Up, Continue

LEMMA FamiliesKept ==
    ASSUME Lineage, Families, Typed, RowsKept
    PROVE  Families'
<1>1. issued \in Nat /\ \A q \in 1..issued : sessions[q].family <= q
  BY DEF Typed, TypeOK, Lineage
<1>2. CASE issued' = issued
  BY <1>2 DEF RowsKept, Families
<1>3. CASE issued' = issued + 1
  <2> DEFINE n == issued + 1
  <2>1. n \notin 1..issued /\ \A s \in 1..issued' : s \in 1..issued \/ s = n
    BY <1>1, <1>3
  <2>2. \A s \in 1..issued : sessions'[s].family = sessions'[n].family
                                => sessions'[s].user = sessions'[n].user
    <3> SUFFICES ASSUME NEW s \in 1..issued, sessions'[s].family = sessions'[n].family
                 PROVE  sessions'[s].user = sessions'[n].user
      OBVIOUS
    <3>1. sessions'[s].family = sessions[s].family /\ sessions'[s].user = sessions[s].user
      BY DEF RowsKept
    <3>2. sessions'[n].family # n
      <4>1. sessions[s].family <= s /\ s < n
        BY <1>1
      <4>2. sessions[s].family \in Nat
        BY DEF Typed, TypeOK, Session
      <4> QED
        BY <1>1, <3>1, <4>1, <4>2
    <3>3. issued' # issued
      BY <1>1, <1>3
    <3>4. PICK p \in 1..issued : /\ sessions'[n].family = sessions[p].family
                                 /\ sessions'[n].user = sessions[p].user
      BY <3>2, <3>3 DEF RowsKept
    <3> QED
      BY <3>1, <3>4 DEF Families
  <2>3. \A s, t \in 1..issued : sessions'[s].family = sessions'[t].family
                                => sessions'[s].user = sessions'[t].user
    BY DEF RowsKept, Families
  <2> HIDE DEF n
  <2> QED
    BY <2>1, <2>2, <2>3 DEF Families
<1> QED
  BY <1>2, <1>3 DEF RowsKept

\* A step writes the record of one request: what it revokes next is the caller's.
LEMMA CallersKept ==
    ASSUME Typed, Callers, RowsKept, NEW r \in Request, NEW new \in RequestState,
           requests' = [requests EXCEPT ![r] = new],
           new.pc \in {"refresh_user", "refresh_rotate", "revoke_family"}
              => new.user = NoUser,
           new.pc = "revoke" => /\ new.sid \in 1..issued
                                /\ new.user \in {NoUser, sessions[new.sid].user}
    PROVE  Callers'
<1>1. requests'[r] = new /\ \A q \in Request : q # r => requests'[q] = requests[q]
  BY RequestWritten DEF Typed
<1>2. \A q \in Request : requests[q].pc = "revoke" => requests[q].sid \in 1..issued
  BY DEF Typed, Located
<1>3. \A s \in 1..issued : sessions'[s].user = sessions[s].user
  BY DEF RowsKept
<1> SUFFICES ASSUME NEW q \in Request PROVE CallerOf(requests[q])'
  BY DEF Callers
<1>4. CASE q = r
  BY <1>1, <1>3, <1>4 DEF CallerOf
<1>5. CASE q # r
  BY <1>1, <1>2, <1>3, <1>5 DEF CallerOf, Callers
<1> QED
  BY <1>4, <1>5

LEMMA NextCallers == Typed /\ Callers /\ RowsKept /\ [Next]_vars => Callers'
<1> SUFFICES ASSUME Typed, Callers, RowsKept, [Next]_vars PROVE Callers'
  OBVIOUS
<1>1. ASSUME requests' = requests PROVE Callers'
  BY <1>1 DEF Callers, CallerOf, RowsKept, Typed, Located
<1>2. ASSUME NEW r \in Request, Finish(r) PROVE Callers'
  BY <1>2, IdleTyped, CallersKept DEF Finish, Idle
\* A handler that goes on as the same user, to nothing that revokes by token.
<1>3. ASSUME NEW r \in Request, NEW new \in RequestState,
             requests' = [requests EXCEPT ![r] = new],
             new.pc \notin {"refresh_user", "refresh_rotate", "revoke_family", "revoke"}
      PROVE  Callers'
  BY <1>3, CallersKept
<1>4. \A r \in Request : requests[r] \in RequestState
  BY DEF Typed, TypeOK
<1>5. ASSUME NEW r \in Request, NEW u \in User, RegisterRead(r, u) \/ LoginVerify(r, u)
      PROVE  Callers'
  <2>1. [Idle EXCEPT !.pc = "register_create", !.user = u] \in RequestState
    BY IdleTyped, Steps DEF Idle, RequestState
  <2>2. [pc |-> "login_record", user |-> u, sid |-> 0,
         password |-> accounts[u].password, rehash |-> accounts[u].weak,
         asof |-> swept[u]] \in RequestState
    BY Steps DEF RequestState, Typed, TypeOK, Account
  <2> QED
    BY <1>3, <1>5, <2>1, <2>2 DEF RegisterRead, LoginVerify, Idle
<1>6. ASSUME NEW r \in Request, NEW s \in SessionId, RefreshRead(r, s) PROVE Callers'
  <2> DEFINE next == CASE sessions[s].revoked -> "revoke_family"
                       [] ~sessions[s].revoked /\ sessions[s].expired -> "revoke"
                       [] OTHER -> "refresh_user"
             new == [Idle EXCEPT !.sid = s, !.pc = next]
  <2>1. next \in {"revoke_family", "revoke", "refresh_user"} /\ s \in 1..issued
    BY <1>6 DEF RefreshRead
  <2>2. requests' = [requests EXCEPT ![r] = new]
    BY <1>6 DEF RefreshRead
  <2> HIDE DEF next
  <2>3. /\ new \in RequestState /\ new.pc = next
        /\ new.user = NoUser /\ new.sid = s
    <3>1. new \in RequestState /\ new.pc = next /\ new.sid = s /\ new.user = Idle.user
      BY <2>1, s \in 0..MaxSession, IdleTyped, Steps DEF RequestState
    <3> QED
      BY <3>1 DEF Idle
  <2> HIDE DEF new
  <2> QED
    BY <2>1, <2>2, <2>3, CallersKept
<1>7. ASSUME NEW r \in Request, NEW s \in SessionId, LogoutRead(r, s) PROVE Callers'
  <2> DEFINE new == [Idle EXCEPT !.pc = "revoke", !.sid = s]
  <2>1. /\ new \in RequestState /\ new.pc = "revoke"
        /\ new.user = NoUser /\ new.sid = s
    <3>1. new \in RequestState /\ new.pc = "revoke" /\ new.sid = s /\ new.user = Idle.user
      BY s \in 0..MaxSession, IdleTyped, Steps DEF RequestState
    <3> QED
      BY <3>1 DEF Idle
  <2>2. requests' = [requests EXCEPT ![r] = new] /\ s \in 1..issued
    BY <1>7 DEF LogoutRead
  <2> HIDE DEF new
  <2> QED
    BY <2>1, <2>2, CallersKept
<1>8. ASSUME NEW r \in Request, NEW s \in SessionId,
             NEW first \in {"revoke_all", "password_read", "revoke_find"}, Admit(r, s, first)
      PROVE  Callers'
  <2> DEFINE new == [Idle EXCEPT !.pc = first, !.user = sessions[s].user]
  <2>1. sessions[s].user \in User
    BY <1>8 DEF Admit, Typed, TypeOK, Session
  <2>2. new \in RequestState /\ new.pc = first
    BY <2>1, IdleTyped, Steps DEF RequestState
  <2>3. requests' = [requests EXCEPT ![r] = new]
    BY <1>8 DEF Admit
  <2> HIDE DEF new
  <2> QED
    BY <1>3, <2>2, <2>3
<1>9. ASSUME NEW r \in Request, Begin(r) PROVE Callers'
  BY <1>5, <1>6, <1>7, <1>8, <1>9 DEF Begin, LogoutEverywhere, ChangePassword, RevokeSession
<1>10. ASSUME NEW r \in Request, RegisterCreate(r) PROVE Callers'
  <2> DEFINE new == [requests[r] EXCEPT !.pc = "start_session", !.password = 1]
  <2>1. CASE Finish(r)
    BY <1>2, <2>1
  <2>2. CASE MaxPassword > 0 /\ requests' = [requests EXCEPT ![r].pc = "start_session",
                                                             ![r].password = 1]
    <3>1. new \in RequestState /\ new.pc = "start_session"
      <4>1. requests[r] \in RequestState /\ 1 \in Password
        BY <1>4, <2>2
      <4> QED
        BY <4>1, Steps DEF RequestState
    <3>2. requests' = [requests EXCEPT ![r] = new]
      BY <2>2 DEF Typed, TypeOK
    <3> HIDE DEF new
    <3> QED
      BY <1>3, <3>1, <3>2
  <2> QED
    BY <1>10, <2>1, <2>2 DEF RegisterCreate
<1>11. ASSUME NEW r \in Request, NEW next \in {"start_session", "password_write"},
              Goto(r, next)
       PROVE  Callers'
  <2> DEFINE new == [requests[r] EXCEPT !.pc = next]
  <2>1. new \in RequestState /\ new.pc = next
    BY <1>4, Steps DEF RequestState
  <2>2. requests' = [requests EXCEPT ![r] = new]
    BY <1>11 DEF Goto
  <2> HIDE DEF new
  <2> QED
    BY <1>3, <2>1, <2>2
<1>12. ASSUME NEW r \in Request, RefreshUser(r) PROVE Callers'
  <2> DEFINE next == IF accounts[sessions[requests[r].sid].user].status = "active"
                     THEN "refresh_rotate" ELSE "revoke_family"
             new == [requests[r] EXCEPT !.pc = next]
  <2>1. next \in {"refresh_rotate", "revoke_family"}
    OBVIOUS
  <2>2. requests[r].user = NoUser
    BY <1>12 DEF RefreshUser, Callers, CallerOf
  <2>3. requests' = [requests EXCEPT ![r] = new]
    BY <1>12 DEF RefreshUser, Goto
  <2> HIDE DEF next
  <2>4. new \in RequestState /\ new.pc = next /\ new.user = NoUser
    BY <1>4, <2>1, <2>2, Steps DEF RequestState
  <2> HIDE DEF new
  <2> QED
    BY <2>1, <2>3, <2>4, CallersKept
<1>13. ASSUME NEW r \in Request, PasswordWrite(r) PROVE Callers'
  <2> DEFINE p == accounts[requests[r].user].written + 1
             new == [requests[r] EXCEPT !.pc = "password_revoke", !.password = p]
  <2>1. p \in Password
    BY <1>13 DEF PasswordWrite
  <2>2. requests' = [requests EXCEPT ![r].pc = "password_revoke", ![r].password = p]
    BY <1>13 DEF PasswordWrite
  <2> HIDE DEF p
  <2>3. new \in RequestState /\ new.pc = "password_revoke"
    BY <1>4, <2>1, Steps DEF RequestState
  <2>4. requests' = [requests EXCEPT ![r] = new]
    BY <2>2 DEF Typed, TypeOK
  <2> HIDE DEF new
  <2> QED
    BY <1>3, <2>3, <2>4
<1>14. ASSUME NEW r \in Request, NEW s \in SessionId, RevokeFind(r, s) PROVE Callers'
  <2> DEFINE new == [requests[r] EXCEPT !.pc = "revoke", !.sid = s]
  <2>1. CASE Finish(r)
    BY <1>2, <2>1
  <2>2. CASE /\ s \in 1..issued /\ sessions[s].user = requests[r].user
             /\ requests' = [requests EXCEPT ![r].pc = "revoke", ![r].sid = s]
    <3>1. new \in RequestState /\ new.pc = "revoke" /\ new.sid = s
          /\ new.user = sessions[s].user
      <4>1. requests[r] \in RequestState /\ s \in 0..MaxSession
        BY <1>4
      <4>2. new \in RequestState /\ new.pc = "revoke" /\ new.sid = s
            /\ new.user = requests[r].user
        BY <4>1, Steps DEF RequestState
      <4> QED
        BY <2>2, <4>2
    <3>2. requests' = [requests EXCEPT ![r] = new]
      BY <2>2 DEF Typed, TypeOK
    <3> HIDE DEF new
    <3> QED
      BY <2>2, <3>1, <3>2, CallersKept
  <2> QED
    BY <1>14, <2>1, <2>2 DEF RevokeFind
<1>15. ASSUME NEW r \in Request, Continue(r) PROVE Callers'
  BY <1>2, <1>10, <1>11, <1>12, <1>13, <1>14, <1>15 DEF Continue, LoginRecord, StartSession,
     Revoke, RevokeFamily, RevokeAllForUser, RefreshRotate, PasswordRead, PasswordRevoke
<1>16. CASE Environment
  BY <1>1, <1>16 DEF Environment, Expire, Deactivate
<1>17. CASE UNCHANGED vars
  BY <1>1, <1>17 DEF vars
<1> QED
  BY <1>2, <1>9, <1>15, <1>16, <1>17 DEF Next, Up, Crash

LEMMA SpecOwned == Spec => [](Typed /\ Verified /\ Safe /\ Owned)
<1>1. Init => Typed /\ Verified /\ Safe /\ Owned
  <2>1. Init => Owned
    BY DEF Init, Owned, Families, Callers, CallerOf, Idle
  <2> QED
    BY <2>1, InitTyped, InitVerified, InitSafe
<1>2. Typed /\ Verified /\ Safe /\ Owned /\ [Next]_vars => (Typed /\ Verified /\ Safe /\ Owned)'
  <2>1. Typed /\ Verified /\ Safe /\ [Next]_vars => (Typed /\ Verified /\ Safe)'
    BY NextTyped, NextVerified, NextSafe
  <2>2. Typed /\ Safe /\ Owned /\ [Next]_vars => Owned'
    BY NextKeepsRows, FamiliesKept, NextCallers DEF Owned, Safe
  <2> QED
    BY <2>1, <2>2
<1> QED
  BY <1>1, <1>2, PTL DEF Spec

\* The step that ends a session.
LEMMA EndsByItsUser ==
    ASSUME Typed, Owned, [Next]_vars, NEW s \in 1..issued, Live(s), ~Live(s)'
    PROVE  \E r \in Request :
              /\ requests[r] # requests'[r]
              /\ requests[r].user \in {NoUser, sessions[s].user}
              /\ \/ requests[r].user = sessions[s].user
                 \/ requests[r].sid \in OfUser(sessions[s].user)
<1>0. ~sessions[s].revoked /\ sessions'[s].revoked
  BY DEF Live
<1>1. ASSUME sessions' = sessions PROVE FALSE
  BY <1>0, <1>1
<1>2. ASSUME NEW S, sessions' = Revoked(S) PROVE s \in S
  BY <1>0, <1>2, RevokedRows DEF Typed
<1>3. ASSUME NEW r \in Request, Finish(r), requests[r].pc # "idle"
      PROVE  requests[r] # requests'[r]
  BY <1>3 DEF Finish, Idle, Typed, TypeOK
<1>4. ASSUME NEW r \in Request, Revoke(r)
      PROVE  /\ requests[r] # requests'[r]
             /\ requests[r].user \in {NoUser, sessions[s].user}
             /\ requests[r].sid \in OfUser(sessions[s].user)
  <2>1. s = requests[r].sid
    BY <1>2, <1>4 DEF Revoke
  <2> QED
    BY <1>3, <1>4, <2>1 DEF Revoke, Owned, Callers, CallerOf, OfUser
<1>5. ASSUME NEW r \in Request, RevokeFamily(r)
      PROVE  /\ requests[r] # requests'[r]
             /\ requests[r].user = NoUser
             /\ requests[r].sid \in OfUser(sessions[s].user)
  <2>1. s \in OfFamily(sessions[requests[r].sid].family) /\ requests[r].sid \in 1..issued
    BY <1>2, <1>5 DEF RevokeFamily, Typed, Located
  <2>2. sessions[requests[r].sid].user = sessions[s].user
    BY <2>1 DEF OfFamily, Owned, Families
  <2> QED
    BY <1>3, <1>5, <2>1, <2>2 DEF RevokeFamily, Owned, Callers, CallerOf, OfUser
<1>6. ASSUME NEW r \in Request, RevokeAllForUser(r) \/ PasswordRevoke(r)
      PROVE  requests[r] # requests'[r] /\ requests[r].user = sessions[s].user
  <2>1. s \in OfUser(requests[r].user)
    BY <1>2, <1>6 DEF RevokeAllForUser, PasswordRevoke
  <2> QED
    BY <1>3, <1>6, <2>1 DEF RevokeAllForUser, PasswordRevoke, OfUser
<1>7. ASSUME NEW r \in Request, RefreshRotate(r)
      PROVE  /\ requests[r] # requests'[r]
             /\ requests[r].user = NoUser
             /\ requests[r].sid \in OfUser(sessions[s].user)
  <2>1. s = requests[r].sid
    BY <1>0, <1>7, RotatedRows
  <2> QED
    BY <1>3, <1>7, <2>1 DEF RefreshRotate, Owned, Callers, CallerOf, OfUser
\* No other step revokes a row.
<1>8. ASSUME NEW r \in Request, StartSession(r) PROVE FALSE
  <2> DEFINE row == NewSession(requests[r].user, issued + 1, requests[r].password)
  <2>1. sessions' = Inserted(sessions, row) /\ issued \in Nat
    BY <1>8 DEF StartSession, Typed, TypeOK
  <2> HIDE DEF row
  <2>2. sessions'[s] = sessions[s]
    BY <2>1 DEF Inserted
  <2> QED
    BY <1>0, <2>2
<1>9. ASSUME NEW t \in SessionId, Expire(t) PROVE FALSE
  BY <1>0, <1>9 DEF Expire, Typed, TypeOK, Session
<1>10. ASSUME NEW r \in Request, Begin(r) \/ Crash(r) \/ RegisterCreate(r) \/ LoginRecord(r)
              \/ RefreshUser(r) \/ PasswordRead(r) \/ PasswordWrite(r)
              \/ \E t \in SessionId : RevokeFind(r, t)
       PROVE  FALSE
  <2>1. sessions' = sessions
    BY <1>10 DEF Begin, RegisterRead, LoginVerify, RefreshRead, LogoutRead,
       LogoutEverywhere, ChangePassword, RevokeSession, Admit, Crash, RegisterCreate,
       LoginRecord, RefreshUser, PasswordRead, PasswordWrite, RevokeFind
  <2> QED
    BY <1>1, <2>1
<1>11. CASE Environment
  BY <1>1, <1>9, <1>11 DEF Environment, Deactivate
<1>12. CASE UNCHANGED vars
  BY <1>1, <1>12 DEF vars
<1>13. ASSUME NEW r \in Request, Continue(r)
       PROVE  /\ requests[r] # requests'[r]
              /\ requests[r].user \in {NoUser, sessions[s].user}
              /\ \/ requests[r].user = sessions[s].user
                 \/ requests[r].sid \in OfUser(sessions[s].user)
  BY <1>4, <1>5, <1>6, <1>7, <1>8, <1>10, <1>13 DEF Continue
<1> QED
  BY <1>10, <1>11, <1>12, <1>13 DEF Next, Up

\* A session ends only by a request of its own user, or one that presents a
\* token of that user: for any number of users, requests and sessions.
THEOREM EndedByItsUserHolds == Spec => EndedByItsUser
<1>1. Typed /\ Owned /\ [Next]_vars =>
        [\A s \in 1..issued :
            Live(s) /\ ~Live(s)' =>
                \E r \in Request :
                    /\ requests[r] # requests'[r]
                    /\ requests[r].user \in {NoUser, sessions[s].user}
                    /\ \/ requests[r].user = sessions[s].user
                       \/ requests[r].sid \in OfUser(sessions[s].user)]_vars
  BY EndsByItsUser
<1> QED
  BY <1>1, SpecOwned, PTL DEF Spec, EndedByItsUser

-----------------------------------------------------------------------------
(* The browser: WebClient, for every set of tabs, of calls and of logins.   *)

USE WebClientAssumption

\* The token a refresh has been answered with is nobody else's: the cookie and
\* the other requests hold at most the one it replaces.
Unshared ==
    \A t, u \in Tab : \A k, j \in Kind :
        talks[t][k].pc = "ok" =>
            /\ talks[t][k].token \in 1..logins
            /\ cookie # talks[t][k].token
            /\ <<u, j>> # <<t, k>> => talks[u][j].token # talks[t][k].token

BrowserTyped == BrowserTypeOK /\ Unshared

Active(t, k) == talks[t][k].pc \in {"sent", "ok"}

\* While nothing has happened that may end a session: all logins live, one refresh
\* is under way at most, and what is sent to the server is good.
AllAlive == alive = 1..logins

OneRefresh ==
    \A t, u \in Tab : \A k, j \in Kind : Active(t, k) /\ Active(u, j) => t = u /\ k = j

CookieGood ==
    \/ cookie \in alive
    \/ cookie = None /\ logins = 0
    \/ \E t \in Tab, k \in Kind : talks[t][k].pc = "ok" /\ cookie = -talks[t][k].token

RefreshGood ==
    \A t \in Tab :
        /\ talks[t]["refresh"].pc # "refused"
        /\ talks[t]["refresh"].pc = "sent" => talks[t]["refresh"].token \in alive

BootGood ==
    \A t \in Tab : talks[t]["boot"].pc # "none" =>
        /\ tabs[t].page = "restoring"
        /\ talks[t]["refresh"].pc = "none"
        /\ \A s \in Of(t) : calls[s].pc = "idle"
        /\ talks[t]["boot"].pc = "sent" =>
              talks[t]["boot"].token \in alive \/ (talks[t]["boot"].token = None /\ logins = 0)
        /\ talks[t]["boot"].pc = "refused" => cookie = None

CallsGood ==
    /\ \A t \in Tab : tabs[t].page = "in" => logins # 0
    /\ \A s \in Slot :
          /\ calls[s].pc # "idle" => logins # 0
          /\ calls[s].again => calls[s].pc = "sent" /\ calls[s].token \in alive

Calm == AllAlive /\ OneRefresh /\ CookieGood /\ RefreshGood /\ BootGood /\ CallsGood

BrowserInv == BrowserTyped /\ (~excused => Calm)

-----------------------------------------------------------------------------
LEMMA Slots ==
    /\ \A s \in Slot : s[1] \in Tab
    /\ \A t \in Tab : <<t, 1>> \in Slot /\ <<t, 1>> \in Of(t)
    /\ MaxLogin \in Nat
    /\ Silent \in Talk /\ Silent.pc = "none" /\ Silent.token = None
    /\ Settled \in CallState /\ Settled.pc = "idle" /\ ~Settled.again
BY DEF Of, Silent, Talk, Token, None, Settled, CallState

LEMMA HandleTyped ==
    ASSUME BrowserTyped, NEW t \in Tab, NEW k \in Kind, HandleRefresh(t, k) \/ RefreshFails(t, k)
    PROVE  BrowserTyped'
<1> DEFINE n == talks[t][k].token
<1>1. /\ talks \in [Tab -> [Kind -> Talk]] /\ tabs \in [Tab -> TabState]
      /\ calls \in [Slot -> CallState] /\ n \in Token
      /\ excused \in BOOLEAN
      /\ logins \in 0..MaxLogin /\ alive \subseteq 1..logins /\ cookie \in Token
  BY DEF BrowserTyped, BrowserTypeOK, Talk
<1>2. CASE HandleRefresh(t, k) /\ Good(n)
  <2>0. n \in alive
    BY <1>2 DEF Good
  <2>1. n \in 1..logins /\ n \in 1..MaxLogin
    <3> HIDE DEF n
    <3> QED
      BY <1>1, <2>0
  <2> HIDE DEF n
  <2>2. /\ cookie' = Aged(n, cookie)
        /\ tabs' = [u \in Tab |-> [tabs[u] EXCEPT !.access = Dead(n, @)]]
        /\ talks' = [u \in Tab |-> [j \in Kind |->
                        IF u = t /\ j = k THEN [pc |-> "ok", token |-> n]
                        ELSE [talks[u][j] EXCEPT !.token = Aged(n, @)]]]
        /\ calls' = [s \in Slot |-> [calls[s] EXCEPT !.token = Dead(n, @)]]
        /\ excused' \in BOOLEAN /\ alive' = alive /\ logins' = logins
    BY <1>1, <1>2 DEF n, HandleRefresh, Rotate
  <2>3. \A m \in Token : Aged(n, m) \in Token /\ (Aged(n, m) = m \/ Aged(n, m) = -n)
                         /\ Aged(n, m) # n
    BY <2>1 DEF Aged, Token
  <2>4. \A m \in 0..MaxLogin : Dead(n, m) \in 0..MaxLogin
    BY DEF Dead, None
  <2>5. ASSUME NEW u \in Tab, NEW j \in Kind
        PROVE  /\ talks'[u][j] \in Talk
               /\ u = t /\ j = k => talks'[u][j].pc = "ok" /\ talks'[u][j].token = n
               /\ ~(u = t /\ j = k) => /\ talks'[u][j].pc = talks[u][j].pc
                                       /\ talks'[u][j].token = Aged(n, talks[u][j].token)
    <3>1. talks[u][j] \in Talk /\ talks[u][j].token \in Token
      BY <1>1 DEF Talk
    <3>2. talks'[u][j] = IF u = t /\ j = k THEN [pc |-> "ok", token |-> n]
                         ELSE [talks[u][j] EXCEPT !.token = Aged(n, @)]
      BY <2>2
    <3>3. Aged(n, talks[u][j].token) \in Token /\ n \in Token
      BY <2>1, <2>3, <3>1 DEF Token
    <3>4. [talks[u][j] EXCEPT !.token = Aged(n, @)] \in Talk
          /\ [talks[u][j] EXCEPT !.token = Aged(n, @)].pc = talks[u][j].pc
          /\ [talks[u][j] EXCEPT !.token = Aged(n, @)].token = Aged(n, talks[u][j].token)
      BY <3>1, <3>3 DEF Talk
    <3>5. [pc |-> "ok", token |-> n] \in Talk
      BY <3>3 DEF Talk
    <3> QED
      BY <3>2, <3>4, <3>5
  <2>6. talks' \in [Tab -> [Kind -> Talk]]
    BY <2>2, <2>5
  <2>7. tabs' \in [Tab -> TabState]
    <3>1. ASSUME NEW u \in Tab PROVE [tabs[u] EXCEPT !.access = Dead(n, @)] \in TabState
      BY <1>1, <2>4 DEF TabState
    <3> QED
      BY <2>2, <3>1
  <2>8. calls' \in [Slot -> CallState] /\ \A s \in Slot : calls'[s].pc = calls[s].pc
    <3>1. ASSUME NEW s \in Slot
          PROVE  /\ [calls[s] EXCEPT !.token = Dead(n, @)] \in CallState
                 /\ [calls[s] EXCEPT !.token = Dead(n, @)].pc = calls[s].pc
      <4>1. calls[s] \in CallState
        BY <1>1
      <4>2. Dead(n, calls[s].token) \in 0..MaxLogin
        BY <2>4, <4>1 DEF CallState
      <4> QED
        BY <4>1, <4>2 DEF CallState
    <3> QED
      BY <2>2, <3>1
  <2>9. BrowserTypeOK'
    <3>1. cookie' \in Token
      BY <1>1, <2>2, <2>3
    <3>2. \A s \in Slot : calls'[s].pc = "waiting" => talks'[s[1]]["refresh"].pc # "none"
      BY <2>5, <2>8, Slots DEF BrowserTyped, BrowserTypeOK, Kind
    <3> QED
      BY <1>1, <2>2, <2>6, <2>7, <2>8, <3>1, <3>2 DEF BrowserTypeOK
  <2>10. Unshared'
    <3> SUFFICES ASSUME NEW u \in Tab, NEW v \in Tab, NEW i \in Kind, NEW j \in Kind,
                        talks'[u][i].pc = "ok"
                 PROVE  /\ talks'[u][i].token \in 1..logins'
                        /\ cookie' # talks'[u][i].token
                        /\ <<v, j>> # <<u, i>> => talks'[v][j].token # talks'[u][i].token
      BY DEF Unshared
    <3>1. talks[v][j].token \in Token
      BY <1>1 DEF Talk
    <3>2. CASE u = t /\ i = k
      BY <1>1, <2>1, <2>2, <2>3, <2>5, <3>1, <3>2
    <3>3. CASE ~(u = t /\ i = k)
      <4> DEFINE m == talks[u][i].token
      <4>1. talks[u][i].pc = "ok"
        BY <2>5, <3>3
      <4>2. /\ m \in 1..logins /\ cookie # m /\ n # m
            /\ <<v, j>> # <<u, i>> => talks[v][j].token # m
        BY <3>3, <4>1 DEF BrowserTyped, Unshared, n
      <4>3. m \in Token
        BY <1>1 DEF Talk
      <4>4. talks'[u][i].token = m
        BY <2>5, <3>3, <4>2 DEF Aged
      <4> HIDE DEF m
      <4>5. \A x \in Token : x # m => Aged(n, x) # m
        BY <2>1, <2>3, <4>2
      <4>6. cookie' # m
        BY <1>1, <2>2, <4>2, <4>5
      <4>7. <<v, j>> # <<u, i>> => talks'[v][j].token # m
        BY <2>5, <3>1, <4>2, <4>5
      <4> QED
        BY <2>2, <4>2, <4>4, <4>6, <4>7
    <3> QED
      BY <3>2, <3>3
  <2> QED
    BY <2>9, <2>10 DEF BrowserTyped
<1>3. CASE ~(HandleRefresh(t, k) /\ Good(n))
  <2> DEFINE no == [pc |-> "refused", token |-> None]
  <2>1. no \in Talk /\ no.pc = "refused" /\ no.token = None
    BY DEF Talk, Token, None
  <2>2. /\ talks' = [talks EXCEPT ![t][k] = no] /\ excused' \in BOOLEAN
        /\ UNCHANGED <<cookie, tabs, calls, logins>>
        /\ alive' \subseteq alive
    BY <1>1, <1>3 DEF HandleRefresh, RefreshFails, Refuse, Say
  <2> HIDE DEF no, n
  <2>3. /\ talks' \in [Tab -> [Kind -> Talk]]
        /\ \A u \in Tab, j \in Kind : talks'[u][j] = IF u = t /\ j = k THEN no ELSE talks[u][j]
    BY <1>1, <2>1, <2>2
  <2>4. BrowserTypeOK'
    BY <1>1, <2>1, <2>2, <2>3, Slots DEF BrowserTyped, BrowserTypeOK, Kind
  <2>5. Unshared'
    BY <1>1, <2>1, <2>2, <2>3 DEF BrowserTyped, Unshared, None
  <2> QED
    BY <2>4, <2>5 DEF BrowserTyped
<1> QED
  BY <1>2, <1>3

\* What every other step does to the requests of the tabs and to the cookie.
LEMMA OthersUnshared ==
    ASSUME BrowserTyped, logins' \in {logins, logins + 1},
           \A u \in Tab : \A j \in Kind :
               \/ talks'[u][j] = talks[u][j]
               \/ talks'[u][j].pc # "ok" /\ talks'[u][j].token \in {None, cookie},
           \/ cookie' \in {cookie, None}
           \/ logins' = logins + 1 /\ cookie' = logins'
           \/ \E t \in Tab, k \in Kind :
                  talks[t][k].pc = "ok" /\ cookie' = talks[t][k].token /\ talks'[t][k].pc # "ok"
    PROVE  Unshared'
<1> SUFFICES ASSUME NEW u \in Tab, NEW v \in Tab, NEW i \in Kind, NEW j \in Kind,
                    talks'[u][i].pc = "ok"
             PROVE  /\ talks'[u][i].token \in 1..logins'
                    /\ cookie' # talks'[u][i].token
                    /\ <<v, j>> # <<u, i>> => talks'[v][j].token # talks'[u][i].token
  BY DEF Unshared
<1> DEFINE m == talks[u][i].token
<1>1. talks'[u][i] = talks[u][i] /\ talks[u][i].pc = "ok"
  OBVIOUS
<1>2. /\ m \in 1..logins /\ cookie # m
      /\ <<v, j>> # <<u, i>> => talks[v][j].token # m
  BY <1>1 DEF BrowserTyped, Unshared
<1>3. logins \in Nat
  BY DEF BrowserTyped, BrowserTypeOK
<1>4. \A t \in Tab, k \in Kind :
          talks[t][k].pc = "ok" /\ talks'[t][k].pc # "ok" => talks[t][k].token # m
  BY <1>1 DEF BrowserTyped, Unshared
<1>5. talks'[u][i].token = m
  BY <1>1
<1> HIDE DEF m
<1>6. m \in 1..logins' /\ m # None /\ m # logins + 1
  BY <1>2, <1>3 DEF None
<1>7. cookie' # m
  BY <1>2, <1>4, <1>6
<1>8. <<v, j>> # <<u, i>> => talks'[v][j].token # m
  BY <1>2, <1>6
<1> QED
  BY <1>5, <1>6, <1>7, <1>8

LEMMA SaidTyped ==
    ASSUME talks \in [Tab -> [Kind -> Talk]], NEW t \in Tab, NEW k \in Kind,
           NEW talk \in Talk, Say(t, k, talk)
    PROVE  /\ talks' \in [Tab -> [Kind -> Talk]]
           /\ \A u \in Tab : \A j \in Kind :
                 talks'[u][j] = IF u = t /\ j = k THEN talk ELSE talks[u][j]
BY DEF Say

LEMMA ShownTyped ==
    ASSUME tabs \in [Tab -> TabState], NEW t \in Tab, NEW access \in 0..MaxLogin,
           NEW page \in {"closed", "restoring", "in", "out"}, Show(t, page, access)
    PROVE  /\ tabs' \in [Tab -> TabState]
           /\ \A u \in Tab : tabs'[u].page = IF u = t THEN page ELSE tabs[u].page
BY DEF Show, TabState

LEMMA SettledTyped ==
    ASSUME calls \in [Slot -> CallState], NEW ss \in SUBSET Slot, Settle(ss)
    PROVE  /\ calls' \in [Slot -> CallState]
           /\ \A s \in Slot : calls'[s] = IF s \in ss THEN Settled ELSE calls[s]
BY Slots DEF Settle

LEMMA TypesOf ==
    ASSUME BrowserTyped
    PROVE  /\ talks \in [Tab -> [Kind -> Talk]] /\ tabs \in [Tab -> TabState]
           /\ calls \in [Slot -> CallState]
           /\ excused \in BOOLEAN /\ logins \in 0..MaxLogin /\ alive \subseteq 1..logins
           /\ cookie \in Token /\ None \in 0..MaxLogin
           /\ \A s \in Slot : calls[s].pc = "waiting" => talks[s[1]]["refresh"].pc # "none"
           /\ Sent(cookie) \in Talk /\ Sent(cookie).pc = "sent" /\ Sent(cookie).token = cookie
           /\ \A t \in Tab : \A k \in Kind :
                 /\ talks[t][k] \in Talk
                 /\ talks[t][k].pc = "ok" =>
                       talks[t][k].token \in 1..logins /\ talks[t][k].token \in 0..MaxLogin
                                                       /\ talks[t][k].token \in Token
<1>1. ASSUME NEW t \in Tab, NEW k \in Kind, talks[t][k].pc = "ok"
      PROVE  talks[t][k].token \in 1..logins /\ talks[t][k].token \in 0..MaxLogin
                                             /\ talks[t][k].token \in Token
  <2> DEFINE m == talks[t][k].token
  <2>1. m \in 1..logins /\ logins \in 0..MaxLogin /\ MaxLogin \in Nat
    BY <1>1, Slots DEF BrowserTyped, BrowserTypeOK, Unshared
  <2> HIDE DEF m
  <2>2. m \in 0..MaxLogin /\ m \in Token
    BY <2>1 DEF Token
  <2> QED
    BY <2>1, <2>2 DEF m
<1>2. Sent(cookie) \in Talk /\ Sent(cookie).pc = "sent" /\ Sent(cookie).token = cookie
  BY DEF BrowserTyped, BrowserTypeOK, Sent, Talk
<1> QED
  BY <1>1, <1>2, Slots DEF BrowserTyped, BrowserTypeOK, None

LEMMA AnswersTyped ==
    ASSUME BrowserTyped, NEW t \in Tab,
           BootAnswered(t) \/ BootLost(t) \/ RefreshAnswered(t) \/ RefreshLost(t)
    PROVE  BrowserTyped'
<1>1. "boot" \in Kind /\ "refresh" \in Kind
  BY DEF Kind
<1>2. Waiting(t) \in SUBSET Slot /\ \A s \in Slot : s \in Waiting(t) <=> s[1] = t /\ calls[s].pc = "waiting"
  BY DEF Waiting, Of
<1>3. CASE BootAnswered(t)
  <2> DEFINE talk == talks[t]["boot"]
  <2>1. Say(t, "boot", Silent) /\ UNCHANGED <<alive, logins, excused>>
    BY <1>3 DEF BootAnswered
  <2>2. /\ talks' \in [Tab -> [Kind -> Talk]]
        /\ \A u \in Tab : \A j \in Kind :
              talks'[u][j] = IF u = t /\ j = "boot" THEN Silent ELSE talks[u][j]
    BY <1>1, <2>1, SaidTyped, Slots, TypesOf
  <2>3. CASE talk.pc = "ok"
    <3>1. talk.token \in 1..logins /\ talk.token \in 0..MaxLogin /\ talk.token \in Token
      BY <1>1, <2>3, TypesOf
    <3>2. /\ cookie' = talk.token
          /\ tabs' = [tabs EXCEPT ![t].access = talk.token]
          /\ calls' = [calls EXCEPT ![<<t, 1>>] = Ask(talk.token, TRUE)]
      BY <1>3, <2>3 DEF BootAnswered
    <3>3. Unshared'
      <4>1. talks'[t]["boot"].pc # "ok"
        BY <1>1, <2>2, Slots
      <4> QED
        BY <1>1, <2>1, <2>2, <2>3, <3>2, <4>1, Slots, OthersUnshared
    <3> HIDE DEF talk
    <3>4. Ask(talk.token, TRUE) \in CallState /\ Ask(talk.token, TRUE).pc = "sent"
      BY <3>1 DEF Ask, CallState
    <3>5. calls' \in [Slot -> CallState]
          /\ \A s \in Slot : calls'[s].pc = "waiting" => calls'[s] = calls[s]
      BY <3>2, <3>4, Slots, TypesOf
    <3>6. tabs' \in [Tab -> TabState]
      BY <3>1, <3>2, TypesOf DEF TabState
    <3>7. \A s \in Slot : calls'[s].pc = "waiting" => talks'[s[1]]["refresh"].pc # "none"
      BY <1>1, <2>2, <3>5, TypesOf, Slots
    <3>8. alive' \subseteq 1..logins' /\ logins' \in 0..MaxLogin /\ excused' \in BOOLEAN
          /\ cookie' \in Token
      BY <2>1, <3>1, <3>2, TypesOf
    <3> QED
      BY <2>2, <3>3, <3>5, <3>6, <3>7, <3>8 DEF BrowserTyped, BrowserTypeOK
  <2>4. CASE talk.pc = "refused"
    <3>1. SignOut(t) /\ UNCHANGED <<cookie, calls>>
      BY <1>3, <2>4 DEF BootAnswered
    <3>2. tabs' \in [Tab -> TabState]
      BY <3>1, ShownTyped, TypesOf DEF SignOut
    <3>3. Unshared'
      BY <2>1, <2>2, <3>1, Slots, OthersUnshared
    <3> QED
      BY <1>1, <2>1, <2>2, <3>1, <3>2, <3>3, TypesOf, Slots DEF BrowserTyped, BrowserTypeOK
  <2> QED
    BY <1>3, <2>3, <2>4 DEF BootAnswered
<1>4. CASE BootLost(t)
  <2>1. /\ Say(t, "boot", Silent) /\ SignOut(t) /\ excused' = TRUE
        /\ UNCHANGED <<alive, logins, cookie, calls>>
    BY <1>4 DEF BootLost
  <2>2. /\ talks' \in [Tab -> [Kind -> Talk]]
        /\ \A u \in Tab : \A j \in Kind :
              talks'[u][j] = IF u = t /\ j = "boot" THEN Silent ELSE talks[u][j]
    BY <1>1, <2>1, SaidTyped, Slots, TypesOf
  <2>3. tabs' \in [Tab -> TabState]
    BY <2>1, ShownTyped, TypesOf DEF SignOut
  <2>4. Unshared'
    BY <2>1, <2>2, Slots, OthersUnshared
  <2> QED
    BY <1>1, <2>1, <2>2, <2>3, <2>4, TypesOf, Slots DEF BrowserTyped, BrowserTypeOK
<1>5. CASE RefreshAnswered(t)
  <2> DEFINE talk == talks[t]["refresh"]
  <2>1. Say(t, "refresh", Silent) /\ UNCHANGED <<alive, logins, excused>>
    BY <1>5 DEF RefreshAnswered
  <2>2. /\ talks' \in [Tab -> [Kind -> Talk]]
        /\ \A u \in Tab : \A j \in Kind :
              talks'[u][j] = IF u = t /\ j = "refresh" THEN Silent ELSE talks[u][j]
    BY <1>1, <2>1, SaidTyped, Slots, TypesOf
  <2>3. CASE talk.pc = "ok"
    <3>1. talk.token \in 1..logins /\ talk.token \in 0..MaxLogin /\ talk.token \in Token
      BY <1>1, <2>3, TypesOf
    <3>2. /\ cookie' = talk.token
          /\ tabs' = [tabs EXCEPT ![t].access = talk.token]
          /\ Resend(t, talk.token)
      BY <1>5, <2>3 DEF RefreshAnswered
    <3>3. Unshared'
      <4>1. talks'[t]["refresh"].pc # "ok"
        BY <1>1, <2>2, Slots
      <4> QED
        BY <1>1, <2>1, <2>2, <2>3, <3>2, <4>1, Slots, OthersUnshared
    <3> HIDE DEF talk
    <3>4. ASSUME NEW s \in Slot
          PROVE  LET c == [calls[s] EXCEPT !.pc = "sent", !.token = talk.token, !.again = TRUE] IN
                 c \in CallState /\ c.pc = "sent"
      <4>1. calls[s] \in CallState
        BY TypesOf
      <4> QED
        BY <3>1, <4>1 DEF CallState
    <3>5. /\ calls' \in [Slot -> CallState]
          /\ \A s \in Slot : calls'[s].pc = "waiting" => calls'[s] = calls[s] /\ s \notin Waiting(t)
      BY <3>2, <3>4, TypesOf DEF Resend
    <3>6. tabs' \in [Tab -> TabState]
      BY <3>1, <3>2, TypesOf DEF TabState
    <3> QED
      BY <1>1, <1>2, <2>1, <2>2, <3>1, <3>2, <3>3, <3>5, <3>6, TypesOf, Slots DEF BrowserTyped, BrowserTypeOK
  <2>4. CASE talk.pc = "refused"
    <3>1. SignOut(t) /\ Settle(Waiting(t)) /\ UNCHANGED cookie
      BY <1>5, <2>4 DEF RefreshAnswered
    <3>2. tabs' \in [Tab -> TabState]
      BY <3>1, ShownTyped, TypesOf DEF SignOut
    <3>3. Unshared'
      BY <2>1, <2>2, <3>1, Slots, OthersUnshared
    <3>4. /\ calls' \in [Slot -> CallState]
          /\ \A s \in Slot : calls'[s] = IF s \in Waiting(t) THEN Settled ELSE calls[s]
      BY <1>2, <3>1, SettledTyped, TypesOf
    <3> QED
      BY <1>1, <1>2, <2>1, <2>2, <3>1, <3>2, <3>3, <3>4, TypesOf, Slots DEF BrowserTyped, BrowserTypeOK
  <2> QED
    BY <1>5, <2>3, <2>4 DEF RefreshAnswered
<1>6. CASE RefreshLost(t)
  <2>1. /\ Say(t, "refresh", Silent) /\ (SignOut(t) \/ UNCHANGED tabs) /\ excused' = TRUE
        /\ Settle(Waiting(t)) /\ UNCHANGED <<alive, logins, cookie>>
    BY <1>6 DEF RefreshLost
  <2>2. /\ talks' \in [Tab -> [Kind -> Talk]]
        /\ \A u \in Tab : \A j \in Kind :
              talks'[u][j] = IF u = t /\ j = "refresh" THEN Silent ELSE talks[u][j]
    BY <1>1, <2>1, SaidTyped, Slots, TypesOf
  <2>3. tabs' \in [Tab -> TabState]
    BY <2>1, ShownTyped, TypesOf DEF SignOut
  <2>4. Unshared'
    BY <2>1, <2>2, Slots, OthersUnshared
  <2>5. /\ calls' \in [Slot -> CallState]
        /\ \A s \in Slot : calls'[s] = IF s \in Waiting(t) THEN Settled ELSE calls[s]
    BY <1>2, <2>1, SettledTyped, TypesOf
  <2> QED
    BY <1>1, <1>2, <2>1, <2>2, <2>3, <2>4, <2>5, TypesOf, Slots DEF BrowserTyped, BrowserTypeOK
<1> QED
  BY <1>3, <1>4, <1>5, <1>6

LEMMA TabsTyped ==
    ASSUME BrowserTyped, NEW t \in Tab,
           Open(t) \/ Close(t) \/ ExpireAccess(t) \/ Login(t) \/ LoginFails(t) \/ Logout(t)
    PROVE  BrowserTyped'
<1>1. "boot" \in Kind /\ "refresh" \in Kind
  BY DEF Kind
<1>2. Of(t) \in SUBSET Slot /\ \A s \in Slot : s \in Of(t) <=> s[1] = t
  BY DEF Of
<1>3. CASE Open(t) \/ Close(t)
  <2>1. PICK boot \in {Silent, Sent(cookie)} :
            talks' = [talks EXCEPT ![t] = [k \in Kind |-> IF k = "boot" THEN boot ELSE Silent]]
    <3>1. CASE Open(t)
      BY <3>1 DEF Open
    <3>2. CASE Close(t)
      <4>1. [k \in Kind |-> Silent] = [k \in Kind |-> IF k = "boot" THEN Silent ELSE Silent]
        OBVIOUS
      <4>2. talks' = [talks EXCEPT ![t] = [k \in Kind |-> Silent]]
        BY <3>2 DEF Close
      <4> QED
        BY <4>1, <4>2
    <3> QED
      BY <1>3, <3>1, <3>2
  <2>2. /\ Settle(Of(t)) /\ (Show(t, "restoring", None) \/ Show(t, "closed", None))
        /\ excused' \in BOOLEAN /\ UNCHANGED <<alive, logins, cookie>>
    BY <1>3, TypesOf DEF Open, Close
  <2>3. boot \in Talk /\ boot.pc # "ok" /\ boot.token \in {None, cookie}
    BY Slots, TypesOf
  <2>4. /\ talks' \in [Tab -> [Kind -> Talk]]
        /\ \A u \in Tab : \A j \in Kind :
              talks'[u][j] = IF u # t THEN talks[u][j] ELSE IF j = "boot" THEN boot ELSE Silent
    BY <2>1, <2>3, TypesOf, Slots
  <2>5. tabs' \in [Tab -> TabState]
    BY <2>2, ShownTyped, TypesOf
  <2>6. /\ calls' \in [Slot -> CallState]
        /\ \A s \in Slot : calls'[s] = IF s \in Of(t) THEN Settled ELSE calls[s]
    BY <1>2, <2>2, SettledTyped, TypesOf
  <2>7. Unshared'
    BY <2>2, <2>3, <2>4, Slots, OthersUnshared
  <2>8. \A s \in Slot : calls'[s].pc = "waiting" => talks'[s[1]]["refresh"].pc # "none"
    BY <1>1, <1>2, <2>4, <2>6, TypesOf, Slots
  <2> QED
    BY <2>2, <2>4, <2>5, <2>6, <2>7, <2>8, TypesOf DEF BrowserTyped, BrowserTypeOK
<1>4. CASE ExpireAccess(t)
  <2>1. tabs' = [tabs EXCEPT ![t].access = None] /\ UNCHANGED <<alive, logins, cookie, talks, calls, excused>>
    BY <1>4 DEF ExpireAccess
  <2>2. tabs' \in [Tab -> TabState]
    BY <2>1, TypesOf DEF TabState
  <2>3. Unshared'
    BY <2>1, OthersUnshared
  <2> QED
    BY <2>1, <2>2, <2>3 DEF BrowserTyped, BrowserTypeOK
<1>5. CASE Login(t)
  <2>1. /\ logins < MaxLogin /\ logins' = logins + 1 /\ alive' = alive \cup {logins'}
        /\ cookie' = logins' /\ Show(t, "in", logins') /\ excused' \in BOOLEAN
        /\ UNCHANGED <<talks, calls>>
    BY <1>5, TypesOf DEF Login
  <2>2. logins' \in 0..MaxLogin /\ alive' \subseteq 1..logins' /\ cookie' \in Token
    <3>1. logins \in 0..MaxLogin /\ alive \subseteq 1..logins /\ MaxLogin \in Nat
      BY TypesOf, Slots
    <3> QED
      BY <2>1, <3>1 DEF Token
  <2>3. tabs' \in [Tab -> TabState]
    BY <2>1, <2>2, ShownTyped, TypesOf
  <2>4. Unshared'
    BY <2>1, OthersUnshared
  <2> QED
    BY <2>1, <2>2, <2>3, <2>4, TypesOf DEF BrowserTyped, BrowserTypeOK
<1>6. CASE LoginFails(t) \/ Logout(t)
  <2>1. /\ alive' \subseteq alive /\ cookie' \in {None, cookie} /\ SignOut(t)
        /\ excused' \in BOOLEAN /\ UNCHANGED <<logins, talks, calls>>
    BY <1>6, TypesOf DEF LoginFails, Logout
  <2>2. tabs' \in [Tab -> TabState]
    BY <2>1, ShownTyped, TypesOf DEF SignOut
  <2>3. Unshared'
    BY <2>1, OthersUnshared
  <2>4. None \in Token
    BY DEF None, Token
  <2> QED
    BY <2>1, <2>2, <2>3, <2>4, TypesOf DEF BrowserTyped, BrowserTypeOK
<1> QED
  BY <1>3, <1>4, <1>5, <1>6

LEMMA CallsTyped ==
    ASSUME BrowserTyped, NEW s \in Slot, Start(s) \/ CallStep(s)
    PROVE  BrowserTyped'
<1>1. "boot" \in Kind /\ "refresh" \in Kind /\ s[1] \in Tab
  BY Slots DEF Kind
<1>2. CASE Start(s)
  <2> DEFINE access == tabs[s[1]].access
  <2>1. access \in 0..MaxLogin
    BY <1>1, TypesOf DEF TabState
  <2>2. /\ calls' = [calls EXCEPT ![s] = Ask(access, FALSE)]
        /\ UNCHANGED <<alive, logins, cookie, tabs, talks, excused>>
    BY <1>2 DEF Start
  <2> HIDE DEF access
  <2>3. Ask(access, FALSE) \in CallState /\ Ask(access, FALSE).pc = "sent"
    BY <2>1 DEF Ask, CallState
  <2>4. /\ calls' \in [Slot -> CallState]
        /\ \A x \in Slot : calls'[x].pc = "waiting" => calls'[x] = calls[x]
    BY <2>2, <2>3, TypesOf
  <2>5. Unshared'
    BY <2>2, OthersUnshared
  <2> QED
    BY <2>2, <2>4, <2>5 DEF BrowserTyped, BrowserTypeOK
<1>3. CASE CallRetried(s)
  <2>1. /\ calls' = [calls EXCEPT ![s].pc = "waiting"] /\ EnsureRefresh(s[1])
        /\ UNCHANGED <<alive, logins, cookie, tabs>>
    BY <1>3 DEF CallRetried
  <2>2. /\ calls' \in [Slot -> CallState]
        /\ \A x \in Slot : x # s => calls'[x] = calls[x]
    BY <2>1, TypesOf DEF CallState
  <2>3. /\ talks' \in [Tab -> [Kind -> Talk]] /\ excused' \in BOOLEAN
        /\ \A u \in Tab : \A j \in Kind :
              \/ talks'[u][j] = talks[u][j]
              \/ talks'[u][j].pc = "sent" /\ talks'[u][j].token = cookie
        /\ talks'[s[1]]["refresh"].pc # "none"
    <3>1. CASE talks[s[1]]["refresh"].pc # "none"
      BY <2>1, <3>1, TypesOf DEF EnsureRefresh
    <3>2. CASE talks[s[1]]["refresh"].pc = "none"
      <4>1. Say(s[1], "refresh", Sent(cookie)) /\ excused' \in BOOLEAN
        BY <2>1, <3>2, TypesOf DEF EnsureRefresh
      <4>2. /\ talks' \in [Tab -> [Kind -> Talk]]
            /\ \A u \in Tab : \A j \in Kind :
                  talks'[u][j] = IF u = s[1] /\ j = "refresh" THEN Sent(cookie) ELSE talks[u][j]
        BY <1>1, <4>1, SaidTyped, TypesOf
      <4> QED
        BY <1>1, <4>1, <4>2, TypesOf
    <3> QED
      BY <3>1, <3>2
  <2>4. Unshared'
    BY <2>1, <2>3, OthersUnshared
  <2>5. \A x \in Slot : calls'[x].pc = "waiting" => talks'[x[1]]["refresh"].pc # "none"
    BY <1>1, <2>2, <2>3, Slots, TypesOf
  <2> QED
    BY <2>1, <2>2, <2>3, <2>4, <2>5, TypesOf DEF BrowserTyped, BrowserTypeOK
<1>4. CASE CallRefused(s)
  <2>1. /\ calls' = [calls EXCEPT ![s].pc = "refused", ![s].token = None]
        /\ UNCHANGED <<alive, logins, cookie, tabs, talks, excused>>
    BY <1>4 DEF CallRefused
  <2>2. /\ calls' \in [Slot -> CallState]
        /\ \A x \in Slot : calls'[x].pc = "waiting" => calls'[x] = calls[x]
    <3>1. calls[s] \in CallState /\ None \in 0..MaxLogin
      BY TypesOf
    <3> DEFINE c == [calls[s] EXCEPT !.pc = "refused", !.token = None]
    <3>2. c \in CallState /\ c.pc = "refused"
      BY <3>1 DEF CallState
    <3>3. calls' = [calls EXCEPT ![s] = c]
      BY <2>1
    <3> HIDE DEF c
    <3> QED
      BY <3>2, <3>3, TypesOf
  <2>3. Unshared'
    BY <2>1, OthersUnshared
  <2> QED
    BY <2>1, <2>2, <2>3 DEF BrowserTyped, BrowserTypeOK
<1>5. CASE CallSucceeds(s) \/ CallGivesUp(s) \/ CallFails(s)
  <2>1. /\ Settle({s}) /\ excused' \in BOOLEAN /\ UNCHANGED <<alive, logins, cookie, talks>>
        /\ \/ UNCHANGED tabs \/ SignOut(s[1]) \/ tabs' = [tabs EXCEPT ![s[1]].page = "in"]
    BY <1>5, TypesOf DEF CallSucceeds, CallGivesUp, CallFails
  <2>2. tabs' \in [Tab -> TabState]
    <3>1. CASE SignOut(s[1])
      BY <1>1, <3>1, ShownTyped, TypesOf DEF SignOut
    <3>2. CASE tabs' = [tabs EXCEPT ![s[1]].page = "in"]
      BY <3>2, TypesOf DEF TabState
    <3> QED
      BY <2>1, <3>1, <3>2, TypesOf
  <2>3. /\ calls' \in [Slot -> CallState]
        /\ \A x \in Slot : calls'[x] = IF x \in {s} THEN Settled ELSE calls[x]
    BY <2>1, SettledTyped, TypesOf
  <2>4. Unshared'
    BY <2>1, OthersUnshared
  <2> QED
    BY <2>1, <2>2, <2>3, <2>4, TypesOf, Slots DEF BrowserTyped, BrowserTypeOK
<1> QED
  BY <1>2, <1>3, <1>4, <1>5 DEF CallStep

LEMMA BrowserTypesStay == BrowserTyped /\ [BrowserNext]_browser => BrowserTyped'
<1> SUFFICES ASSUME BrowserTyped, [BrowserNext]_browser PROVE BrowserTyped'
  OBVIOUS
<1>1. ASSUME NEW t \in Tab, TabStep(t) \/ RefreshStep(t) PROVE BrowserTyped'
  BY <1>1, HandleTyped, AnswersTyped, TabsTyped DEF TabStep, RefreshStep
<1>2. ASSUME NEW s \in Slot, Start(s) \/ CallStep(s) PROVE BrowserTyped'
  BY <1>2, CallsTyped
<1>3. ASSUME NEW f \in alive, EndSession(f) PROVE BrowserTyped'
  <2>1. alive' = alive \ {f} /\ excused' = TRUE /\ UNCHANGED <<logins, cookie, tabs, talks, calls>>
    BY <1>3 DEF EndSession
  <2>2. Unshared'
    BY <2>1, OthersUnshared
  <2> QED
    BY <2>1, <2>2 DEF BrowserTyped, BrowserTypeOK
<1>4. CASE UNCHANGED browser
  BY <1>4 DEF browser, BrowserTyped, BrowserTypeOK, Unshared
<1> QED
  BY <1>1, <1>2, <1>3, <1>4 DEF BrowserNext

-----------------------------------------------------------------------------
(* As long as nothing excuses it, every session is in order.               *)

\* What a tab is about to send is a good token, if a login has been made.
LEMMA CookieToSend ==
    ASSUME BrowserTyped, Calm, \A u \in Tab : \A j \in Kind : ~Active(u, j)
    PROVE  cookie \in alive \/ (cookie = None /\ logins = 0)
BY DEF Calm, CookieGood, Active

LEMMA HandledCalmly ==
    ASSUME BrowserTyped, Calm, ~excused', NEW t \in Tab, NEW k \in Kind, HandleRefresh(t, k)
    PROVE  Calm'
<1> DEFINE n == talks[t][k].token
<1>1. /\ talks[t][k].pc = "sent" /\ logins' = logins
      /\ "boot" \in Kind /\ "refresh" \in Kind /\ \A j \in Kind : j \in {"boot", "refresh"}
  BY DEF HandleRefresh, Kind
<1>2. \A u \in Tab, j \in Kind : Active(u, j) => u = t /\ j = k
  BY <1>1 DEF Calm, OneRefresh, Active
<1>3. CASE Good(n)
  <2>1. n \in alive /\ n \in 1..logins
    <3>1. n \in alive
      BY <1>3 DEF Good
    <3> HIDE DEF n
    <3> QED
      BY <3>1, TypesOf
  <2> HIDE DEF n
  <2>2. /\ cookie' = Aged(n, cookie)
        /\ tabs' = [u \in Tab |-> [tabs[u] EXCEPT !.access = Dead(n, @)]]
        /\ talks' = [u \in Tab |-> [j \in Kind |->
                        IF u = t /\ j = k THEN [pc |-> "ok", token |-> n]
                        ELSE [talks[u][j] EXCEPT !.token = Aged(n, @)]]]
        /\ calls' = [s \in Slot |-> [calls[s] EXCEPT !.token = Dead(n, @)]]
        /\ \A s \in Slot : ~(calls[s].again /\ calls[s].pc = "sent" /\ calls[s].token = n)
        /\ alive' = alive
    BY <1>3 DEF n, HandleRefresh, Rotate
  <2>3. /\ talks'[t][k].pc = "ok" /\ talks'[t][k].token = n
        /\ \A u \in Tab : \A j \in Kind : ~(u = t /\ j = k) => talks'[u][j].pc = talks[u][j].pc
    <3>1. ASSUME NEW u \in Tab, NEW j \in Kind, ~(u = t /\ j = k)
          PROVE  talks'[u][j].pc = talks[u][j].pc
      <4>1. talks[u][j] \in Talk
        BY TypesOf
      <4>2. talks'[u][j] = [talks[u][j] EXCEPT !.token = Aged(n, @)]
        BY <2>2, <3>1
      <4> QED
        BY <4>1, <4>2 DEF Talk
    <3>2. talks'[t][k] = [pc |-> "ok", token |-> n]
      BY <2>2
    <3> QED
      BY <3>1, <3>2
  <2>4. \A u \in Tab : tabs'[u].page = tabs[u].page
    <3>1. \A u \in Tab : tabs[u] \in TabState /\ tabs'[u] = [tabs[u] EXCEPT !.access = Dead(n, @)]
      BY <2>2, TypesOf
    <3> QED
      BY <3>1 DEF TabState
  <2>5. \A s \in Slot : /\ calls'[s].pc = calls[s].pc /\ calls'[s].again = calls[s].again
                        /\ calls'[s].token = Dead(n, calls[s].token)
    <3>1. ASSUME NEW s \in Slot
          PROVE  /\ calls'[s].pc = calls[s].pc /\ calls'[s].again = calls[s].again
                 /\ calls'[s].token = Dead(n, calls[s].token)
      <4>1. calls[s] \in CallState
        BY TypesOf
      <4>2. calls'[s] = [calls[s] EXCEPT !.token = Dead(n, @)]
        BY <2>2
      <4> QED
        BY <4>1, <4>2 DEF CallState
    <3> QED
      BY <3>1
  <2>6. OneRefresh'
    BY <1>2, <2>3 DEF OneRefresh, Active
  <2>7. CookieGood'
    <3>1. CASE cookie = n
      BY <2>2, <2>3, <3>1 DEF CookieGood, Aged
    <3>2. CASE cookie # n
      <4>1. cookie' = cookie
        BY <2>2, <3>2 DEF Aged
      <4>2. cookie \in alive \/ (cookie = None /\ logins = 0)
        BY <1>1, <1>2 DEF Calm, CookieGood, Active
      <4> QED
        BY <1>1, <2>2, <4>1, <4>2 DEF CookieGood
    <3> QED
      BY <3>1, <3>2
  <2>8. RefreshGood'
    <3> SUFFICES ASSUME NEW u \in Tab
                 PROVE  talks'[u]["refresh"].pc # "refused" /\ talks'[u]["refresh"].pc # "sent"
      BY DEF RefreshGood
    <3> QED
      BY <1>1, <1>2, <2>3 DEF Calm, RefreshGood, Active
  <2>9. BootGood'
    <3> SUFFICES ASSUME NEW u \in Tab, talks'[u]["boot"].pc # "none"
                 PROVE  /\ tabs'[u].page = "restoring"
                        /\ talks'[u]["refresh"].pc = "none"
                        /\ \A s \in Of(u) : calls'[s].pc = "idle"
                        /\ talks'[u]["boot"].pc # "sent"
                        /\ talks'[u]["boot"].pc = "refused" => cookie' = None
      BY DEF BootGood, Of
    <3>1. talks[u]["boot"].pc # "none"
      BY <1>1, <2>3
    <3>2. talks'[u]["boot"].pc # "sent"
      BY <1>1, <1>2, <2>3 DEF Active
    <3>3. talks'[u]["boot"].pc = "refused" => cookie' = None
      BY <1>1, <2>1, <2>2, <2>3, <3>1 DEF Calm, BootGood, Aged, None
    <3>4. talks'[u]["refresh"].pc = "none"
      BY <1>1, <2>3, <3>1 DEF Calm, BootGood
    <3> QED
      BY <2>4, <2>5, <3>1, <3>2, <3>3, <3>4 DEF Calm, BootGood, Of
  <2>10. CallsGood'
    <3>1. \A u \in Tab : tabs'[u].page = "in" => logins' # 0
      BY <1>1, <2>4 DEF Calm, CallsGood
    <3>2. ASSUME NEW s \in Slot
          PROVE  /\ calls'[s].pc # "idle" => logins' # 0
                 /\ calls'[s].again => calls'[s].pc = "sent" /\ calls'[s].token \in alive'
      <4>1. /\ calls[s].pc # "idle" => logins # 0
            /\ calls[s].again => calls[s].pc = "sent" /\ calls[s].token \in alive
        BY DEF Calm, CallsGood
      <4>2. calls[s].again => calls'[s].token = calls[s].token
        BY <2>2, <2>5, <4>1 DEF Dead
      <4> QED
        BY <1>1, <2>2, <2>5, <4>1, <4>2
    <3> QED
      BY <3>1, <3>2 DEF CallsGood
  <2> QED
    BY <1>1, <2>2, <2>6, <2>7, <2>8, <2>9, <2>10 DEF Calm, AllAlive
<1>4. CASE ~Good(n)
  <2>1. k = "boot" /\ n = None /\ logins = 0
    BY <1>1, <1>4 DEF Calm, RefreshGood, BootGood, Good
  <2>2. alive = {} /\ alive' = alive /\ UNCHANGED <<cookie, tabs, calls>>
    <3>1. alive' = alive \ {-n} /\ UNCHANGED <<cookie, tabs, calls>>
      BY <1>4 DEF HandleRefresh
    <3> QED
      BY <2>1, <3>1 DEF Calm, AllAlive
  <2>3. cookie = None
    BY <1>1, <1>2, <2>2 DEF Calm, CookieGood, Active
  <2>4. \A u \in Tab : \A j \in Kind :
            talks'[u][j] = IF u = t /\ j = k THEN [pc |-> "refused", token |-> None] ELSE talks[u][j]
    <3>1. talks' = [talks EXCEPT ![t][k] = [pc |-> "refused", token |-> None]]
      BY <1>4 DEF HandleRefresh, Refuse, Say
    <3> QED
      BY <3>1, TypesOf
  <2> HIDE DEF n
  <2>5. OneRefresh'
    BY <1>2, <2>4 DEF OneRefresh, Active
  <2>6. CookieGood'
    BY <1>1, <2>1, <2>2, <2>3 DEF CookieGood
  <2>7. RefreshGood'
    BY <1>1, <2>1, <2>2, <2>4 DEF Calm, RefreshGood
  <2>8. BootGood'
    <3> SUFFICES ASSUME NEW u \in Tab, talks'[u]["boot"].pc # "none"
                 PROVE  /\ tabs'[u].page = "restoring"
                        /\ talks'[u]["refresh"].pc = "none"
                        /\ \A s \in Of(u) : calls'[s].pc = "idle"
                        /\ talks'[u]["boot"].pc # "sent"
      BY <2>2, <2>3 DEF BootGood, Of
    <3>1. talks[u]["boot"].pc # "none"
      BY <1>1, <2>1, <2>4
    <3>2. talks'[u]["boot"].pc # "sent"
      BY <1>1, <1>2, <2>1, <2>4 DEF Active
    <3>3. talks'[u]["refresh"] = talks[u]["refresh"]
      BY <1>1, <2>1, <2>4
    <3> QED
      BY <2>2, <3>1, <3>2, <3>3 DEF Calm, BootGood, Of
  <2>9. CallsGood'
    BY <1>1, <2>2 DEF Calm, CallsGood
  <2> QED
    BY <1>1, <2>2, <2>5, <2>6, <2>7, <2>8, <2>9 DEF Calm, AllAlive
<1> QED
  BY <1>3, <1>4

LEMMA AnsweredCalmly ==
    ASSUME BrowserTyped, Calm, ~excused', NEW t \in Tab, BootAnswered(t) \/ RefreshAnswered(t)
    PROVE  Calm'
<1>1. /\ "boot" \in Kind /\ "refresh" \in Kind /\ \A j \in Kind : j \in {"boot", "refresh"}
      /\ "boot" # "refresh"
  BY DEF Kind
<1>2. PICK k \in Kind : /\ Say(t, k, Silent)
                       /\ talks[t][k].pc \in {"ok", "refused"}
                       /\ \/ BootAnswered(t) /\ k = "boot"
                          \/ RefreshAnswered(t) /\ k = "refresh"
  <2>1. BootAnswered(t) => Say(t, "boot", Silent) /\ talks[t]["boot"].pc \in {"ok", "refused"}
    BY DEF BootAnswered
  <2>2. RefreshAnswered(t) =>
            Say(t, "refresh", Silent) /\ talks[t]["refresh"].pc \in {"ok", "refused"}
    BY DEF RefreshAnswered
  <2> QED
    BY <1>1, <2>1, <2>2
<1>3. /\ UNCHANGED <<alive, logins>>
      /\ \A u \in Tab : \A j \in Kind :
            talks'[u][j] = IF u = t /\ j = k THEN Silent ELSE talks[u][j]
  <2>1. UNCHANGED <<alive, logins>>
    BY DEF BootAnswered, RefreshAnswered
  <2> QED
    BY <1>2, <2>1, SaidTyped, Slots, TypesOf
<1>4. OneRefresh'
  BY <1>3, Slots DEF Calm, OneRefresh, Active
<1>5. RefreshGood'
  BY <1>1, <1>3, Slots DEF Calm, RefreshGood
<1>6. CASE talks[t][k].pc = "ok"
  <2> DEFINE n == talks[t][k].token
  <2>1. n \in 1..logins /\ n \in alive /\ logins # 0
    <3>1. n \in 1..logins
      BY <1>6, TypesOf
    <3> HIDE DEF n
    <3> QED
      BY <3>1, TypesOf DEF Calm, AllAlive
  <2>2. /\ cookie' = n /\ tabs' = [tabs EXCEPT ![t].access = n]
        /\ calls' = [calls EXCEPT ![<<t, 1>>] = Ask(n, TRUE)] \/ Resend(t, n)
    <3>1. CASE BootAnswered(t) /\ k = "boot"
      BY <1>6, <3>1 DEF BootAnswered
    <3>2. CASE RefreshAnswered(t) /\ k = "refresh"
      BY <1>6, <3>2 DEF RefreshAnswered
    <3> QED
      BY <1>2, <3>1, <3>2
  <2> HIDE DEF n
  <2>4. CookieGood'
    BY <1>3, <2>1, <2>2 DEF CookieGood
  <2>5. \A u \in Tab : tabs'[u].page = tabs[u].page
    BY <2>2, TypesOf DEF TabState
  <2>6. \A s \in Slot : calls'[s] = calls[s] \/ (s[1] = t /\ calls'[s].pc = "sent"
                            /\ (calls'[s].again => calls'[s].token = n))
    <3>1. CASE calls' = [calls EXCEPT ![<<t, 1>>] = Ask(n, TRUE)]
      BY <3>1, Slots, TypesOf DEF Ask
    <3>2. CASE Resend(t, n)
      <4> SUFFICES ASSUME NEW s \in Waiting(t)
                   PROVE  s[1] = t /\ calls'[s].pc = "sent" /\ calls'[s].token = n
        BY <3>2 DEF Resend
      <4>1. s \in Slot /\ s[1] = t
        BY DEF Waiting, Of
      <4>2. calls[s] \in CallState
        BY <4>1, TypesOf
      <4>3. calls'[s] = [calls[s] EXCEPT !.pc = "sent", !.token = n, !.again = TRUE]
        BY <3>2, <4>1 DEF Resend
      <4> QED
        BY <4>1, <4>2, <4>3 DEF CallState
    <3> QED
      BY <2>2, <3>1, <3>2
  <2>7. BootGood'
    <3> SUFFICES ASSUME NEW u \in Tab, talks'[u]["boot"].pc # "none"
                 PROVE  /\ tabs'[u].page = "restoring"
                        /\ talks'[u]["refresh"].pc = "none"
                        /\ \A s \in Of(u) : calls'[s].pc = "idle"
                        /\ talks'[u]["boot"].pc = "sent" =>
                              \/ talks'[u]["boot"].token \in alive'
                              \/ talks'[u]["boot"].token = None /\ logins' = 0
                        /\ talks'[u]["boot"].pc # "refused"
      BY DEF BootGood, Of
    <3>1. talks[u]["boot"].pc # "none" /\ talks'[u]["boot"] = talks[u]["boot"] /\ ~(u = t /\ k = "boot")
      BY <1>1, <1>3, Slots
    <3>2. talks[u]["refresh"].pc = "none" /\ u # t
      BY <1>1, <1>2, <1>6, <3>1 DEF Calm, BootGood
    <3>3. talks'[u]["refresh"] = talks[u]["refresh"]
      BY <1>1, <1>3, <3>2
    <3>4. talks[u]["boot"].pc # "refused"
      <4>1. ASSUME cookie = None PROVE FALSE
        <5>1. CASE \E v \in Tab, j \in Kind : talks[v][j].pc = "ok" /\ cookie = -talks[v][j].token
          <6>1. PICK v \in Tab, j \in Kind : talks[v][j].pc = "ok" /\ cookie = -talks[v][j].token
            BY <5>1
          <6> DEFINE m == talks[v][j].token
          <6>2. m \in 1..logins /\ cookie = -m
            BY <6>1, TypesOf
          <6> HIDE DEF m
          <6> QED
            BY <4>1, <6>2, TypesOf DEF None
        <5>2. cookie \notin alive
          BY <4>1, TypesOf DEF None
        <5> QED
          BY <2>1, <5>1, <5>2 DEF Calm, CookieGood
      <4> QED
        BY <3>1, <4>1 DEF Calm, BootGood
    <3> QED
      BY <1>3, <2>5, <2>6, <3>1, <3>2, <3>3, <3>4 DEF Calm, BootGood, Of
  <2>8. CallsGood'
    BY <1>3, <2>1, <2>5, <2>6 DEF Calm, CallsGood
  <2> QED
    BY <1>3, <1>4, <1>5, <2>4, <2>7, <2>8 DEF Calm, AllAlive
<1>7. CASE talks[t][k].pc = "refused"
  <2>1. k = "boot" /\ SignOut(t) /\ UNCHANGED <<cookie, calls>>
    BY <1>2, <1>7 DEF Calm, RefreshGood, BootAnswered
  <2>2. \A u \in Tab : tabs'[u].page = IF u = t THEN "out" ELSE tabs[u].page
    BY <2>1, ShownTyped, TypesOf DEF SignOut
  <2>3. CookieGood'
    BY <1>3, <1>7, <2>1 DEF Calm, CookieGood
  <2>4. BootGood'
    BY <1>1, <1>3, <2>1, <2>2, Slots DEF Calm, BootGood, Of
  <2>5. CallsGood'
    BY <1>3, <2>1, <2>2 DEF Calm, CallsGood
  <2> QED
    BY <1>3, <1>4, <1>5, <2>3, <2>4, <2>5 DEF Calm, AllAlive
<1> QED
  BY <1>2, <1>6, <1>7

LEMMA OpenedCalmly ==
    ASSUME BrowserTyped, Calm, ~excused', NEW t \in Tab, Open(t) \/ Close(t)
    PROVE  Calm'
<1>1. "boot" \in Kind /\ "refresh" \in Kind /\ \A j \in Kind : j \in {"boot", "refresh"}
  BY DEF Kind
<1>2. Of(t) \in SUBSET Slot
  BY DEF Of
<1>3. /\ Settle(Of(t)) /\ UNCHANGED <<alive, logins, cookie>>
      /\ \A j \in Kind : ~Active(t, j)
  BY <1>1 DEF Open, Close, Overlaps, Active
<1>4. \A s \in Slot : calls'[s] = IF s \in Of(t) THEN Settled ELSE calls[s]
  BY <1>2, <1>3, SettledTyped, TypesOf
<1>5. PICK boot : /\ \A u \in Tab : \A j \in Kind :
                        talks'[u][j] = IF u # t THEN talks[u][j]
                                       ELSE IF j = "boot" THEN boot ELSE Silent
                  /\ \/ Close(t) /\ boot = Silent
                     \/ Open(t) /\ boot = Sent(cookie)
  <2>1. CASE Open(t)
    BY <2>1, TypesOf DEF Open
  <2>2. CASE Close(t)
    BY <2>2, TypesOf DEF Close
  <2> QED
    BY <2>1, <2>2
<1>6. Open(t) => \A u \in Tab : \A j \in Kind : ~Active(u, j)
  <2>1. "none" \notin Kind
    BY DEF Kind
  <2> QED
    BY <2>1 DEF Open, Overlaps, Active
<1>7. OneRefresh'
  <2>1. CASE Open(t)
    <3>1. \A u \in Tab, j \in Kind : Active(u, j)' => u = t /\ j = "boot"
      BY <1>5, <1>6, <2>1, Slots DEF Active
    <3> QED
      BY <3>1 DEF OneRefresh, Active
  <2>2. CASE Close(t)
    <3>1. \A u \in Tab, j \in Kind : Active(u, j)' => Active(u, j)
      <4>1. boot.pc = "none"
        <5>1. talks'[t]["boot"] = Silent
          BY <1>1, <2>2, TypesOf DEF Close
        <5> QED
          BY <1>1, <1>5, <5>1, Slots
      <4> QED
        BY <1>5, <4>1, Slots DEF Active
    <3> QED
      BY <3>1 DEF Calm, OneRefresh, Active
  <2> QED
    BY <2>1, <2>2
<1>8. CookieGood'
  BY <1>3, <1>5 DEF Calm, CookieGood, Active
<1>9. RefreshGood'
  BY <1>1, <1>3, <1>5, Slots DEF Calm, RefreshGood
<1>10. /\ \A u \in Tab : u # t => tabs'[u].page = tabs[u].page
       /\ tabs'[t].page \in {"restoring", "closed"} /\ (Open(t) => tabs'[t].page = "restoring")
  BY ShownTyped, TypesOf DEF Open, Close
<1>11. BootGood'
  <2>1. ASSUME NEW u \in Tab, u # t, talks'[u]["boot"].pc # "none"
        PROVE  /\ tabs'[u].page = "restoring"
               /\ talks'[u]["refresh"].pc = "none"
               /\ \A s \in Of(u) : calls'[s].pc = "idle"
               /\ talks'[u]["boot"].pc = "sent" =>
                     \/ talks'[u]["boot"].token \in alive'
                     \/ talks'[u]["boot"].token = None /\ logins' = 0
               /\ talks'[u]["boot"].pc = "refused" => cookie' = None
    <3>1. talks'[u]["boot"] = talks[u]["boot"] /\ talks'[u]["refresh"] = talks[u]["refresh"]
      BY <1>1, <1>5, <2>1
    <3>2. \A s \in Of(u) : calls'[s] = calls[s]
      BY <1>4, <2>1 DEF Of
    <3> QED
      BY <1>3, <1>10, <2>1, <3>1, <3>2 DEF Calm, BootGood
  <2>2. ASSUME talks'[t]["boot"].pc # "none"
        PROVE  /\ tabs'[t].page = "restoring"
               /\ talks'[t]["refresh"].pc = "none"
               /\ \A s \in Of(t) : calls'[s].pc = "idle"
               /\ talks'[t]["boot"].pc = "sent"
               /\ \/ talks'[t]["boot"].token \in alive'
                  \/ talks'[t]["boot"].token = None /\ logins' = 0
    <3>1. Open(t) /\ talks'[t]["boot"] = Sent(cookie) /\ talks'[t]["refresh"] = Silent
      BY <1>1, <1>5, <2>2, Slots
    <3>2. cookie \in alive \/ (cookie = None /\ logins = 0)
      BY <1>6, <3>1, CookieToSend
    <3> QED
      BY <1>2, <1>3, <1>4, <1>10, <3>1, <3>2, Slots, TypesOf
  <2>3. ASSUME NEW u \in Tab, talks'[u]["boot"].pc # "none"
        PROVE  /\ tabs'[u].page = "restoring"
               /\ talks'[u]["refresh"].pc = "none"
               /\ \A s \in Of(u) : calls'[s].pc = "idle"
               /\ talks'[u]["boot"].pc = "sent" =>
                     \/ talks'[u]["boot"].token \in alive'
                     \/ talks'[u]["boot"].token = None /\ logins' = 0
               /\ talks'[u]["boot"].pc = "refused" => cookie' = None
    BY <2>1, <2>2, <2>3
  <2> QED
    BY <2>3 DEF BootGood, Of
<1>12. CallsGood'
  BY <1>3, <1>4, <1>10, Slots DEF Calm, CallsGood
<1> QED
  BY <1>3, <1>7, <1>8, <1>9, <1>11, <1>12 DEF Calm, AllAlive

LEMMA SignedCalmly ==
    ASSUME BrowserTyped, Calm, ~excused', NEW t \in Tab,
           Login(t) \/ LoginFails(t) \/ ExpireAccess(t)
    PROVE  Calm'
<1>1. UNCHANGED <<talks, calls>> /\ "boot" \in Kind
  BY DEF Login, LoginFails, ExpireAccess, Kind
<1>2. CASE Login(t)
  <2>1. /\ logins' = logins + 1 /\ alive' = alive \cup {logins'} /\ cookie' = logins'
        /\ \A u \in Tab : tabs[u].page # "restoring"
    BY <1>2 DEF Login
  <2>2. \A u \in Tab : talks[u]["boot"].pc = "none"
    BY <2>1 DEF Calm, BootGood
  <2>3. alive' = 1..logins' /\ logins' # 0 /\ cookie' \in alive' /\ alive \subseteq alive'
    BY <2>1, TypesOf DEF Calm, AllAlive
  <2>4. RefreshGood'
    BY <1>1, <2>3 DEF Calm, RefreshGood
  <2>5. CallsGood'
    BY <1>1, <2>3 DEF Calm, CallsGood
  <2>6. OneRefresh' /\ BootGood'
    BY <1>1, <2>2 DEF Calm, OneRefresh, BootGood, Active, Of
  <2> QED
    BY <2>3, <2>4, <2>5, <2>6 DEF Calm, AllAlive, CookieGood
<1>3. CASE LoginFails(t) \/ ExpireAccess(t)
  <2>1. UNCHANGED <<alive, logins, cookie>>
    BY <1>3 DEF LoginFails, ExpireAccess
  <2>2. \A u \in Tab : \/ tabs'[u].page = tabs[u].page
                       \/ tabs'[u].page = "out" /\ tabs[u].page # "restoring"
    <3>1. CASE LoginFails(t)
      BY <3>1, ShownTyped, TypesOf DEF LoginFails, SignOut
    <3>2. CASE ExpireAccess(t)
      BY <3>2, TypesOf DEF ExpireAccess, TabState
    <3> QED
      BY <1>3, <3>1, <3>2
  <2>3. BootGood'
    BY <1>1, <2>1, <2>2 DEF Calm, BootGood, Of
  <2>4. CallsGood'
    BY <1>1, <2>1, <2>2 DEF Calm, CallsGood
  <2> QED
    BY <1>1, <2>1, <2>3, <2>4
       DEF Calm, AllAlive, OneRefresh, CookieGood, RefreshGood, Active
<1> QED
  BY <1>2, <1>3

\* A step that begins or ends a call, and leaves every refresh alone.
LEMMA CalledCalmly ==
    ASSUME BrowserTyped, Calm, ~excused', NEW s \in Slot,
           Start(s) \/ CallSucceeds(s) \/ CallRefused(s) \/ CallGivesUp(s) \/ CallFails(s)
    PROVE  Calm' /\ ~CallGivesUp(s)
<1>1. s[1] \in Tab /\ s \in Of(s[1]) /\ "boot" \in Kind
  BY Slots DEF Of, Kind
<1>2. ~CallGivesUp(s)
  BY DEF Calm, CallsGood, CallGivesUp
<1>3. UNCHANGED <<alive, logins, cookie, talks>>
  BY <1>2 DEF Start, CallSucceeds, CallRefused, CallFails
<1>4. talks[s[1]]["boot"].pc = "none" /\ logins # 0
  <2>1. CASE Start(s)
    BY <1>1, <2>1 DEF Start, Calm, BootGood, CallsGood
  <2>2. CASE CallSucceeds(s) \/ CallRefused(s) \/ CallFails(s)
    BY <1>1, <2>2 DEF CallSucceeds, CallRefused, CallFails, Calm, BootGood, CallsGood
  <2> QED
    BY <1>2, <2>1, <2>2
<1>5. \A u \in Tab : u # s[1] => tabs'[u] = tabs[u]
  <2>1. CASE CallSucceeds(s)
    BY <2>1, TypesOf DEF CallSucceeds
  <2>2. CASE Start(s) \/ CallRefused(s) \/ CallFails(s)
    BY <2>2 DEF Start, CallRefused, CallFails, SignOut, Show
  <2> QED
    BY <1>2, <2>1, <2>2
<1>6. \A x \in Slot : \/ calls'[x] = calls[x] /\ x # s
                      \/ x = s /\ ~calls'[x].again
  <2>1. CASE Start(s)
    BY <2>1, TypesOf DEF Start, Ask
  <2>2. CASE CallRefused(s)
    <3>1. /\ calls[s] \in CallState
          /\ calls' = [calls EXCEPT ![s] = [calls[s] EXCEPT !.pc = "refused", !.token = None]]
      BY <2>2, TypesOf DEF CallRefused
    <3>2. ~calls[s].again
      BY <2>2 DEF CallRefused, Calm, CallsGood, Good
    <3> QED
      BY <3>1, <3>2, TypesOf DEF CallState
  <2>3. CASE CallSucceeds(s) \/ CallFails(s)
    <3>1. Settle({s})
      BY <2>3 DEF CallSucceeds, CallFails
    <3>2. \A x \in Slot : calls'[x] = IF x \in {s} THEN Settled ELSE calls[x]
      BY <3>1, SettledTyped, TypesOf
    <3> QED
      BY <3>2, Slots
  <2> QED
    BY <1>2, <2>1, <2>2, <2>3
<1>7. BootGood'
  BY <1>3, <1>4, <1>5, <1>6 DEF Calm, BootGood, Of
<1>8. CallsGood'
  BY <1>3, <1>4, <1>6 DEF Calm, CallsGood
<1> QED
  BY <1>2, <1>3, <1>7, <1>8 DEF Calm, AllAlive, OneRefresh, CookieGood, RefreshGood, Active

LEMMA RetriedCalmly ==
    ASSUME BrowserTyped, Calm, ~excused', NEW s \in Slot, CallRetried(s)
    PROVE  Calm'
<1> DEFINE t == s[1]
<1>1. /\ t \in Tab /\ s \in Of(t) /\ "boot" \in Kind /\ "refresh" \in Kind
      /\ \A j \in Kind : j \in {"boot", "refresh"}
  BY Slots DEF Of, Kind
<1> HIDE DEF t
<1>2. /\ UNCHANGED <<alive, logins, cookie, tabs>> /\ calls[s].pc = "refused" /\ ~calls[s].again
      /\ calls' = [calls EXCEPT ![s].pc = "waiting"] /\ EnsureRefresh(t)
  BY DEF CallRetried, t
<1>3. talks[t]["boot"].pc = "none" /\ logins # 0
  BY <1>1, <1>2 DEF Calm, BootGood, CallsGood
<1>4. \A x \in Slot : \/ calls'[x] = calls[x] /\ x # s
                      \/ x = s /\ ~calls'[x].again
  <2> DEFINE c == [calls[s] EXCEPT !.pc = "waiting"]
  <2>1. calls[s] \in CallState /\ calls' = [calls EXCEPT ![s] = c]
    BY <1>2, TypesOf
  <2>2. ~c.again
    BY <1>2, <2>1 DEF CallState
  <2> HIDE DEF c
  <2> QED
    BY <2>1, <2>2, TypesOf
<1>5. CallsGood'
  BY <1>2, <1>3, <1>4 DEF Calm, CallsGood
<1>6. CASE talks[t]["refresh"].pc # "none"
  <2>1. UNCHANGED talks
    BY <1>2, <1>6 DEF EnsureRefresh
  <2>2. BootGood'
    BY <1>1, <1>2, <1>3, <1>4, <2>1 DEF Calm, BootGood, Of, t
  <2> QED
    BY <1>2, <1>5, <2>1, <2>2 DEF Calm, AllAlive, OneRefresh, CookieGood, RefreshGood, Active
<1>7. CASE talks[t]["refresh"].pc = "none"
  <2>1. Say(t, "refresh", Sent(cookie)) /\ ~Overlaps(t, "refresh")
    BY <1>2, <1>7 DEF EnsureRefresh
  <2>2. \A u \in Tab : \A j \in Kind : ~Active(u, j)
    BY <1>7, <2>1 DEF Overlaps, Active
  <2>3. cookie \in alive
    BY <1>3, <2>2, CookieToSend
  <2>4. \A u \in Tab : \A j \in Kind :
            talks'[u][j] = IF u = t /\ j = "refresh" THEN Sent(cookie) ELSE talks[u][j]
    BY <1>1, <2>1, SaidTyped, TypesOf
  <2>5. OneRefresh'
    BY <2>2, <2>4 DEF OneRefresh, Active
  <2>6. RefreshGood'
    BY <1>1, <1>2, <2>3, <2>4, TypesOf DEF Calm, RefreshGood
  <2>7. BootGood'
    BY <1>1, <1>2, <1>3, <1>4, <2>4 DEF Calm, BootGood, Of, t
  <2> QED
    BY <1>2, <1>5, <2>3, <2>5, <2>6, <2>7 DEF Calm, AllAlive, CookieGood
<1> QED
  BY <1>6, <1>7

\* The history forgets nothing.
LEMMA OnceExcused == ASSUME [BrowserNext]_browser, excused PROVE excused'
BY DEF BrowserNext, TabStep, RefreshStep, CallStep, HandleRefresh, Rotate, Refuse, RefreshFails, Open,
       Close, BootAnswered, BootLost, RefreshAnswered, RefreshLost, Login, LoginFails, Logout,
       Start, EnsureRefresh, CallSucceeds, CallRefused, CallRetried, CallGivesUp, CallFails,
       ExpireAccess, EndSession, browser

LEMMA BrowserInvStays == BrowserInv /\ [BrowserNext]_browser => BrowserInv'
<1> SUFFICES ASSUME BrowserInv, [BrowserNext]_browser, ~excused' PROVE Calm'
  BY BrowserTypesStay DEF BrowserInv
<1> USE DEF BrowserInv
<1>2. BrowserTyped /\ Calm
  BY OnceExcused
<1>3. ASSUME NEW t \in Tab, TabStep(t) \/ RefreshStep(t) PROVE Calm'
  BY <1>2, <1>3, HandledCalmly, AnsweredCalmly, OpenedCalmly, SignedCalmly
     DEF TabStep, RefreshStep, RefreshFails, BootLost, RefreshLost, Logout
<1>4. ASSUME NEW s \in Slot, Start(s) \/ CallStep(s) PROVE Calm'
  BY <1>2, <1>4, CalledCalmly, RetriedCalmly DEF CallStep
<1>5. ASSUME NEW f \in alive, EndSession(f) PROVE Calm'
  BY <1>5 DEF EndSession
<1>6. CASE UNCHANGED browser
  BY <1>2, <1>6 DEF browser, Calm, AllAlive, OneRefresh, CookieGood, RefreshGood, BootGood,
                    CallsGood, Active, Of
<1> QED
  BY <1>3, <1>4, <1>5, <1>6 DEF BrowserNext

LEMMA BrowserInvHolds == BrowserSpec => []BrowserInv
<1>1. BrowserInit => BrowserInv
  <2> SUFFICES ASSUME BrowserInit PROVE BrowserInv
    OBVIOUS
  <2>1. /\ logins \in 0..MaxLogin /\ alive = 1..logins /\ cookie = logins /\ cookie \in Token
        /\ None \in 0..MaxLogin /\ excused = FALSE /\ (logins = 0 \/ logins \in 1..logins)
    BY Slots DEF BrowserInit, Token, None
  <2>2. \A t \in Tab : /\ tabs[t] \in TabState /\ tabs[t].page = "closed"
                       /\ \A k \in Kind : talks[t][k] = Silent
    BY <2>1 DEF BrowserInit, TabState
  <2>3. \A s \in Slot : calls[s] = Settled
    BY DEF BrowserInit
  <2>4. /\ tabs \in [Tab -> TabState] /\ talks \in [Tab -> [Kind -> Talk]]
        /\ calls \in [Slot -> CallState]
    BY <2>1, Slots DEF BrowserInit, TabState
  <2>5. BrowserTypeOK
    BY <2>1, <2>3, <2>4, Slots DEF BrowserTypeOK
  <2>6. Unshared
    BY <2>2, Slots DEF Unshared
  <2>7. "boot" \in Kind /\ "refresh" \in Kind
    BY DEF Kind
  <2>8. Calm
    BY <2>1, <2>2, <2>3, <2>7, Slots
       DEF Calm, AllAlive, OneRefresh, CookieGood, RefreshGood, BootGood, CallsGood, Active, None, Of
  <2> QED
    BY <2>5, <2>6, <2>8 DEF BrowserInv, BrowserTyped
<1> QED
  BY <1>1, BrowserInvStays, PTL DEF BrowserSpec

\* The types of the browser's state hold for every set of tabs and calls, and a
\* call waits only while a refresh of its tab is under way to resume it.
THEOREM BrowserTypeCorrect == BrowserSpec => []BrowserTypeOK
<1>1. BrowserInv => BrowserTypeOK
  BY DEF BrowserInv, BrowserTyped
<1> QED
  BY <1>1, BrowserInvHolds, PTL

\* No tab is signed out by the client's own doing: however its calls meet a 401
\* together and the refreshes of several tabs follow each other, a tab is signed
\* out only once one of the excuses listed at SignedOutForAReason has occurred, or
\* when it is opened without a cookie (http-client.ts, auth-context.tsx).
THEOREM SignedOutForAReasonHolds == BrowserSpec => SignedOutForAReason
<1>1. ASSUME BrowserInv, [BrowserNext]_browser, ~excused', NEW u \in Tab,
             tabs[u].page \in {"restoring", "in"}, tabs'[u].page = "out"
      PROVE  tabs[u].page = "restoring" /\ cookie = None
  <2>1. BrowserTyped /\ Calm
    BY <1>1, OnceExcused DEF BrowserInv
  <2>2. tabs \in [Tab -> TabState] /\ \A v \in Tab : tabs[v] \in TabState
    BY <2>1, TypesOf
  <2>3. ASSUME NEW t \in Tab, NEW page, Show(t, page, None) PROVE u = t /\ page = "out"
    BY <1>1, <2>2, <2>3 DEF Show
  <2>4. ASSUME NEW t \in Tab, NEW access, tabs' = [tabs EXCEPT ![t].access = access] PROVE FALSE
    BY <1>1, <2>2, <2>4 DEF TabState
  <2>5. ASSUME NEW t \in Tab, BootAnswered(t) \/ RefreshAnswered(t)
        PROVE  tabs[u].page = "restoring" /\ cookie = None
    <3>1. BootAnswered(t) /\ talks[t]["boot"].pc = "refused" /\ SignOut(t)
      <4>1. CASE BootAnswered(t)
        BY <2>4, <4>1 DEF BootAnswered
      <4>2. CASE RefreshAnswered(t)
        BY <2>1, <2>4, <4>2 DEF RefreshAnswered, Calm, RefreshGood
      <4> QED
        BY <2>5, <4>1, <4>2
    <3>2. u = t
      BY <2>3, <3>1 DEF SignOut
    <3> QED
      BY <2>1, <3>1, <3>2 DEF Calm, BootGood
  <2>6. ASSUME NEW t \in Tab, NEW k \in Kind, HandleRefresh(t, k) PROVE FALSE
    <3>1. CASE Good(talks[t][k].token)
      <4>1. PICK n : tabs' = [v \in Tab |-> [tabs[v] EXCEPT !.access = Dead(n, @)]]
        BY <2>6, <3>1 DEF HandleRefresh, Rotate
      <4> QED
        BY <1>1, <2>2, <4>1 DEF TabState
    <3>2. CASE ~Good(talks[t][k].token)
      BY <1>1, <2>6, <3>2 DEF HandleRefresh
    <3> QED
      BY <3>1, <3>2
  <2>8. ASSUME NEW t \in Tab, Open(t) \/ Close(t) \/ ExpireAccess(t) \/ LoginFails(t) PROVE FALSE
    <3>1. CASE Open(t)
      BY <2>3, <3>1 DEF Open
    <3>2. CASE Close(t)
      BY <2>3, <3>2 DEF Close
    <3>3. CASE ExpireAccess(t)
      BY <2>4, <3>3 DEF ExpireAccess
    <3>4. CASE LoginFails(t)
      BY <1>1, <2>3, <3>4 DEF LoginFails, SignOut
    <3> QED
      BY <2>8, <3>1, <3>2, <3>3, <3>4
  <2>9. ASSUME NEW t \in Tab, Login(t) PROVE FALSE
    BY <1>1, <2>2, <2>9 DEF Login, Show
  <2>7. ASSUME NEW s \in Slot, Start(s) \/ CallStep(s) PROVE FALSE
    <3>1. ~CallGivesUp(s)
      BY <1>1, <2>1, CalledCalmly
    <3>2. CASE CallSucceeds(s)
      BY <1>1, <2>2, <3>2 DEF CallSucceeds, TabState
    <3> QED
      BY <1>1, <2>7, <3>1, <3>2 DEF Start, CallStep, CallRefused, CallRetried, CallFails
  <2> QED
    BY <1>1, <2>5, <2>6, <2>7, <2>8, <2>9
       DEF BrowserNext, TabStep, RefreshStep, RefreshFails, BootLost, RefreshLost, Logout, EndSession, browser
<1>2. BrowserInv /\ [BrowserNext]_browser =>
          [\A t \in Tab :
              /\ tabs[t].page \in {"restoring", "in"}
              /\ tabs'[t].page = "out"
              => excused' \/ (tabs[t].page = "restoring" /\ cookie = None)]_browser
  BY <1>1
<1> QED
  BY <1>2, BrowserInvHolds, PTL DEF BrowserSpec, SignedOutForAReason
=============================================================================
