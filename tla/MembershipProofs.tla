-------------------------- MODULE MembershipProofs --------------------------
(* TLAPS proofs about Membership, for every set of people and requests and *)
(* every bound.                                                            *)
EXTENDS Membership, TLAPS

USE MembershipAssumption DEF InviteId

\* What the record of an in-flight request refers to.
Located(q) ==
    /\ q.pc \in {"target_read", "count_owners", "role_write", "delete_write",
                 "invite_expire", "invite_member", "invite_pending", "invite_create"}
          => q.target \in User
    /\ q.pc \in {"target_read", "count_owners"} => q.goal \in Role \cup {"remove"}
    /\ q.pc = "role_write" => q.goal \in Role
    /\ q.pc \in {"invite_expire", "invite_member", "invite_pending", "invite_create"}
          => q.goal \in Invitable
    /\ q.pc \in {"resend_read", "resend_write", "revoke", "accept"}
          => q.invite \in 1..invited
    /\ q.pc = "accept" => q.target = invitations[q.invite].email

\* What a request has checked about the members, as long as they are the same.
Checked(q) ==
    /\ q.pc \in {"invite_pending", "invite_create"} => ~Active(q.target)
    /\ q.pc = "delete_write" \/ (q.pc = "role_write" /\ q.goal # "owner")
          => Owners # {q.target}

\* The unique index on pending invitations.
OnePending ==
    \A i, j \in 1..invited :
        Pending(i) /\ Pending(j) /\ invitations[i].email = invitations[j].email => i = j

Tables ==
    /\ members \in [User -> Member]
    /\ invited \in 0..MaxInvite
    /\ invitations \in [1..invited -> Invitation]
    /\ grants \in [InviteId -> Nat]
    /\ InvitationsAccountForMembers
    /\ OnePending

Callers ==
    /\ requests \in [Request -> RequestState]
    /\ \A r \in Request : Located(requests[r])

Fresh == \A r \in Request : r \notin overtaken => Checked(requests[r])

Watched == overtaken \subseteq Request /\ raced \in BOOLEAN

Safe == OwnerRemainsUnlessRaced /\ NoInvitationForMembers

IInv == Tables /\ Callers /\ Fresh /\ Watched /\ Safe

Counted == served \in 0..MaxServed

LEMMA Typed == IInv /\ Counted => TypeOK
BY DEF IInv, Tables, Callers, Watched, Counted, TypeOK

LEMMA IdleTyped == Idle \in RequestState /\ Idle.pc = "idle"
BY DEF Idle, RequestState, Step, Goal

LEMMA InitSound == Init => IInv
<1> SUFFICES ASSUME Init PROVE IInv
  OBVIOUS
<1>1. /\ invited = 0 /\ grants = [i \in InviteId |-> 0]
      /\ invitations \in [1..invited -> Invitation]
      /\ \A i \in 1..invited : FALSE
  BY DEF Init
<1>2. members \in [User -> Member] /\ Founder \in Owners
      /\ \A u \in User \ {Founder} : members[u].status = "none"
  BY DEF Init, Member, Role, Owners, Active
<1>3. Tables
  BY <1>1, <1>2 DEF Tables, InvitationsAccountForMembers, OnePending
<1>4. Callers /\ Fresh
  BY IdleTyped DEF Init, Callers, Fresh, Located, Checked
<1>5. Watched /\ Safe
  BY <1>1, <1>2 DEF Init, Watched, Safe, OwnerRemainsUnlessRaced, NoInvitationForMembers
<1> QED
  BY <1>3, <1>4, <1>5 DEF IInv

-----------------------------------------------------------------------------
(* What a step does to the requests.                                       *)

\* Invitations are never taken away, nor sent to another address.
Kept ==
    /\ invited \in Nat /\ invited' \in Nat /\ invited <= invited'
    /\ \A i \in 1..invited : invitations'[i].email = invitations[i].email

LEMMA CallersStay ==
    ASSUME IInv, Kept, NEW r \in Request, NEW new \in RequestState, Located(new),
           requests' = [requests EXCEPT ![r] = new]
    PROVE  Callers'
<1>1. /\ requests' \in [Request -> RequestState]
      /\ requests'[r] = new
      /\ \A q \in Request : q # r => requests'[q] = requests[q]
  BY DEF IInv, Callers
<1>2. ASSUME NEW q \in Request PROVE Located(requests[q])'
  <2>1. CASE q = r
    BY <1>1, <2>1 DEF Located, Kept
  <2>2. CASE q # r
    <3>1. Located(requests[q]) /\ requests'[q] = requests[q]
      BY <1>1, <2>2 DEF IInv, Callers
    <3> QED
      BY <3>1 DEF Located, Kept
  <2> QED
    BY <2>1, <2>2
<1> QED
  BY <1>1, <1>2 DEF Callers

\* Whoever the members have changed under is overtaken.
LEMMA FreshStays ==
    ASSUME IInv, Watch, NEW r \in Request, NEW new \in RequestState,
           requests' = [requests EXCEPT ![r] = new],
           new.pc = "idle" \/ members' = members,
           r \notin overtaken => Checked(new)
    PROVE  Fresh'
<1>1. /\ requests'[r] = new
      /\ \A q \in Request : q # r => requests'[q] = requests[q]
  BY DEF IInv, Callers
<1>2. \A q \in Request : /\ q \notin overtaken' /\ requests'[q].pc # "idle"
                         /\ members' = members
                         => q \notin overtaken
  BY DEF Watch, InFlight
<1>3. \A q \in Request : /\ q \notin overtaken' /\ requests'[q].pc # "idle"
                         /\ requests[q].pc # "idle"
                         => members' = members
  BY DEF Watch, InFlight
<1>4. ASSUME NEW q \in Request, q \notin overtaken' PROVE Checked(requests[q])'
  <2>1. CASE requests'[q].pc = "idle"
    BY <2>1 DEF Checked
  <2>2. CASE requests'[q].pc # "idle"
    <3>1. members' = members /\ q \notin overtaken
      BY <1>1, <1>2, <1>3, <1>4, <2>2
    <3>2. CASE q = r
      BY <1>1, <3>1, <3>2 DEF Checked, Active, Owners
    <3>3. CASE q # r
      <4>1. Checked(requests[q]) /\ requests'[q] = requests[q]
        BY <1>1, <3>1, <3>3 DEF IInv, Fresh
      <4> QED
        BY <3>1, <4>1 DEF Checked, Active, Owners
    <3> QED
      BY <3>2, <3>3
  <2> QED
    BY <2>1, <2>2
<1> QED
  BY <1>4 DEF Fresh

LEMMA WatchedStays == ASSUME IInv, Watch PROVE Watched'
BY DEF IInv, Watched, Watch, InFlight

\* A step that changes the tables at the hands of an overtaken request has raced.
LEMMA NotRaced ==
    ASSUME IInv, Watch, NEW r \in Request, requests'[r] = Idle, ~raced',
           members' # members \/ invitations' # invitations
    PROVE  ~raced /\ r \notin overtaken
BY DEF Watch

LEMMA FinishStays ==
    ASSUME IInv, Watch, Kept, NEW r \in Request, Finish(r)
    PROVE  Callers' /\ Fresh' /\ requests'[r] = Idle
<1>1. Located(Idle) /\ Checked(Idle)
  BY IdleTyped DEF Located, Checked
<1>2. requests'[r] = Idle
  BY DEF Finish, IInv, Callers
<1> QED
  BY <1>1, <1>2, IdleTyped, CallersStay, FreshStays DEF Finish

\* A step that only reads.
LEMMA ReadStays ==
    ASSUME IInv, Watch, NEW r \in Request, NEW new \in RequestState,
           Located(new), r \notin overtaken => Checked(new),
           requests' = [requests EXCEPT ![r] = new],
           UNCHANGED <<members, invited, invitations, grants>>
    PROVE  IInv'
<1>1. Kept
  BY DEF Kept, IInv, Tables
<1>2. Callers' /\ Fresh'
  BY <1>1, CallersStay, FreshStays
<1>3. Tables'
  BY DEF IInv, Tables, InvitationsAccountForMembers, OnePending, Pending
<1>4. Safe'
  BY DEF IInv, Safe, OwnerRemainsUnlessRaced, NoInvitationForMembers, Watch, Owners,
     Active, Pending
<1> QED
  BY <1>2, <1>3, <1>4, WatchedStays DEF IInv

LEMMA FinishReadStays ==
    ASSUME IInv, Watch, NEW r \in Request, Finish(r),
           UNCHANGED <<members, invited, invitations, grants>>
    PROVE  IInv'
<1>1. Located(Idle) /\ Checked(Idle)
  BY IdleTyped DEF Located, Checked
<1> QED
  BY <1>1, IdleTyped, ReadStays DEF Finish

\* A handler that goes on: the rest of its record stays.
LEMMA GoneOn ==
    ASSUME IInv, NEW r \in Request, NEW next \in Step, Goto(r, next)
    PROVE  \E new \in RequestState :
              /\ requests' = [requests EXCEPT ![r] = new]
              /\ new.pc = next /\ new.target = requests[r].target
              /\ new.goal = requests[r].goal /\ new.invite = requests[r].invite
<1> DEFINE new == [requests[r] EXCEPT !.pc = next]
<1>1. requests[r] \in RequestState
  BY DEF IInv, Callers
<1>2. /\ new \in RequestState /\ new.pc = next /\ new.target = requests[r].target
      /\ new.goal = requests[r].goal /\ new.invite = requests[r].invite
  BY <1>1 DEF RequestState
<1>3. requests' = [requests EXCEPT ![r] = new]
  BY DEF Goto
<1> HIDE DEF new
<1> QED
  BY <1>2, <1>3

LEMMA BeginSound ==
    ASSUME IInv, Watch, NEW r \in Request, Begin(r)
    PROVE  IInv'
<1>0. \A u \in User : members[u].role \in Role
  BY DEF IInv, Tables, Member
<1>1. ASSUME NEW u \in User, NEW t \in User, NEW goal \in Role \cup {"remove"},
             requests' = [requests EXCEPT ![r] =
                [Idle EXCEPT !.pc = "target_read", !.role = members[u].role,
                             !.target = t, !.goal = goal]],
             UNCHANGED <<members, invited, invitations, grants>>
      PROVE  IInv'
  <2> DEFINE new == [Idle EXCEPT !.pc = "target_read", !.role = members[u].role,
                                 !.target = t, !.goal = goal]
  <2>1. new \in RequestState /\ new.pc = "target_read" /\ new.target = t /\ new.goal = goal
    BY <1>0, IdleTyped DEF RequestState, Step, Goal
  <2> HIDE DEF new
  <2>2. Located(new) /\ Checked(new)
    BY <2>1 DEF Located, Checked
  <2>3. requests' = [requests EXCEPT ![r] = new]
    BY <1>1 DEF new
  <2> QED
    BY <1>1, <2>1, <2>2, <2>3, ReadStays
<1>2. ASSUME NEW t \in User, NEW goal \in Invitable,
             requests' = [requests EXCEPT ![r] =
                [Idle EXCEPT !.pc = "invite_expire", !.target = t, !.goal = goal]],
             UNCHANGED <<members, invited, invitations, grants>>
      PROVE  IInv'
  <2> DEFINE new == [Idle EXCEPT !.pc = "invite_expire", !.target = t, !.goal = goal]
  <2>1. new \in RequestState /\ new.pc = "invite_expire" /\ new.target = t /\ new.goal = goal
    BY IdleTyped DEF RequestState, Step, Goal, Role, Invitable
  <2> HIDE DEF new
  <2>2. Located(new) /\ Checked(new)
    BY <2>1 DEF Located, Checked
  <2>3. requests' = [requests EXCEPT ![r] = new]
    BY <1>2 DEF new
  <2> QED
    BY <1>2, <2>1, <2>2, <2>3, ReadStays
<1>3. ASSUME NEW i \in 1..invited, NEW pc \in {"resend_read", "revoke"},
             requests' = [requests EXCEPT ![r] = [Idle EXCEPT !.pc = pc, !.invite = i]],
             UNCHANGED <<members, invited, invitations, grants>>
      PROVE  IInv'
  <2> DEFINE new == [Idle EXCEPT !.pc = pc, !.invite = i]
  <2>1. i \in 0..MaxInvite
    BY DEF IInv, Tables
  <2>2. new \in RequestState /\ new.pc = pc /\ new.invite = i
    BY <2>1, IdleTyped DEF RequestState, Step
  <2> HIDE DEF new
  <2>3. Located(new) /\ Checked(new)
    BY <2>2 DEF Located, Checked
  <2>4. requests' = [requests EXCEPT ![r] = new]
    BY <1>3 DEF new
  <2> QED
    BY <1>3, <2>2, <2>3, <2>4, ReadStays
<1>4. ASSUME NEW u \in User, NEW i \in 1..invited, FindAcceptable(r, u, i) PROVE IInv'
  <2> DEFINE new == [Idle EXCEPT !.pc = "accept", !.target = u, !.invite = i,
                                 !.token = invitations[i].resent]
  <2>1. i \in 0..MaxInvite /\ invitations[i] \in Invitation
    BY DEF IInv, Tables
  <2>2. new \in RequestState /\ new.pc = "accept" /\ new.target = u /\ new.invite = i
    <3>1. invitations[i].resent \in 0..MaxResend
      BY <2>1 DEF Invitation
    <3> QED
      BY <2>1, <3>1, IdleTyped DEF RequestState, Step
  <2> HIDE DEF new
  <2>3. Located(new) /\ Checked(new)
    BY <1>4, <2>2 DEF Located, Checked, FindAcceptable
  <2>4. requests' = [requests EXCEPT ![r] = new]
        /\ UNCHANGED <<members, invited, invitations, grants>>
    BY <1>4 DEF FindAcceptable, new
  <2> QED
    BY <2>2, <2>3, <2>4, ReadStays
<1> QED
  BY <1>1, <1>2, <1>3, <1>4
     DEF Begin, RemoveMember, ChangeMemberRole, Invite, Resend, RevokeInvitation

-----------------------------------------------------------------------------
(* Handlers that go on after a read.                                       *)

\* A handler that has only read, and has checked enough for what it does next.
LEMMA GoneOnSound ==
    ASSUME IInv, Watch, NEW r \in Request, NEW next \in Step, Goto(r, next),
           UNCHANGED <<members, invited, invitations, grants>>,
           \A new \in RequestState :
              /\ new.pc = next /\ new.target = requests[r].target
              /\ new.goal = requests[r].goal /\ new.invite = requests[r].invite
              => Located(new) /\ (r \notin overtaken => Checked(new))
    PROVE  IInv'
<1>1. PICK new : /\ requests' = [requests EXCEPT ![r] = new]
                 /\ new.pc = next /\ new.target = requests[r].target
                 /\ new.goal = requests[r].goal /\ new.invite = requests[r].invite
  BY GoneOn
<1>2. new \in RequestState
  <2>1. requests'[r] = new /\ requests'[r] = [requests[r] EXCEPT !.pc = next]
    BY <1>1 DEF IInv, Callers, Goto
  <2> QED
    BY <2>1 DEF IInv, Callers, RequestState
<1> QED
  BY <1>1, <1>2, ReadStays

LEMMA TargetReadSound ==
    ASSUME IInv, Watch, NEW r \in Request, TargetRead(r) PROVE IInv'
<1>1. requests[r].target \in User /\ requests[r].goal \in Role \cup {"remove"}
  BY DEF IInv, Callers, Located, TargetRead
<1>2. CASE Finish(r)
  BY <1>2, FinishReadStays DEF TargetRead
<1>3. CASE /\ members[requests[r].target].role = "owner" /\ requests[r].goal # "owner"
           /\ Goto(r, "count_owners")
  BY <1>1, <1>3, GoneOnSound DEF TargetRead, Step, Located, Checked
<1>4. CASE /\ ~(members[requests[r].target].role = "owner" /\ requests[r].goal # "owner")
           /\ Goto(r, Write(requests[r].goal))
  <2>1. requests[r].goal # "owner" => Owners # {requests[r].target}
    BY <1>4 DEF Owners
  <2>2. CASE requests[r].goal = "remove"
    BY <1>1, <1>4, <2>1, <2>2, GoneOnSound DEF TargetRead, Write, Step, Located, Checked
  <2>3. CASE requests[r].goal # "remove"
    BY <1>1, <1>4, <2>1, <2>3, GoneOnSound DEF TargetRead, Write, Step, Located, Checked
  <2> QED
    BY <2>2, <2>3
<1> QED
  BY <1>2, <1>3, <1>4 DEF TargetRead

LEMMA CountOwnersSound ==
    ASSUME IInv, Watch, NEW r \in Request, CountOwners(r) PROVE IInv'
<1>1. requests[r].target \in User /\ requests[r].goal \in Role \cup {"remove"}
  BY DEF IInv, Callers, Located, CountOwners
<1>2. CASE Finish(r)
  BY <1>2, FinishReadStays DEF CountOwners
<1>3. CASE Owners \ {requests[r].target} # {} /\ Goto(r, Write(requests[r].goal))
  <2>1. Owners # {requests[r].target}
    BY <1>3
  <2>2. CASE requests[r].goal = "remove"
    BY <1>1, <1>3, <2>1, <2>2, GoneOnSound DEF CountOwners, Write, Step, Located, Checked
  <2>3. CASE requests[r].goal # "remove"
    BY <1>1, <1>3, <2>1, <2>3, GoneOnSound DEF CountOwners, Write, Step, Located, Checked
  <2> QED
    BY <2>2, <2>3
<1> QED
  BY <1>2, <1>3 DEF CountOwners

LEMMA InviteMemberSound ==
    ASSUME IInv, Watch, NEW r \in Request, InviteMember(r) PROVE IInv'
<1>1. requests[r].target \in User /\ requests[r].goal \in Invitable
  BY DEF IInv, Callers, Located, InviteMember
<1>2. CASE Finish(r)
  BY <1>2, FinishReadStays DEF InviteMember
<1>3. CASE ~Active(requests[r].target) /\ Goto(r, "invite_pending")
  BY <1>1, <1>3, GoneOnSound DEF InviteMember, Step, Located, Checked
<1> QED
  BY <1>2, <1>3 DEF InviteMember

LEMMA InvitePendingSound ==
    ASSUME IInv, Watch, NEW r \in Request, InvitePending(r) PROVE IInv'
<1>1. requests[r].target \in User /\ requests[r].goal \in Invitable
  BY DEF IInv, Callers, Located, InvitePending
<1>2. CASE Finish(r)
  BY <1>2, FinishReadStays DEF InvitePending
<1>3. CASE Goto(r, "invite_create")
  <2>1. r \notin overtaken => ~Active(requests[r].target)
    BY DEF IInv, Fresh, Checked, InvitePending
  <2> QED
    BY <1>1, <1>3, <2>1, GoneOnSound DEF InvitePending, Step, Located, Checked
<1> QED
  BY <1>2, <1>3 DEF InvitePending

LEMMA ResendReadSound ==
    ASSUME IInv, Watch, NEW r \in Request, ResendRead(r) PROVE IInv'
<1>1. requests[r].invite \in 1..invited
  BY DEF IInv, Callers, Located, ResendRead
<1>2. CASE Finish(r)
  BY <1>2, FinishReadStays DEF ResendRead
<1>3. CASE Goto(r, "resend_write")
  BY <1>1, <1>3, GoneOnSound DEF ResendRead, Step, Located, Checked
<1> QED
  BY <1>2, <1>3 DEF ResendRead

-----------------------------------------------------------------------------
(* Writes of invitations that open and accept none.                        *)

\* The rows stay those of the same addresses, and the accepted ones the same.
Closing ==
    /\ members' = members /\ invited' = invited /\ grants' = grants
    /\ invitations' \in [1..invited -> Invitation]
    /\ \A i \in 1..invited :
          /\ invitations'[i].email = invitations[i].email
          /\ invitations'[i].status = "accepted" <=> invitations[i].status = "accepted"
          /\ invitations'[i].status = "pending" => invitations[i].status = "pending"

LEMMA ClosingStays ==
    ASSUME IInv, Watch, Closing
    PROVE  Tables' /\ Safe' /\ Kept
<1>1. InvitationsAccountForMembers'
  <2>1. \A i \in InviteId :
            grants'[i] = IF i <= invited' /\ invitations'[i].status = "accepted" THEN 1 ELSE 0
    BY DEF IInv, Tables, InvitationsAccountForMembers, Closing
  <2>2. ASSUME NEW u \in User \ {Founder}
        PROVE  (members'[u].status # "none") <=>
               (\E i \in 1..invited' : /\ invitations'[i].email = u
                                       /\ invitations'[i].status = "accepted")
    <3>1. (members[u].status # "none") <=>
          (\E i \in 1..invited : /\ invitations[i].email = u
                                 /\ invitations[i].status = "accepted")
      BY DEF IInv, Tables, InvitationsAccountForMembers
    <3>2. \A i \in 1..invited :
             (invitations'[i].email = u /\ invitations'[i].status = "accepted")
             <=> (invitations[i].email = u /\ invitations[i].status = "accepted")
      BY DEF Closing
    <3> QED
      BY <3>1, <3>2 DEF Closing
  <2> QED
    BY <2>1, <2>2 DEF InvitationsAccountForMembers
<1>2. OnePending'
  BY DEF IInv, Tables, OnePending, Pending, Closing
<1>3. Tables'
  BY <1>1, <1>2 DEF IInv, Tables, Closing
<1>4. Safe'
  <2>1. raced => raced'
    BY DEF Watch
  <2>2. OwnerRemainsUnlessRaced'
    BY <2>1 DEF IInv, Safe, OwnerRemainsUnlessRaced, Owners, Active, Closing
  <2>3. NoInvitationForMembers'
    <3> SUFFICES ASSUME ~raced', NEW i \in 1..invited, Pending(i)'
                 PROVE  ~Active(invitations[i].email)'
      BY DEF NoInvitationForMembers, Closing
    <3>1. Pending(i) /\ invitations'[i].email = invitations[i].email
      BY DEF Closing, Pending
    <3> QED
      BY <2>1, <3>1 DEF IInv, Safe, NoInvitationForMembers, Active, Closing
  <2> QED
    BY <2>2, <2>3 DEF Safe
<1>5. Kept
  BY DEF Kept, IInv, Tables, Closing
<1> QED
  BY <1>3, <1>4, <1>5

LEMMA SettledCloses ==
    ASSUME IInv, invitations' = Settled, UNCHANGED <<members, invited, grants>>
    PROVE  Closing
<1>1. ASSUME NEW i \in 1..invited
      PROVE  /\ Settled[i] \in Invitation
             /\ Settled[i].email = invitations[i].email
             /\ Settled[i].status = "accepted" <=> invitations[i].status = "accepted"
             /\ Settled[i].status = "pending" => invitations[i].status = "pending"
  <2>1. invitations[i] \in Invitation
    BY DEF IInv, Tables
  <2> QED
    BY <2>1 DEF Settled, Pending, Invitation
<1>2. Settled \in [1..invited -> Invitation]
  BY <1>1 DEF Settled
<1> QED
  BY <1>1, <1>2 DEF Closing

\* A request on its way through writes of this kind.
LEMMA InviteExpireSound ==
    ASSUME IInv, Watch, NEW r \in Request, InviteExpire(r) PROVE IInv'
<1>1. requests[r].target \in User /\ requests[r].goal \in Invitable
  BY DEF IInv, Callers, Located, InviteExpire
<1>2. Closing
  BY SettledCloses DEF InviteExpire
<1>3. "invite_member" \in Step /\ Goto(r, "invite_member")
  BY DEF Step, InviteExpire
<1>4. PICK new : /\ requests' = [requests EXCEPT ![r] = new]
                 /\ new.pc = "invite_member" /\ new.target = requests[r].target
                 /\ new.goal = requests[r].goal /\ new.invite = requests[r].invite
  BY <1>3, GoneOn
<1>5. new \in RequestState
  <2>1. requests'[r] = new /\ requests'[r] = [requests[r] EXCEPT !.pc = "invite_member"]
    BY <1>3, <1>4 DEF IInv, Callers, Goto
  <2> QED
    BY <1>3, <2>1 DEF IInv, Callers, RequestState
<1>6. Located(new) /\ Checked(new)
  BY <1>1, <1>4 DEF Located, Checked
<1>7. Tables' /\ Safe' /\ Kept /\ members' = members
  BY <1>2, ClosingStays DEF Closing
<1>8. Callers' /\ Fresh'
  BY <1>4, <1>5, <1>6, <1>7, CallersStay, FreshStays
<1> QED
  BY <1>7, <1>8, WatchedStays DEF IInv

LEMMA FinishedClosing ==
    ASSUME IInv, Watch, Closing, NEW r \in Request, Finish(r)
    PROVE  IInv'
BY ClosingStays, FinishStays, WatchedStays DEF IInv

\* One row is written, with the same address, and neither opened nor accepted.
LEMMA RowCloses ==
    ASSUME IInv, NEW k \in 1..invited, NEW row \in Invitation,
           row.email = invitations[k].email,
           row.status = "accepted" <=> invitations[k].status = "accepted",
           row.status = "pending" => invitations[k].status = "pending",
           invitations' = [invitations EXCEPT ![k] = row],
           UNCHANGED <<members, invited, grants>>
    PROVE  Closing
<1>1. invitations \in [1..invited -> Invitation]
  BY DEF IInv, Tables
<1>2. invitations' \in [1..invited -> Invitation]
  BY <1>1
<1>3. invitations'[k] = row /\ \A i \in 1..invited : i # k => invitations'[i] = invitations[i]
  BY <1>1
<1> QED
  BY <1>2, <1>3 DEF Closing

LEMMA SameCloses ==
    ASSUME IInv, UNCHANGED <<members, invited, grants, invitations>>
    PROVE  Closing
BY DEF IInv, Tables, Closing

LEMMA ResendWriteSound ==
    ASSUME IInv, Watch, NEW r \in Request, ResendWrite(r) PROVE IInv'
<1> DEFINE k == requests[r].invite
           row == [invitations[k] EXCEPT !.resent = @ + 1, !.lapsed = FALSE]
<1>1. k \in 1..invited /\ invitations \in [1..invited -> Invitation]
  BY DEF IInv, Callers, Tables, Located, ResendWrite
<1>2. invitations[k] \in Invitation
  BY <1>1
<1>3. invitations[k].resent + 1 \in 0..MaxResend
  <2>1. invitations[k].resent \in 0..MaxResend
    BY <1>2 DEF Invitation
  <2>2. invitations[k].resent < MaxResend
    BY DEF ResendWrite
  <2> QED
    BY <2>1, <2>2
<1>4. /\ row \in Invitation /\ row.email = invitations[k].email
      /\ row.status = invitations[k].status
  BY <1>2, <1>3 DEF Invitation
<1>5. UNCHANGED <<members, invited, grants>> /\ Finish(r)
  BY DEF ResendWrite
<1>6. CASE Pending(k)
  <2>1. invitations' = [invitations EXCEPT ![k].resent = @ + 1, ![k].lapsed = FALSE]
    BY <1>6 DEF ResendWrite, Refreshed
  <2>2. invitations' = [invitations EXCEPT ![k] = row]
    BY <1>1, <1>2, <2>1 DEF Invitation
  <2> HIDE DEF k, row
  <2> QED
    BY <1>1, <1>4, <1>5, <2>2, RowCloses, FinishedClosing
<1>7. CASE ~Pending(k)
  <2>1. invitations' = invitations
    BY <1>7 DEF ResendWrite, Refreshed
  <2> QED
    BY <1>5, <2>1, SameCloses, FinishedClosing
<1> QED
  BY <1>6, <1>7

LEMMA RevokeWriteSound ==
    ASSUME IInv, Watch, NEW r \in Request, RevokeWrite(r) PROVE IInv'
<1> DEFINE k == requests[r].invite
           row == [invitations[k] EXCEPT !.status = "revoked"]
<1>1. k \in 1..invited /\ invitations[k] \in Invitation
  BY DEF IInv, Callers, Tables, Located, RevokeWrite
<1>2. row \in Invitation /\ row.email = invitations[k].email /\ row.status = "revoked"
  BY <1>1 DEF Invitation
<1>3. UNCHANGED <<members, invited, grants>> /\ Finish(r)
  BY DEF RevokeWrite
<1>4. CASE Pending(k)
  <2>1. invitations' = [invitations EXCEPT ![k] = row] /\ invitations[k].status = "pending"
    BY <1>4 DEF RevokeWrite, Revoked, Pending
  <2> HIDE DEF k, row
  <2> QED
    BY <1>1, <1>2, <1>3, <2>1, RowCloses, FinishedClosing
<1>5. CASE ~Pending(k)
  <2>1. invitations' = invitations
    BY <1>5 DEF RevokeWrite, Revoked
  <2> QED
    BY <1>3, <2>1, SameCloses, FinishedClosing
<1> QED
  BY <1>4, <1>5

-----------------------------------------------------------------------------
(* Steps of no request.                                                    *)

LEMMA UnattendedClosing ==
    ASSUME IInv, Watch, Closing, requests' = requests
    PROVE  IInv'
<1>1. Callers'
  <2>1. ASSUME NEW q \in Request PROVE Located(requests[q])'
    BY DEF IInv, Callers, Located, Closing
  <2> QED
    BY <2>1 DEF IInv, Callers
<1>2. Fresh'
  <2>1. ASSUME NEW q \in Request, q \notin overtaken' PROVE Checked(requests[q])'
    <3>1. CASE requests[q].pc = "idle"
      BY <3>1 DEF Checked
    <3>2. CASE requests[q].pc # "idle"
      <4>1. q \notin overtaken
        BY <2>1, <3>2 DEF Watch, InFlight, Closing
      <4> QED
        BY <4>1 DEF IInv, Fresh, Checked, Active, Owners, Closing
    <3> QED
      BY <3>1, <3>2
  <2> QED
    BY <2>1 DEF Fresh
<1> QED
  BY <1>1, <1>2, ClosingStays, WatchedStays DEF IInv

LEMMA ListInvitationsSound ==
    ASSUME IInv, Watch, ListInvitations PROVE IInv'
BY SettledCloses, UnattendedClosing DEF ListInvitations

LEMMA LapseSound ==
    ASSUME IInv, Watch, NEW k \in 1..invited, Lapse(k) PROVE IInv'
<1> DEFINE row == [invitations[k] EXCEPT !.lapsed = TRUE]
<1>1. invitations[k] \in Invitation
  BY DEF IInv, Tables
<1>2. /\ row \in Invitation /\ row.email = invitations[k].email
      /\ row.status = invitations[k].status
  BY <1>1 DEF Invitation
<1>3. /\ invitations' = [invitations EXCEPT ![k] = row]
      /\ UNCHANGED <<members, invited, requests, grants>>
  BY DEF Lapse
<1> HIDE DEF row
<1> QED
  BY <1>2, <1>3, RowCloses, UnattendedClosing

LEMMA CrashSound ==
    ASSUME IInv, Watch, NEW r \in Request, Crash(r) PROVE IInv'
BY FinishReadStays DEF Crash

-----------------------------------------------------------------------------
(* Writes of members.                                                      *)

\* One account that is already a member has its row written.
LEMMA MemberWriteSound ==
    ASSUME IInv, Watch, NEW r \in Request, Finish(r), NEW t \in User,
           NEW row \in Member, Active(t), row.status # "none",
           members' = [members EXCEPT ![t] = row],
           UNCHANGED <<invited, invitations, grants>>,
           r \notin overtaken =>
              (row.status = "active" /\ row.role = "owner") \/ Owners # {t}
    PROVE  IInv'
<1>1. /\ members' \in [User -> Member] /\ members'[t] = row
      /\ \A u \in User : u # t => members'[u] = members[u]
  BY DEF IInv, Tables
<1>2. \A u \in User : (members'[u].status # "none") <=> (members[u].status # "none")
  BY <1>1 DEF Active
<1>3. Tables'
  <2>1. InvitationsAccountForMembers'
    BY <1>2 DEF IInv, Tables, InvitationsAccountForMembers
  <2> QED
    BY <1>1, <2>1 DEF IInv, Tables, OnePending, Pending
<1>4. Kept
  BY DEF Kept, IInv, Tables
<1>5. Callers' /\ Fresh' /\ requests'[r] = Idle
  BY <1>4, FinishStays
<1>6. Safe'
  <2> SUFFICES ASSUME ~raced' PROVE Safe'
    BY DEF Safe, OwnerRemainsUnlessRaced, NoInvitationForMembers
  <2>1. ~raced
    BY DEF Watch
  <2>2. CASE members' = members
    BY <2>1, <2>2 DEF IInv, Safe, OwnerRemainsUnlessRaced, NoInvitationForMembers,
       Owners, Active, Pending
  <2>3. CASE members' # members
    <3>1. r \notin overtaken
      BY <1>5, <2>3, NotRaced
    <3>2. Owners' # {}
      <4>1. CASE row.status = "active" /\ row.role = "owner"
        BY <1>1, <4>1 DEF Owners, Active
      <4>2. CASE Owners # {t}
        <5>1. PICK u \in Owners : u # t
          BY <2>1, <4>2 DEF IInv, Safe, OwnerRemainsUnlessRaced
        <5> QED
          BY <1>1, <5>1 DEF Owners, Active
      <4> QED
        BY <3>1, <4>1, <4>2
    <3>3. \A i \in 1..invited : Pending(i)' => ~Active(invitations[i].email)'
      <4> SUFFICES ASSUME NEW i \in 1..invited, Pending(i)
                   PROVE  ~Active(invitations[i].email)'
        BY DEF Pending
      <4>1. invitations[i].email \in User /\ ~Active(invitations[i].email)
        BY <2>1 DEF IInv, Tables, Invitation, Safe, NoInvitationForMembers
      <4> QED
        BY <1>1, <4>1 DEF Active
    <3> QED
      BY <3>2, <3>3 DEF Safe, OwnerRemainsUnlessRaced, NoInvitationForMembers
  <2> QED
    BY <2>2, <2>3
<1> QED
  BY <1>3, <1>5, <1>6, WatchedStays DEF IInv

LEMMA RoleWriteSound ==
    ASSUME IInv, Watch, NEW r \in Request, RoleWrite(r) PROVE IInv'
<1> DEFINE t == requests[r].target
           row == [members[t] EXCEPT !.role = requests[r].goal]
<1>1. t \in User /\ requests[r].goal \in Role /\ members[t] \in Member
  BY DEF IInv, Callers, Tables, Located, RoleWrite
<1>2. /\ row \in Member /\ row.status = members[t].status
      /\ row.role = requests[r].goal
  BY <1>1 DEF Member
<1>3. CASE Active(t)
  <2>1. /\ members' = [members EXCEPT ![t] = row] /\ Finish(r)
        /\ UNCHANGED <<invited, invitations, grants>>
    BY <1>3 DEF RoleWrite
  <2>2. r \notin overtaken => requests[r].goal = "owner" \/ Owners # {t}
    BY DEF IInv, Fresh, Checked, RoleWrite
  <2> HIDE DEF t, row
  <2> QED
    BY <1>1, <1>2, <1>3, <2>1, <2>2, MemberWriteSound DEF Active
<1>4. CASE ~Active(t)
  BY <1>4, FinishReadStays DEF RoleWrite
<1> QED
  BY <1>3, <1>4

LEMMA DeleteWriteSound ==
    ASSUME IInv, Watch, NEW r \in Request, DeleteWrite(r) PROVE IInv'
<1> DEFINE t == requests[r].target
           row == [members[t] EXCEPT !.status = "removed"]
<1>1. t \in User /\ members[t] \in Member
  BY DEF IInv, Callers, Tables, Located, DeleteWrite
<1>2. row \in Member /\ row.status = "removed"
  BY <1>1 DEF Member
<1>3. CASE Active(t)
  <2>1. /\ members' = [members EXCEPT ![t] = row] /\ Finish(r)
        /\ UNCHANGED <<invited, invitations, grants>>
    BY <1>3 DEF DeleteWrite
  <2>2. r \notin overtaken => Owners # {t}
    BY DEF IInv, Fresh, Checked, DeleteWrite
  <2> HIDE DEF t, row
  <2> QED
    BY <1>1, <1>2, <1>3, <2>1, <2>2, MemberWriteSound
<1>4. CASE ~Active(t)
  BY <1>4, FinishReadStays DEF DeleteWrite
<1> QED
  BY <1>3, <1>4

-----------------------------------------------------------------------------
(* An invitation is opened.                                                *)

LEMMA InviteCreateSound ==
    ASSUME IInv, Watch, NEW r \in Request, InviteCreate(r) PROVE IInv'
<1> DEFINE t == requests[r].target
           k == invited + 1
           row == Created(t, requests[r].goal)
<1>1. t \in User /\ requests[r].goal \in Invitable
  BY DEF IInv, Callers, Located, InviteCreate
<1>2. CASE HasPending(t)
  BY <1>2, FinishReadStays DEF InviteCreate
<1>3. CASE ~HasPending(t)
  <2>1. row \in Invitation /\ row.email = t /\ row.status = "pending"
    BY <1>1 DEF Created, Invitation, Role, Invitable
  <2>2. /\ invited' = k
        /\ invitations' = [i \in 1..k |-> IF i = k THEN row ELSE invitations[i]]
        /\ Finish(r) /\ UNCHANGED <<members, grants>>
    BY <1>3 DEF InviteCreate
  <2> HIDE DEF row
  <2>3. /\ invited \in Nat /\ k \in 0..MaxInvite /\ k \in 1..k /\ 1..invited \subseteq 1..k
        /\ \A i \in 1..k : i # k => i \in 1..invited
        /\ k \notin 1..invited
    BY DEF IInv, Tables, InviteCreate
  <2> HIDE DEF k
  <2>4. /\ invitations' \in [1..k -> Invitation] /\ invitations'[k] = row
        /\ \A i \in 1..invited : invitations'[i] = invitations[i]
    BY <2>1, <2>2, <2>3 DEF IInv, Tables
  <2>5. Kept
    BY <2>2, <2>3, <2>4 DEF Kept, k
  <2>6. Callers' /\ Fresh' /\ requests'[r] = Idle
    BY <2>2, <2>5, FinishStays
  <2>7. InvitationsAccountForMembers'
    <3>1. ASSUME NEW i \in InviteId
          PROVE  grants'[i] = IF i <= invited' /\ invitations'[i].status = "accepted"
                              THEN 1 ELSE 0
      <4>1. grants[i] = IF i <= invited /\ invitations[i].status = "accepted" THEN 1 ELSE 0
        BY DEF IInv, Tables, InvitationsAccountForMembers
      <4>2. CASE i = k
        BY <2>1, <2>2, <2>3, <2>4, <4>1, <4>2
      <4>3. CASE i # k
        <5>1. i <= k <=> i <= invited
          BY <2>3, <4>3 DEF k
        <5>2. i <= invited => invitations'[i] = invitations[i]
          BY <2>4
        <5> QED
          BY <2>2, <4>1, <5>1, <5>2
      <4> QED
        BY <4>2, <4>3
    <3>2. ASSUME NEW u \in User \ {Founder}
          PROVE  (members'[u].status # "none") <=>
                 (\E i \in 1..invited' : /\ invitations'[i].email = u
                                         /\ invitations'[i].status = "accepted")
      <4>1. (members[u].status # "none") <=>
            (\E i \in 1..invited : /\ invitations[i].email = u
                                   /\ invitations[i].status = "accepted")
        BY DEF IInv, Tables, InvitationsAccountForMembers
      <4>2. invitations'[k].status # "accepted"
        BY <2>1, <2>4
      <4> QED
        BY <2>2, <2>3, <2>4, <4>1, <4>2
    <3> QED
      BY <3>1, <3>2 DEF InvitationsAccountForMembers
  <2>8. OnePending'
    <3>1. \A i \in 1..invited : Pending(i) => invitations[i].email # t
      BY <1>3 DEF HasPending
    <3> QED
      BY <2>1, <2>2, <2>3, <2>4, <3>1 DEF IInv, Tables, OnePending, Pending
  <2>9. Tables'
    BY <2>2, <2>3, <2>4, <2>7, <2>8 DEF IInv, Tables
  <2>10. Safe'
    <3> SUFFICES ASSUME ~raced' PROVE Safe'
      BY DEF Safe, OwnerRemainsUnlessRaced, NoInvitationForMembers
    <3>1. invitations' # invitations
      BY <2>3, <2>4 DEF IInv, Tables
    <3>2. ~raced /\ r \notin overtaken
      BY <2>6, <3>1, NotRaced
    <3>3. ~Active(t)
      BY <3>2 DEF IInv, Fresh, Checked, InviteCreate
    <3>4. \A i \in 1..invited : Pending(i) => ~Active(invitations[i].email)
      BY <3>2 DEF IInv, Safe, NoInvitationForMembers
    <3>5. NoInvitationForMembers'
      BY <2>1, <2>2, <2>3, <2>4, <3>3, <3>4 DEF NoInvitationForMembers, Pending, Active
    <3>6. OwnerRemainsUnlessRaced'
      BY <2>2, <3>2 DEF IInv, Safe, OwnerRemainsUnlessRaced, Owners, Active
    <3> QED
      BY <3>5, <3>6 DEF Safe
  <2> QED
    BY <2>6, <2>9, <2>10, WatchedStays DEF IInv
<1> QED
  BY <1>2, <1>3

-----------------------------------------------------------------------------
(* An invitation is accepted.                                              *)

LEMMA AcceptSound ==
    ASSUME IInv, Watch, NEW r \in Request, Accept(r) PROVE IInv'
<1> DEFINE u == requests[r].target
           k == requests[r].invite
           row == [invitations[k] EXCEPT !.status = "accepted"]
           m == [status |-> "active", role |-> invitations[k].role]
<1>1. /\ k \in 1..invited /\ u = invitations[k].email /\ k \in InviteId
      /\ invitations[k] \in Invitation
  BY DEF IInv, Callers, Tables, Located, Accept
<1>2. u \in User /\ invitations[k].role \in Role
  BY <1>1 DEF Invitation, Invitable, Role
<1>3. CASE ~Pending(k)
  BY <1>3, FinishReadStays DEF Accept
<1>4. CASE Pending(k)
  <2>1. row \in Invitation /\ row.email = u /\ row.status = "accepted"
    BY <1>1 DEF Invitation
  <2>2. m \in Member /\ m.status = "active"
    BY <1>2 DEF Member
  <2>3. /\ invitations' = [invitations EXCEPT ![k] = row]
        /\ members' = [members EXCEPT ![u] = m]
        /\ grants' = [grants EXCEPT ![k] = @ + 1]
        /\ invited' = invited /\ Finish(r)
    BY <1>4 DEF Accept, MarkAccepted, Granted
  <2>4. invitations[k].status = "pending"
    BY <1>4 DEF Pending
  <2> HIDE DEF row, m, u, k
  <2>5. /\ invitations' \in [1..invited -> Invitation] /\ invitations'[k] = row
        /\ \A i \in 1..invited : i # k => invitations'[i] = invitations[i]
    BY <1>1, <2>1, <2>3 DEF IInv, Tables
  <2>6. /\ members' \in [User -> Member] /\ members'[u] = m
        /\ \A v \in User : v # u => members'[v] = members[v]
    BY <1>2, <2>2, <2>3 DEF IInv, Tables
  <2>7. /\ grants' \in [InviteId -> Nat] /\ grants'[k] = grants[k] + 1
        /\ \A i \in InviteId : i # k => grants'[i] = grants[i]
    BY <1>1, <2>3 DEF IInv, Tables
  <2>8. Kept
    BY <1>1, <2>1, <2>3, <2>5 DEF Kept, IInv, Tables
  <2>9. Callers' /\ Fresh' /\ requests'[r] = Idle
    BY <2>3, <2>8, FinishStays
  <2>10. InvitationsAccountForMembers'
    <3>1. ASSUME NEW i \in InviteId
          PROVE  grants'[i] = IF i <= invited' /\ invitations'[i].status = "accepted"
                              THEN 1 ELSE 0
      <4>1. grants[i] = IF i <= invited /\ invitations[i].status = "accepted" THEN 1 ELSE 0
        BY DEF IInv, Tables, InvitationsAccountForMembers
      <4>2. CASE i = k
        BY <1>1, <2>1, <2>3, <2>4, <2>5, <2>7, <4>1, <4>2
      <4>3. CASE i # k
        BY <2>3, <2>5, <2>7, <4>1, <4>3
      <4> QED
        BY <4>2, <4>3
    <3>2. ASSUME NEW v \in User \ {Founder}
          PROVE  (members'[v].status # "none") <=>
                 (\E i \in 1..invited' : /\ invitations'[i].email = v
                                         /\ invitations'[i].status = "accepted")
      <4>1. (members[v].status # "none") <=>
            (\E i \in 1..invited : /\ invitations[i].email = v
                                   /\ invitations[i].status = "accepted")
        BY DEF IInv, Tables, InvitationsAccountForMembers
      <4>2. CASE v = u
        BY <1>1, <2>1, <2>2, <2>3, <2>5, <2>6, <4>2
      <4>3. CASE v # u
        <5>1. \A i \in 1..invited :
                 (invitations'[i].email = v /\ invitations'[i].status = "accepted")
                 <=> (invitations[i].email = v /\ invitations[i].status = "accepted")
          BY <1>1, <2>1, <2>5, <4>3
        <5> QED
          BY <2>3, <2>6, <4>1, <4>3, <5>1
      <4> QED
        BY <4>2, <4>3
    <3> QED
      BY <3>1, <3>2 DEF InvitationsAccountForMembers
  <2>11. OnePending'
    BY <2>1, <2>3, <2>5 DEF IInv, Tables, OnePending, Pending
  <2>12. Tables'
    BY <2>3, <2>5, <2>6, <2>7, <2>10, <2>11 DEF IInv, Tables
  <2>13. Safe'
    <3> SUFFICES ASSUME ~raced' PROVE Safe'
      BY DEF Safe, OwnerRemainsUnlessRaced, NoInvitationForMembers
    <3>1. invitations' # invitations
      BY <2>1, <2>4, <2>5
    <3>2. ~raced
      BY <2>9, <3>1, NotRaced
    <3>3. \A i \in 1..invited : Pending(i) => ~Active(invitations[i].email)
      BY <3>2 DEF IInv, Safe, NoInvitationForMembers
    <3>4. ~Active(u)
      BY <1>1, <1>4, <3>3
    <3>5. NoInvitationForMembers'
      <4> SUFFICES ASSUME NEW i \in 1..invited, Pending(i)'
                   PROVE  ~Active(invitations[i].email)'
        BY <2>3 DEF NoInvitationForMembers
      <4>1. i # k
        BY <2>1, <2>5 DEF Pending
      <4>2. Pending(i) /\ invitations'[i] = invitations[i]
        BY <2>5, <4>1 DEF Pending
      <4>3. invitations[i].email # u
        BY <1>1, <1>4, <4>1, <4>2 DEF IInv, Tables, OnePending
      <4>4. invitations[i].email \in User
        BY DEF IInv, Tables, Invitation
      <4> QED
        BY <2>6, <3>3, <4>2, <4>3, <4>4 DEF Active
    <3>6. PICK o \in Owners : o # u
      BY <3>2, <3>4 DEF IInv, Safe, OwnerRemainsUnlessRaced, Owners
    <3>7. OwnerRemainsUnlessRaced'
      BY <2>6, <3>6 DEF OwnerRemainsUnlessRaced, Owners, Active
    <3> QED
      BY <3>5, <3>7 DEF Safe
  <2> QED
    BY <2>9, <2>12, <2>13, WatchedStays DEF IInv
<1> QED
  BY <1>3, <1>4

-----------------------------------------------------------------------------
LEMMA NextSound == IInv /\ [Next]_vars => IInv'
<1> SUFFICES ASSUME IInv, [Next]_vars PROVE IInv'
  OBVIOUS
<1>1. CASE UNCHANGED vars
  BY <1>1 DEF vars, history, IInv, Tables, Callers, Fresh, Watched, Safe, Located, Checked,
     OnePending, InvitationsAccountForMembers, OwnerRemainsUnlessRaced,
     NoInvitationForMembers, Owners, Active, Pending
<1>2. ASSUME Watch, NEW r \in Request, Continue(r) PROVE IInv'
  BY <1>2, TargetReadSound, CountOwnersSound, RoleWriteSound, DeleteWriteSound,
     InviteExpireSound, InviteMemberSound, InvitePendingSound, InviteCreateSound,
     ResendReadSound, ResendWriteSound, RevokeWriteSound, AcceptSound DEF Continue
<1>3. CASE Next
  BY <1>2, <1>3, BeginSound, CrashSound, ListInvitationsSound, LapseSound DEF Next
<1> QED
  BY <1>1, <1>3

LEMMA Inductive == Spec => []IInv
BY InitSound, NextSound, PTL DEF Spec

LEMMA ServedCounted == Spec => []Counted
<1>1. Init => Counted
  BY DEF Init, Counted
<1>2. Counted /\ [Next]_vars => Counted'
  BY DEF Next, vars, Counted
<1> QED
  BY <1>1, <1>2, PTL DEF Spec

\* The tables and the records of the requests in flight keep their types, for any
\* number of people, requests, invitations and resends.
THEOREM TypeCorrect == Spec => []TypeOK
BY Inductive, ServedCounted, Typed, PTL

\* markAccepted and grantMembership are one transaction, and markAccepted asks that
\* the row is pending: an accepted invitation has granted one membership, whoever
\* else accepts, resends, revokes or dies, and there is no other way to be a member.
THEOREM InvitationsAccountForMembersHolds == Spec => []InvitationsAccountForMembers
<1>1. IInv => InvitationsAccountForMembers
  BY DEF IInv, Tables
<1> QED
  BY <1>1, Inductive, PTL

\* The rank check, the count of owners and the refusal to invite a member keep an
\* owner in the organization as long as no request writes on reads that the members
\* have since changed under.
THEOREM OwnerRemainsHolds == Spec => []OwnerRemainsUnlessRaced
<1>1. IInv => OwnerRemainsUnlessRaced
  BY DEF IInv, Safe
<1> QED
  BY <1>1, Inductive, PTL

\* And as long as none does, an invitation is open for nobody who is a member.
THEOREM NoInvitationForMembersHolds == Spec => []NoInvitationForMembers
<1>1. IInv => NoInvitationForMembers
  BY DEF IInv, Safe
<1> QED
  BY <1>1, Inductive, PTL
=============================================================================
