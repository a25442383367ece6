----------------------------- MODULE Membership -----------------------------
(***************************************************************************)
(* Members and invitations of one organization:                            *)
(* modules/organizations/organizations.service.ts and invitations.service.ts *)
(* over organization-members.repository.ts and                             *)
(* organization-invitations.repository.ts, behind the                      *)
(* active-organization and roles guards.                                   *)
(*                                                                         *)
(* A request is a process: the guard's read of the caller's membership,    *)
(* then one action per statement or transaction.  The role a handler       *)
(* compares ranks with is the one the guard read.                          *)
(*                                                                         *)
(* Data abstraction.  Everyone has an account, named like the address an   *)
(* invitation is sent to.  member stands for the four roles below admin,   *)
(* which no check here tells apart.  The n-th token of an invitation is    *)
(* the number of resends before it.  The audit entry of an acceptance is   *)
(* taken to be accepted by the database, which is so for a connection that *)
(* row level security does not bind.                                       *)
(***************************************************************************)
EXTENDS Naturals

CONSTANTS
    User,       \* people, each with an account and an address
    Founder,    \* who created the organization
    Nobody,     \* the user fields of an idle request
    Request,    \* HTTP requests the servers handle at once
    MaxInvite,  \* bound: invitations ever created
    MaxResend,  \* bound: resends of one invitation
    MaxServed   \* bound: requests ever begun

ASSUME MembershipAssumption ==
    /\ Founder \in User
    /\ Nobody \notin User
    /\ MaxInvite \in Nat
    /\ MaxResend \in Nat
    /\ MaxServed \in Nat

VARIABLES
    members,      \* the organization_members table
    invited,      \* number of invitations created so far
    invitations,  \* the organization_invitations table
    requests,     \* what each in-flight request is about to do
    served,       \* number of requests begun so far
    grants,       \* history: memberships each invitation has granted
    overtaken,    \* history: requests since whose reads the members have changed
    raced         \* history: an overtaken request has gone on to write

history == <<overtaken, raced>>
vars == <<members, invited, invitations, requests, served, grants, history>>

Role == {"owner", "admin", "member"}
Invitable == {"admin", "member"}
Rank == [owner |-> 0, admin |-> 1, member |-> 2]

InviteId == 1..MaxInvite

Member == [status: {"none", "active", "removed"}, role: Role]

Invitation == [email: User, role: Invitable, resent: 0..MaxResend,
               status: {"pending", "accepted", "revoked", "expired"},
               lapsed: BOOLEAN]   \* expiresAt has passed

Step == {"idle", "target_read", "count_owners", "role_write", "delete_write",
         "invite_expire", "invite_member", "invite_pending", "invite_create",
         "resend_read", "resend_write", "revoke", "accept"}

Goal == Role \cup {"remove", "none"}

RequestState == [pc: Step, role: Role \cup {"none"},  \* the caller's, as read
                 target: User \cup {Nobody}, goal: Goal,
                 invite: 0..MaxInvite, token: 0..MaxResend]

Idle == [pc |-> "idle", role |-> "none", target |-> Nobody, goal |-> "none",
         invite |-> 0, token |-> 0]

TypeOK ==
    /\ members \in [User -> Member]
    /\ invited \in 0..MaxInvite
    /\ invitations \in [1..invited -> Invitation]
    /\ requests \in [Request -> RequestState]
    /\ served \in 0..MaxServed
    /\ grants \in [InviteId -> Nat]
    /\ overtaken \subseteq Request
    /\ raced \in BOOLEAN

\* createWithOwner: the organization and its first owner are one transaction.
Init ==
    /\ members = [u \in User |->
          IF u = Founder THEN [status |-> "active", role |-> "owner"]
          ELSE [status |-> "none", role |-> "member"]]
    /\ invited = 0
    /\ invitations = [i \in 1..0 |-> Idle]
    /\ requests = [r \in Request |-> Idle]
    /\ served = 0
    /\ grants = [i \in InviteId |-> 0]
    /\ overtaken = {}
    /\ raced = FALSE

-----------------------------------------------------------------------------
Active(u) == members[u].status = "active"
Owners == {u \in User : Active(u) /\ members[u].role = "owner"}
Pending(i) == invitations[i].status = "pending"

Finish(r) == requests' = [requests EXCEPT ![r] = Idle]
Goto(r, next) == requests' = [requests EXCEPT ![r].pc = next]

\* The guards: an active membership, with one of the two roles of these routes.
Admitted(r, u) ==
    /\ requests[r].pc = "idle"
    /\ Active(u)
    /\ members[u].role \in {"owner", "admin"}

-----------------------------------------------------------------------------
(* changeMemberRole and removeMember: refuse oneself, read the target and   *)
(* refuse a more powerful one; losing an owner asks for another one first. *)

ChangeMemberRole(r, u, t, role) ==
    /\ Admitted(r, u)
    /\ t # u
    /\ Rank[role] >= Rank[members[u].role]
    /\ requests' = [requests EXCEPT ![r] =
            [Idle EXCEPT !.pc = "target_read", !.role = members[u].role,
                         !.target = t, !.goal = role]]
    /\ UNCHANGED <<members, invited, invitations, grants>>

RemoveMember(r, u, t) ==
    /\ Admitted(r, u)
    /\ t # u
    /\ requests' = [requests EXCEPT ![r] =
            [Idle EXCEPT !.pc = "target_read", !.role = members[u].role,
                         !.target = t, !.goal = "remove"]]
    /\ UNCHANGED <<members, invited, invitations, grants>>

\* Mutant: a removal goes through the write of a role.
WriteRole(goal) == "role_write"

Write(goal) == IF goal = "remove" THEN "delete_write" ELSE "role_write"

TargetRead(r) ==
    LET t == requests[r].target
        goal == requests[r].goal
    IN
    /\ requests[r].pc = "target_read"
    /\ IF Active(t) /\ Rank[members[t].role] >= Rank[requests[r].role]
       THEN Goto(r, IF members[t].role = "owner" /\ goal # "owner"
                    THEN "count_owners" ELSE Write(goal))
       ELSE Finish(r)
    /\ UNCHANGED <<members, invited, invitations, grants>>

CountOwners(r) ==
    /\ requests[r].pc = "count_owners"
    /\ IF Owners \ {requests[r].target} # {}
       THEN Goto(r, Write(requests[r].goal)) ELSE Finish(r)
    /\ UNCHANGED <<members, invited, invitations, grants>>

\* Both writes name the member and ask only that it has not been removed.
RoleWrite(r) ==
    LET t == requests[r].target IN
    /\ requests[r].pc = "role_write"
    /\ members' = IF Active(t) THEN [members EXCEPT ![t].role = requests[r].goal]
                  ELSE members
    /\ Finish(r)
    /\ UNCHANGED <<invited, invitations, grants>>

DeleteWrite(r) ==
    LET t == requests[r].target IN
    /\ requests[r].pc = "delete_write"
    /\ members' = IF Active(t) THEN [members EXCEPT ![t].status = "removed"]
                  ELSE members
    /\ Finish(r)
    /\ UNCHANGED <<invited, invitations, grants>>

-----------------------------------------------------------------------------
(* invite: settle the lapsed ones, refuse an address that is already a     *)
(* member's or has a pending invitation, insert.                           *)

Invite(r, u, t, role) ==
    /\ Admitted(r, u)
    /\ Rank[role] >= Rank[members[u].role]
    /\ requests' = [requests EXCEPT ![r] =
            [Idle EXCEPT !.pc = "invite_expire", !.target = t, !.goal = role]]
    /\ UNCHANGED <<members, invited, invitations, grants>>

\* expireOverdue.
Settled == [i \in 1..invited |->
    IF Pending(i) /\ invitations[i].lapsed
    THEN [invitations[i] EXCEPT !.status = "expired"] ELSE invitations[i]]

InviteExpire(r) ==
    /\ requests[r].pc = "invite_expire"
    /\ invitations' = Settled
    /\ Goto(r, "invite_member")
    /\ UNCHANGED <<members, invited, grants>>

\* Mutant: an address that is a member's is not refused.
InviteAnybody(r) ==
    /\ requests[r].pc = "invite_member"
    /\ Goto(r, "invite_pending")
    /\ UNCHANGED <<members, invited, invitations, grants>>

InviteMember(r) ==
    /\ requests[r].pc = "invite_member"
    /\ IF Active(requests[r].target) THEN Finish(r) ELSE Goto(r, "invite_pending")
    /\ UNCHANGED <<members, invited, invitations, grants>>

HasPending(t) == \E i \in 1..invited : Pending(i) /\ invitations[i].email = t

InvitePending(r) ==
    /\ requests[r].pc = "invite_pending"
    /\ IF HasPending(requests[r].target) THEN Finish(r) ELSE Goto(r, "invite_create")
    /\ UNCHANGED <<members, invited, invitations, grants>>

Created(email, role) ==
    [email |-> email, role |-> role, resent |-> 0, status |-> "pending", lapsed |-> FALSE]

\* A partial unique index refuses a second pending invitation of an address.
InviteCreate(r) ==
    /\ requests[r].pc = "invite_create"
    /\ invited < MaxInvite
    /\ IF HasPending(requests[r].target)
       THEN UNCHANGED <<invited, invitations>>
       ELSE /\ invited' = invited + 1
            /\ invitations' = [i \in 1..(invited + 1) |->
                  IF i = invited + 1 THEN Created(requests[r].target, requests[r].goal)
                  ELSE invitations[i]]
    /\ Finish(r)
    /\ UNCHANGED <<members, grants>>

\* The invitations screen settles the lapsed ones too; what it returns is left out.
ListInvitations ==
    /\ \E u \in User : Active(u) /\ members[u].role \in {"owner", "admin"}
    /\ invitations' = Settled
    /\ UNCHANGED <<members, invited, requests, grants>>

-----------------------------------------------------------------------------
(* resend and revoke: read the row, then write it if it is still pending.  *)

Resend(r, u, i) ==
    /\ Admitted(r, u)
    /\ requests' = [requests EXCEPT ![r] =
            [Idle EXCEPT !.pc = "resend_read", !.invite = i]]
    /\ UNCHANGED <<members, invited, invitations, grants>>

ResendRead(r) ==
    /\ requests[r].pc = "resend_read"
    /\ IF Pending(requests[r].invite) THEN Goto(r, "resend_write") ELSE Finish(r)
    /\ UNCHANGED <<members, invited, invitations, grants>>

\* refreshToken: a new token and a new expiry, whether or not it had lapsed.
Refreshed(i) ==
    IF Pending(i) THEN [invitations EXCEPT ![i].resent = @ + 1, ![i].lapsed = FALSE]
    ELSE invitations

ResendWrite(r) ==
    /\ requests[r].pc = "resend_write"
    /\ invitations[requests[r].invite].resent < MaxResend
    /\ invitations' = Refreshed(requests[r].invite)
    /\ Finish(r)
    /\ UNCHANGED <<members, invited, grants>>

RevokeInvitation(r, u, i) ==
    /\ Admitted(r, u)
    /\ requests' = [requests EXCEPT ![r] =
            [Idle EXCEPT !.pc = "revoke", !.invite = i]]
    /\ UNCHANGED <<members, invited, invitations, grants>>

Revoked(i) ==
    IF Pending(i) THEN [invitations EXCEPT ![i].status = "revoked"] ELSE invitations

RevokeWrite(r) ==
    /\ requests[r].pc = "revoke"
    /\ invitations' = Revoked(requests[r].invite)
    /\ Finish(r)
    /\ UNCHANGED <<members, invited, grants>>

-----------------------------------------------------------------------------
(* accept, called by its own route and by register: the row is found by    *)
(* the token; then one transaction consumes the invitation and grants the  *)
(* membership.                                                             *)

FindAcceptable(r, u, i) ==
    /\ requests[r].pc = "idle"
    /\ Pending(i) /\ ~invitations[i].lapsed
    /\ invitations[i].email = u
    /\ requests' = [requests EXCEPT ![r] =
            [Idle EXCEPT !.pc = "accept", !.target = u, !.invite = i,
                         !.token = invitations[i].resent]]
    /\ UNCHANGED <<members, invited, invitations, grants>>

\* A first membership is created, a removed one reactivated, an active one
\* overwritten: the same row in all three cases, with the role of the invitation.
Granted(u, i) == [members EXCEPT ![u] = [status |-> "active", role |-> invitations[i].role]]

MarkAccepted(i) == [invitations EXCEPT ![i].status = "accepted"]

\* Mutant: markAccepted names the invitation and not that it is pending.
AcceptTwice(r) ==
    LET u == requests[r].target
        i == requests[r].invite
    IN
    /\ requests[r].pc = "accept"
    /\ grants[i] < 2
    /\ invitations' = MarkAccepted(i)
    /\ members' = Granted(u, i)
    /\ grants' = [grants EXCEPT ![i] = @ + 1]
    /\ Finish(r)
    /\ UNCHANGED invited

\* markAccepted asks that the row is pending, not that it has the same token.
Accept(r) ==
    LET u == requests[r].target
        i == requests[r].invite
    IN
    /\ requests[r].pc = "accept"
    /\ IF Pending(i)
       THEN /\ invitations' = MarkAccepted(i)
            /\ members' = Granted(u, i)
            /\ grants' = [grants EXCEPT ![i] = @ + 1]
       ELSE UNCHANGED <<invitations, members, grants>>
    /\ Finish(r)
    /\ UNCHANGED invited

-----------------------------------------------------------------------------
\* expiresAt passes.
Lapse(i) ==
    /\ Pending(i)
    /\ invitations' = [invitations EXCEPT ![i].lapsed = TRUE]
    /\ UNCHANGED <<members, invited, requests, grants>>

\* The server dies, or a statement fails, between two awaits.
Crash(r) ==
    /\ requests[r].pc # "idle"
    /\ Finish(r)
    /\ UNCHANGED <<members, invited, invitations, grants>>

Begin(r) ==
    \E u \in User :
        \/ \E t \in User :
              \/ RemoveMember(r, u, t)
              \/ \E role \in Role : ChangeMemberRole(r, u, t, role)
              \/ \E role \in Invitable : Invite(r, u, t, role)
        \/ \E i \in 1..invited :
              Resend(r, u, i) \/ RevokeInvitation(r, u, i) \/ FindAcceptable(r, u, i)

Continue(r) ==
    \/ TargetRead(r) \/ CountOwners(r) \/ RoleWrite(r) \/ DeleteWrite(r)
    \/ InviteExpire(r) \/ InviteMember(r) \/ InvitePending(r) \/ InviteCreate(r)
    \/ ResendRead(r) \/ ResendWrite(r) \/ RevokeWrite(r) \/ Accept(r)

InFlight == {r \in Request : requests[r].pc # "idle"}

\* What the history remembers of a step: a change of the members overtakes the
\* requests in flight, and whatever changes the tables after that has raced.
Watch ==
    /\ overtaken' = InFlight' \cap (IF members' # members THEN InFlight ELSE overtaken)
    /\ raced' = (raced \/ \E r \in overtaken :
                    requests'[r] = Idle /\ <<members, invitations>>' # <<members, invitations>>)

Next ==
    /\ \/ served < MaxServed /\ served' = served + 1 /\ \E r \in Request : Begin(r)
       \/ /\ UNCHANGED served
          /\ \/ \E r \in Request : Continue(r) \/ Crash(r)
             \/ ListInvitations
             \/ \E i \in 1..invited : Lapse(i)
    /\ Watch

Spec == Init /\ [][Next]_vars

-----------------------------------------------------------------------------
(* Properties *)

\* Consuming an invitation and granting the membership are one fact: an accepted
\* invitation granted exactly one membership and any other none, and whoever was
\* ever a member is the founder or holds an accepted invitation sent to their own
\* address, however many acceptances, resends and revocations race or are cut
\* short.
InvitationsAccountForMembers ==
    /\ \A i \in InviteId :
          grants[i] = IF i <= invited /\ invitations[i].status = "accepted" THEN 1 ELSE 0
    /\ \A u \in User \ {Founder} :
          (members[u].status # "none") <=>
          (\E i \in 1..invited : /\ invitations[i].email = u
                                 /\ invitations[i].status = "accepted")

\* permissions-matrix.md: "The last owner cannot be removed or demoted".  The
\* organization loses its last owner only if a request wrote after the members had
\* changed under its checks.  It takes all of them together: the ranks, the count
\* of owners, and the refusal to invite a member.
OwnerRemainsUnlessRaced == raced \/ Owners # {}

\* Nor is an invitation otherwise open for somebody who is a member: accepting it
\* would replace the role the member has.
NoInvitationForMembers ==
    raced \/ \A i \in 1..invited : Pending(i) => ~Active(invitations[i].email)
=============================================================================
