------------------------------- MODULE Access -------------------------------
(***************************************************************************)
(* Who may do what in which project: the guards every request passes       *)
(* (modules/auth/guards), the role a project grants                        *)
(* (projects/project-access.service.ts), the projects and their members    *)
(* (projects.service.ts, project-members.service.ts) and the role list of  *)
(* every route of the controllers.                                         *)
(*                                                                         *)
(* A request is a process: one action per statement it waits for.  Its     *)
(* organization role is the one the guard read, its role in a project the  *)
(* one it read when it first needed it.                                    *)
(*                                                                         *)
(* Data abstraction.  A request is authenticated (Sessions), and its       *)
(* organization is the one here.  A route is the roles it lists, whether   *)
(* it is project scoped, and what its handler does; edits counts what the  *)
(* other modules detail, the writes of a project's name and of the rows in *)
(* it.  A removed member is one without a role.                            *)
(***************************************************************************)
EXTENDS Naturals, FiniteSets

CONSTANTS
    User,        \* people, members of the organization or not
    Project,     \* projects, each with the key it is created under
    Request,     \* HTTP requests handled at once
    Nobody,      \* no user, and no role
    InUse,       \* bound: the roles members and grants take
    MaxServed    \* bound: requests and changes of the members

Role == {"organization_owner", "organization_admin", "project_manager",
         "qa_lead", "tester", "viewer"}

ROLE_RANK == [organization_owner |-> 0, organization_admin |-> 1,
              project_manager |-> 2, qa_lead |-> 3, tester |-> 4, viewer |-> 5]

Outranks(a, b) == ROLE_RANK[a] < ROLE_RANK[b]

ASSUME AccessAssumption ==
    /\ Nobody \notin User \cup Role
    /\ InUse \subseteq Role
    /\ MaxServed \in Nat

VARIABLES
    members,    \* the organization_members table: the role of each user
    projects,   \* the status of each project
    grants,     \* the project_members table: the role a project grants a user
    edits,      \* how often the name of a project or a row in it was written
    requests,   \* what each in-flight request is about to do
    served,     \* requests and changes of the members so far
    overtaken   \* history: requests since whose reads one of the tables changed

tables == <<members, projects, grants>>
vars == <<tables, edits, requests, served, overtaken>>

-----------------------------------------------------------------------------
(* The routes: @Roles, @ProjectScoped and the service method called.       *)

Admins    == {"organization_owner", "organization_admin"}
Managers  == Admins \cup {"project_manager"}
Authors   == Managers \cup {"qa_lead"}
Reporters == Authors \cup {"tester"}

Route(needs, scoped, does) == [needs |-> needs, scoped |-> scoped, does |-> does]
Scoped(needs, does) == Route(needs, TRUE, does)

\* No @Roles: open to every member.
Reading == Route({}, FALSE, "read")

ProjectRoutes ==
    {Reading, Route(Admins, FALSE, "create")}
    \cup {Scoped(Managers, does) : does \in {"update", "archive", "restore"}}

ProjectMemberRoutes == {Reading} \cup {Scoped(Managers, does) : does \in {"grant", "revoke"}}

RequirementRoutes == {Reading, Scoped(Authors, "write"), Scoped(Managers, "write")}

TestDesignRoutes ==
    {Reading, Scoped(Authors, "write"), Scoped(Managers, "write"), Scoped(Authors, "duplicate")}

TestRunRoutes ==
    {Reading, Scoped(Authors, "write"), Scoped(Managers, "write"), Scoped(Reporters, "record")}

DefectRoutes ==
    {Reading, Scoped(Reporters, "report"), Scoped(Reporters, "write"), Scoped(Managers, "write")}

TraceabilityRoutes == {Reading, Scoped(Reporters, "link")}

\* The audit trail; the dashboard is open.
DashboardRoutes == {Reading, Route(Admins, FALSE, "read")}

Routes == ProjectRoutes \cup ProjectMemberRoutes \cup RequirementRoutes
          \cup TestDesignRoutes \cup TestRunRoutes \cup DefectRoutes
          \cup TraceabilityRoutes \cup DashboardRoutes

-----------------------------------------------------------------------------
Status == {"none", "active", "archived"}

Step == {"idle", "grants", "handle", "insert", "project", "access", "target",
         "grant_row", "write"}

RequestState ==
    [pc: Step, user: User \cup {Nobody}, role: Role \cup {Nobody}, route: Routes,
     ends: SUBSET Project,                \* the projects it is about
     also: SUBSET Project,                \* those a raised defect's links reach too
     unchecked: SUBSET Project,           \* those its role is still to be read in
     status: Status,                      \* of the project, as read
     acting: Role \cup {Nobody},          \* its role in the project, as read
     target: User \cup {Nobody}, standing: Role \cup {Nobody},  \* and the target's
     goal: Role \cup {Nobody},            \* the role granted or revoked
     mine: BOOLEAN]                       \* the result is not somebody else's case

Idle == [pc |-> "idle", user |-> Nobody, role |-> Nobody, route |-> Reading,
         ends |-> {}, also |-> {}, unchecked |-> {}, status |-> "none", acting |-> Nobody,
         target |-> Nobody, standing |-> Nobody, goal |-> Nobody, mine |-> TRUE]

TypeOK ==
    /\ members \in [User -> InUse \cup {Nobody}]
    /\ projects \in [Project -> Status]
    /\ grants \in [Project -> [User -> InUse \cup {Nobody}]]
    /\ \A p \in Project : projects[p] = "none" =>
          edits[p] = 0 /\ \A u \in User : grants[p][u] = Nobody
    /\ edits \in [Project -> Nat]
    /\ requests \in [Request -> RequestState]
    /\ served \in 0..MaxServed
    /\ overtaken \subseteq Request

\* An organization that others have joined, with an owner, a project and, so that
\* the bound on requests is not spent on it, perhaps a grant an owner has made.
Init ==
    /\ members \in [User -> InUse \cup {Nobody}]
    /\ \E u \in User : members[u] = "organization_owner"
    /\ projects \in [Project -> {"none", "active"}]
    /\ \E p \in Project : projects[p] = "active"
    /\ \E granted \in {p \in Project : projects[p] = "active"}, to \in User,
          role \in InUse \cup {Nobody} :
          grants = [p \in Project |-> [u \in User |->
                       IF p = granted /\ u = to THEN role ELSE Nobody]]
    /\ edits = [p \in Project |-> 0]
    /\ requests = [r \in Request |-> Idle]
    /\ served = 0
    /\ overtaken = {}

-----------------------------------------------------------------------------
Goto(r, next) == requests' = [requests EXCEPT ![r].pc = next]
Finish(r) == requests' = [requests EXCEPT ![r] = Idle]

\* The one project of a request that is not about a link.
End(r) == CHOOSE p \in requests[r].ends : TRUE

\* ActiveOrganizationGuard, then RolesGuard, which lets the organization role
\* through or, on a project scoped route, goes on to look for a grant.
Arrive(r, u, route, ends, also, target, goal, mine) ==
    /\ requests[r].pc = "idle"
    /\ served < MaxServed
    /\ members[u] # Nobody
    /\ LET listed == route.needs = {} \/ members[u] \in route.needs IN
       /\ listed \/ route.scoped
       /\ requests' = [requests EXCEPT ![r] =
              [pc |-> IF listed THEN "handle" ELSE "grants", user |-> u,
               role |-> members[u], route |-> route, ends |-> ends,
               also |-> also, unchecked |-> ends, status |-> "none", acting |-> Nobody,
               target |-> target, standing |-> Nobody, goal |-> goal, mine |-> mine]]
    /\ served' = served + 1
    /\ UNCHANGED <<tables, edits>>

\* mayHoldGrantFor: a grant in any project at all.
MayHoldGrantFor(r) ==
    LET q == requests[r] IN
    /\ q.pc = "grants"
    /\ IF \E p \in Project : grants[p][q.user] \in q.route.needs
       THEN Goto(r, "handle") ELSE Finish(r)
    /\ UNCHANGED <<tables, edits, served>>

Handles(r, kinds) == requests[r].pc = "handle" /\ requests[r].route.does \in kinds

Read(r) ==
    /\ Handles(r, {"read"})
    /\ Finish(r)
    /\ UNCHANGED <<tables, edits, served>>

\* findByKey, which finds the archived ones too.
CreateRead(r) ==
    /\ Handles(r, {"create"})
    /\ IF projects[End(r)] = "none" THEN Goto(r, "insert") ELSE Finish(r)
    /\ UNCHANGED <<tables, edits, served>>

\* The unique index on the key refuses what findByKey did not see.
Insert(r) ==
    /\ requests[r].pc = "insert"
    /\ projects' = IF projects[End(r)] = "none"
                   THEN [projects EXCEPT ![End(r)] = "active"] ELSE projects
    /\ Finish(r)
    /\ UNCHANGED <<members, grants, edits, served>>

\* Mutant: a project that is not there is not refused.
RequireAnyProject(r) ==
    /\ Handles(r, {"update", "archive", "restore", "grant", "revoke"})
    /\ requests' = [requests EXCEPT ![r].pc = "access",
                                    ![r].status = projects[End(r)]]
    /\ UNCHANGED <<tables, edits, served>>

\* The project; its status is remembered.
RequireProject(r) ==
    /\ Handles(r, {"update", "archive", "restore", "grant", "revoke"})
    /\ IF projects[End(r)] = "none"
       THEN Finish(r)
       ELSE requests' = [requests EXCEPT ![r].pc = "access",
                                         ![r].status = projects[End(r)]]
    /\ UNCHANGED <<tables, edits, served>>

\* The row a request names, and its project with it; a project may be archived.
RequireRow(r) ==
    /\ Handles(r, {"write", "link", "record", "report"})
    /\ IF \E p \in requests[r].ends : projects[p] = "none"
       THEN Finish(r) ELSE Goto(r, "access")
    /\ UNCHANGED <<tables, edits, served>>

\* duplicateCase reads the case and its steps, and goes on to write.
DuplicateRead(r) ==
    /\ Handles(r, {"duplicate"})
    /\ IF projects[End(r)] = "none" THEN Finish(r) ELSE Goto(r, "write")
    /\ UNCHANGED <<tables, edits, served>>

-----------------------------------------------------------------------------
(* assertRouteAccess: the route's roles again, for the role in the project. *)

\* Mutant: a grant can only raise.
EffectiveRaised(q, p) ==
    LET role == grants[p][q.user] IN
    IF q.role = "organization_owner" \/ role = Nobody \/ Outranks(q.role, role)
    THEN q.role ELSE role

EffectiveRole(q, p) ==
    IF q.role = "organization_owner" \/ grants[p][q.user] = Nobody
    THEN q.role ELSE grants[p][q.user]

\* What a handler asks once its role allows the route: of the status it read, and
\* of a result whose case is somebody else's, of the role in the organization.
Refuses(q) ==
    \/ q.route.does \in {"update", "archive"} /\ q.status = "archived"
    \/ q.route.does = "restore" /\ q.status # "archived"
    \/ q.route.does = "record" /\ q.role = "tester" /\ ~q.mine

After(q) == IF q.route.does \in {"grant", "revoke"} THEN "target" ELSE "write"

AssertRouteAccess(r, p) ==
    LET q    == requests[r]
        role == EffectiveRole(q, p)
        left == q.unchecked \ {p}
    IN
    /\ q.pc = "access"
    /\ p \in q.unchecked
    /\ IF role \notin q.route.needs \/ (left = {} /\ Refuses(q))
       THEN Finish(r)
       ELSE requests' = [requests EXCEPT ![r].acting = role, ![r].unchecked = left,
                             ![r].pc = IF left = {} THEN After(q) ELSE "access"]
    /\ UNCHANGED <<tables, edits, served>>

-----------------------------------------------------------------------------
(* Grants.                                                                 *)

\* Mutant: the role itself is not compared, only its holder.
MayAssignAnything(q, goal, standing) ==
    /\ q.status # "archived"
    /\ q.target # q.user
    /\ standing # "organization_owner"
    /\ ~Outranks(standing, q.acting)

MayAssign(q, goal, standing) ==
    /\ q.status # "archived"
    /\ q.target # q.user
    /\ standing # "organization_owner"
    /\ ~Outranks(goal, q.acting)
    /\ ~Outranks(standing, q.acting)

\* requireOrganizationMember, and for a grant the last check.
RequireMember(r) ==
    LET q == requests[r]
        standing == members[q.target]
    IN
    /\ q.pc = "target"
    /\ IF standing = Nobody \/ (q.route.does = "grant" /\ ~MayAssign(q, q.goal, standing))
       THEN Finish(r)
       ELSE requests' = [requests EXCEPT ![r].standing = standing,
                ![r].pc = IF q.route.does = "grant" THEN "write" ELSE "grant_row"]
    /\ UNCHANGED <<tables, edits, served>>

\* revoke: the grant as it is now is what its caller could have given.
FindGrant(r) ==
    LET q    == requests[r]
        goal == grants[End(r)][q.target]
    IN
    /\ q.pc = "grant_row"
    /\ IF goal = Nobody \/ ~MayAssign(q, goal, q.standing)
       THEN Finish(r)
       ELSE requests' = [requests EXCEPT ![r].goal = goal, ![r].pc = "write"]
    /\ UNCHANGED <<tables, edits, served>>

Writes(r, kinds) == requests[r].pc = "write" /\ requests[r].route.does \in kinds

\* upsert and remove; either succeeds whatever the row has become.
GrantWrite(r) ==
    LET q == requests[r] IN
    /\ Writes(r, {"grant", "revoke"})
    /\ grants' = [grants EXCEPT ![End(r)][q.target] =
            IF q.route.does = "grant" THEN q.goal ELSE Nobody]
    /\ Finish(r)
    /\ UNCHANGED <<members, projects, edits, served>>

StatusWrite(r) ==
    /\ Writes(r, {"archive", "restore"})
    /\ projects' = [projects EXCEPT ![End(r)] =
            IF requests[r].route.does = "archive" THEN "archived" ELSE "active"]
    /\ Finish(r)
    /\ UNCHANGED <<members, grants, edits, served>>

\* The projects with a row a request writes: its own, and those of the requirements
\* and the result that a raised defect is linked to, where they exist.
Reached(q) == q.ends \cup {p \in q.also : projects[p] # "none"}

\* The name of the project, or rows of the other modules; a link is a row of the
\* project of either end.
RowWrite(r) ==
    /\ Writes(r, {"update", "write", "link", "record", "duplicate", "report"})
    /\ edits' = [p \in Project |-> edits[p] + (IF p \in Reached(requests[r]) THEN 1 ELSE 0)]
    /\ Finish(r)
    /\ UNCHANGED <<tables, served>>

-----------------------------------------------------------------------------
\* A role is changed, a member removed or taken in, by a request of Membership.
MemberChanges(u, role) ==
    /\ served < MaxServed
    /\ members' = [members EXCEPT ![u] = role]
    /\ served' = served + 1
    /\ UNCHANGED <<projects, grants, edits, requests>>

\* The server dies, or a statement fails, between two awaits.
Crash(r) ==
    /\ requests[r].pc # "idle"
    /\ Finish(r)
    /\ UNCHANGED <<tables, edits, served>>

\* A request names what its route is about, and a defect being raised also the
\* requirements and the result it comes from, of whatever projects.
Begin(r) ==
    \E u \in User, route \in Routes, p \in Project :
        CASE route.does \in {"grant", "revoke"} ->
               \E target \in User :
                  \E goal \in IF route.does = "grant" THEN InUse ELSE {Nobody} :
                     Arrive(r, u, route, {p}, {}, target, goal, TRUE)
          [] route.does = "link" ->
               \E other \in Project :
                  Arrive(r, u, route, {p, other}, {}, Nobody, Nobody, TRUE)
          [] route.does = "report" ->
               \E also \in SUBSET (Project \ {p}) :
                  Arrive(r, u, route, {p}, also, Nobody, Nobody, TRUE)
          [] route.does = "record" ->
               \E mine \in BOOLEAN : Arrive(r, u, route, {p}, {}, Nobody, Nobody, mine)
          [] OTHER -> Arrive(r, u, route, {p}, {}, Nobody, Nobody, TRUE)

Continue(r) ==
    \/ MayHoldGrantFor(r) \/ Read(r) \/ CreateRead(r) \/ Insert(r)
    \/ RequireProject(r) \/ RequireRow(r)
    \/ DuplicateRead(r) \/ RequireMember(r) \/ FindGrant(r)
    \/ GrantWrite(r) \/ StatusWrite(r) \/ RowWrite(r)
    \/ \E p \in Project : AssertRouteAccess(r, p)

InFlight == {r \in Request : requests[r].pc # "idle"}

\* The part of the tables the answer to request q depends on.
Basis(q) == <<[u \in User \cap {q.user, q.target} |-> members[u]],
              [p \in q.ends |-> <<projects[p], grants[p]>>]>>

Watch == overtaken' = InFlight' \cap
    (overtaken \cup {r \in InFlight : \E q \in {requests[r]} : Basis(q)' # Basis(q)})

Next ==
    /\ \/ \E r \in Request : Begin(r) \/ Continue(r) \/ Crash(r)
       \/ \E u \in User, role \in InUse \cup {Nobody} : MemberChanges(u, role)
    /\ Watch

Spec == Init /\ [][Next]_vars

-----------------------------------------------------------------------------
(* Properties *)

\* effectiveRole of permissions-matrix.md, by the tables as they are.
Holds(u, p) ==
    IF members[u] = "organization_owner" \/ grants[p][u] = Nobody
    THEN members[u] ELSE grants[p][u]

\* A request writes in this step, and nothing it rests on changed under it.
Commits(r) ==
    /\ requests[r].pc \in {"insert", "write"}
    /\ requests'[r] = Idle
    /\ <<projects, grants, edits>>' # <<projects, grants, edits>>
    /\ r \notin overtaken

\* The project itself, a grant in it or a row of it is written in this step.
Written(p) == <<projects[p], grants[p], edits[p]>>' # <<projects[p], grants[p], edits[p]>>

\* Whatever route it took through the guards, the memo and the service, a request
\* that writes in a project, a row of it or a link into it, held there a role the
\* route lists, and changed the settings of no archived project.  Three exceptions:
\* the duplicate of a case asks for no role in the project; raising a defect asks
\* for none in the projects of the requirements and the result it links; and the
\* basis of a request may change while it runs.
WritesAreAllowed ==
    [][\A r \in Request : Commits(r) /\ requests[r].route.does # "duplicate" =>
        LET q == requests[r] IN
        \A p \in Project : Written(p) /\ ~(q.route.does = "report" /\ p \notin q.ends) =>
            /\ Holds(q.user, p) \in q.route.needs
            /\ q.route.does \in {"update", "archive", "grant", "revoke"} =>
                  projects[p] # "archived"]_vars

\* "A grant must never let somebody end up outranked by a person they themselves
\* appointed": a change of somebody's role in a project is made by somebody else,
\* spares the owners and whoever outranks its maker in the organization, gives no
\* role above the one its maker holds there, and takes none back by a revocation.
\* The role that a new grant overwrites is not compared, so a project manager may
\* still put a lower role in the place of a higher one.
GrantsFollowRank ==
    [][\A r \in Request : Commits(r) => \A p \in Project, u \in User :
        grants'[p][u] # grants[p][u] =>
            LET q == requests[r] IN
            /\ u # q.user
            /\ members[u] \notin {Nobody, "organization_owner"}
            /\ ~Outranks(members[u], Holds(q.user, p))
            /\ \A role \in {grants'[p][u]} \ {Nobody} : ~Outranks(role, Holds(q.user, p))
            /\ q.route.does = "revoke" => ~Outranks(grants[p][u], Holds(q.user, p))]_vars
=============================================================================
