# A verification project for QA Flow Hub

QA Flow Hub is a multi-tenant QA-management service: a NestJS API over Prisma
and PostgreSQL, and a React client. This directory holds TLA+ models of the
parts of it where requests, tabs and transactions race, TLC configurations that
check them on small instances, and TLAPS proofs of what holds on every instance.
Paths below are relative to the repository; `modules/` is
`apps/api/src/modules/`.

- [The system](#the-system): components, their state, what makes them correct
- [How the code is modelled](#how-the-code-is-modelled)
- [The modules](#the-modules)
- [The runs](#the-runs), their bounds, and the fairness assumed
- [What is proved](#what-is-proved)
- [Disagreements found](#disagreements-found)
- [What is not modelled](#what-is-not-modelled) and [the plan](#the-plan)

## The system

A request passes guards (access token and session row, active organization,
role, project access), then a controller calls one service method, which calls
repositories. Nothing is kept in the memory of a server between requests: all
state is in PostgreSQL, every server is alike, and requests meet only in the
database. Three facts shape everything below:

* Transactions run at READ COMMITTED (`docs/backend-course/17-transactions.md`),
  through `PrismaService.runInTransaction`, with a time limit and no retry. No
  statement locks a row it only reads.
* The usual shape of a method is *read the row, check it, write it*, with the
  read outside the transaction of the write, and a write that names the row's id
  (and its tenant, and that it is not deleted) and not the value that was
  checked.
* The client's tabs share a refresh cookie and a `localStorage`, and nothing
  else; a call that meets a 401 refreshes the session and goes again, once.

So the hard behaviour is what two requests do to each other between a check and
a write, what a crash leaves behind between two statements, and what tabs do to
each other through what they share. A deleted row is almost always marked
(`deletedAt`), not removed.

| Component | State | Operations | What makes it correct |
|---|---|---|---|
| Sessions and passwords (`modules/auth/auth.service.ts`, `sessions.repository.ts`, `users.repository.ts`) | users; sessions, each the holder of one refresh token, grouped in families by rotation | register, login, refresh, logout, logout everywhere, change password, revoke one | one live token per family; a replayed token kills its family; a password change ends every older session; rotation never signs a user out; nobody ends another's session |
| Lockout (`users.repository.ts:58`) | failed attempts, locked until | count and lock, clear | five failures lock; a success clears |
| Tokens, cookies, hashing (`token.service.ts`, `refresh-cookie.service.ts`, `password.service.ts`) | none | sign, verify, hash, rehash | a token is verified before its row is read |
| Web client (`apps/web/src/api/http-client.ts`, `session-store.ts`, `auth/auth-context.tsx`) | per tab: the user shown, the access token, one refresh in flight; shared: the cookie, the active organization | open, close, call, refresh, resend, login, logout, select an organization | a tab is signed out only for a reason; every call settles; a change lands in the organization that was shown |
| Projects and access (`modules/projects`, `modules/auth/guards`) | members' roles, projects and their status, grants, key counters | create, edit, archive, restore; grant, change, revoke | what is written was allowed; a grant reaches no higher than its maker; an archived project's settings are frozen |
| Members (`modules/organizations/organizations.service.ts`) | memberships and their roles | change a role, remove | an owner remains |
| Invitations (`modules/organizations/invitations.service.ts`) | invitations: pending, accepted, revoked, expired | invite, list, resend, revoke, accept | one membership per acceptance; none open for a member |
| Tenancy (`apps/api/src/database`, the row-level-security migration) | the organization in a request's context and on a connection | announce, check policies | no statement sees another organization; a legitimate one is not refused |
| Audit log (`modules/audit`) | entries | append, in or after a transaction | an entry for what committed and for nothing else |
| Requirements (`modules/requirements`) | requirements, append-only versions | create, edit, move, delete | only listed moves; the history ends with the row |
| Defects (`modules/defects`) | defects, dates, origin | raise, edit, move, delete | only listed moves; dates agree with the status |
| Test design (`modules/test-design`) | suites, a section tree five deep, cases, steps, versions | create, rename, move, edit, replace steps, duplicate, archive, delete | everything hangs from something live; a version names one list of steps |
| Test runs (`modules/test-runs`) | runs, the cases in them with a snapshot of each, results | create, edit, start, complete, abort, delete, add and remove cases, assign, record | a closed run is frozen; the projected status agrees with the results; snapshots are of one version |
| Traceability (`modules/traceability`) | links between requirements, cases, runs, results, defects | link, unlink, purge, matrix | no link into something deleted; the matrix agrees with the tables |
| Dashboard (`modules/dashboard`) | none | aggregates | the coverage it shows is that of the tables |
| Configuration, health, errors, integrations, shared schemas, pages | none | start-up, formatting, rendering | |

The components call each other: registration accepts an invitation; a run reads
cases and freezes them; the deletion of a run, case, requirement or defect
purges the links into it; a defect is raised from a result and linked as it is
created; every mutation audits; every request passes the guards.
`PROJECT.json` lists each hazard at its line, with the properties that watch it.

## How the code is modelled

A request is a process with a record in `requests` (or `calls`): its program
counter `pc` and what it has read so far. The vocabulary is the same in every
module:

* The read that opens a handler is an action of its own with the guards of the
  controller and the early returns of the method (`RefreshRead`, `Require`,
  `ChangeMemberRole`). It may carry on only with what it copied.
* Each later statement or transaction is one action. A transaction is one action
  when nothing another request commits can fall between its statements and
  change what they do; where something can, it is split (the two reads of a
  snapshot, the ids read before a run is deleted, the insert of a result and its
  commit, the rewrite of a case's steps), and what it holds locked in between is
  a guard of the others (`RowLocked`, `ProjectLocked`).
* A write does what its `where` says: if the row has gone, nothing.
* `Crash(r)` ends a request between any two actions: the server dies, the
  statement fails, the transaction times out and is rolled back. It also stands
  for the checks a module leaves out, whose only effect is to end the request.
* An early return that changes nothing is either a guard that keeps the action
  from happening or, where a later step of the request depends on it, a step to
  `Idle`.
* `expiresAt` passing is an action of the environment (`Expire`, `Lapse`,
  `ExpireAccess`).

History variables record what a property needs and no action reads them to
decide anything in the code's place: `late`, `straggled`, `restored`, `overtaken`,
`doomed`, `raced`, `stray`, `crossed`, `missed`, `steady` and `excused` mark what
was overtaken between a check and a write. A property that excuses what they mark says exactly how far
the code's promise reaches, and the [disagreements](#disagreements-found) say
what lies beyond.

Operators introduced by a comment "Mutant:" are altered copies of the definition
that follows them. Nothing uses them; putting one in that definition's place
breaks the property it is listed with in `PROJECT.json`, which shows that the
property can fail.

## The modules

Each `MC` module of the same name adds symmetry sets, or the values of
constants, for TLC.

**Sessions** models `auth.service.ts` and its two repositories, for any number
of users. `sessions` is the table (`user`, `family`, `revoked` and its reason,
`replacedBy`, `expired`), and `epoch` the password a family was opened with.
`Superseded` is the point of interest: `rotate` writes the predecessor by id,
whatever its state. Rotation is one transaction (`RefreshRotate`), the password
change three statements (`PasswordRead`, `PasswordWrite`, `PasswordRevoke`),
login three (`LoginVerify`, `LoginRecord`, `StartSession`). Three histories tell
the ways past a password change apart: `late`, families a rotation gave a row
after its token had been revoked; `straggled`, families a request opened whose
password was checked before a sweep (`asof`) and whose row was inserted after it,
whatever that password; and `restored`, the passwords a rehash wrote back over a
newer one.

**WebClient** is the other end: the tabs of one browser, their calls, the
refresh cookie they share, and a server that handles a refresh or a call in one
step (what happens inside is Sessions). A refresh is sent with the cookie of
that moment, handled, and answered or lost; `Rotate` turns the token every other
tab holds into a rotated one. `EnsureRefresh` is the single flight of
`http-client.ts`, which the refresh at start-up (`Open`, `BootAnswered`) does
not use. A call is sent, refused, waits for the refresh, is sent `again` and
gives up at the second 401.

**Tenancy** follows the active organization from the tab that shows it to the
row it ends up in. Tabs keep their choice in one `localStorage` (`stored`),
which a call reads when it is sent (`Sent`); the guard puts it in the context
(`Admit`); a statement borrows a pooled connection and announces the context to
it for itself (`OnPool`) or for its transaction (`Begin` to `EndTransaction`),
and each policy compares what was announced. Audit entries go inside the
transaction (`AuditInside`) or after the change (`AuditAfter`). The API is
connected as `qaflow_app` (`docs/deployment.md:38`), which the policies bind.
Simplified: one user, who is in one organization at least; one call per tab; a
tab's project list is emptied when it switches; the answer to a creation and the
selection of the new organization are one step.

**Access** composes the guards with the handlers behind them. `route` is a line
of a controller: the roles it lists, whether it is project scoped, and what its
handler does. The organization role is the one the guard read, the project role
is read once per request and remembered. Grants, their changes and revocations,
and the projects' life cycle are detailed; `edits` counts the writes other
modules detail: a row of a project, or a link with an end in it. A defect being
raised (`report`) names, besides its own project, those of the requirements and
the result it is linked to (`also`), of which nobody asks a role.

**Membership** models `organizations.service.ts` and `invitations.service.ts`.
The role a handler compares ranks with is the one its guard read. The n-th token
of an invitation is the number of resends before it. The acceptance's audit
entry is taken to be accepted by the database, as it is for the owner's
connection the tests use; Tenancy has the other case.

**Workflow** is the abstract specification of a status workflow whose moves are
checked against a status read beforehand. An item starts at a start; each status
it takes is listed after one *it has had*, not necessarily the one it has. It
has one variable, `past`. **Trackers** implements it: requirements and defects
with their keys, texts, statuses, versions and dates. `FollowsWorkflow` is the
refinement: `Stages == INSTANCE Workflow WITH ...` maps the abstract `Listed` to
the two tables of moves and `past` to the history variable of that name, and
`Stages!Spec` is a PROPERTY of the run, and a theorem (`Refinement`). It buys
`ReachedHolds` and `GatedHolds`: a requirement in status `implemented` was once
`approved`, and a `closed` defect once `resolved`, however their moves race.

**TestDesign** models `test-design.service.ts`: suites and their unique names,
the tree of sections, cases, their steps and versions. Each handler's reads and
transaction are steps of their own, and the two handlers that rewrite steps are
split where one can wait for the other: a DELETE removes the steps there were
when it began, and the insert that follows is refused if a position is taken.

**TestRuns** models all of `test-runs.service.ts`, the edits of cases a snapshot
races with, and the links into a run. `rows` is `test_run_cases`; `version` and
`steps` of a row are what its two reads froze. A result is `pending` between its
insert and its commit: in between it holds its row against deletion, as the
foreign key does. A result that is rolled back is `gone`; one that a removal of its
case took along after it was committed is `lost`. Each result remembers which later
ones had committed before it (`over`), and whether a removal that had found its row
untested was then about to delete it (`doomed`).

**Traceability** composes the tables a link can end in. Links are located and
inserted by separate statements, purged by the deletions of their ends
(`Purged`) and read by the coverage matrix and the dashboard, whose queries are
one action each and share no transaction. A deletion is two actions: what it has
deleted and purged (`RemovePurge`, `SuitePurge`) is locked by it, and can still be
located, read and linked to by everybody else, until it commits (`RemoveCommit`,
`SuiteCommit`), after its audit entry. A link is `sound` unless a deletion of one of
its ends had purged or committed by the time it was inserted. `report` is what the one being
computed has read; `steady` are the requirements about which nothing has changed
meanwhile.

The theorems are in **SessionsProofs**, which extends Sessions and WebClient (the
two ends of a session, with no variable in common), and in **TestRunsProofs**,
**TrackersProofs**, **MembershipProofs**, **AccessProofs**, **TenancyProofs**,
**TraceabilityProofs** and **TestDesignProofs**, each of which extends the module
it is about.

## The runs

| Run | Instance | What it shows |
|---|---|---|
| `sessions` | 1 user, 2 requests, 3 sessions, 2 passwords | `Lineage`: rotation chains are well formed. `NoSilentSignOut`: nothing, crashes included, loses a token half-way through a rotation. `SoleLive`: every second live token goes back to a rotation that overtook another (`late`). `PasswordCutoff`: a session that outlives a password change is in a family that a login or a rotation past its check extended after the sweep, or was opened with a password a rehash had restored |
| `sessions_users` | 2 users, 2 requests, 2 sessions, servers stay up | `ReuseKills`: a replay ends with its family revoked |
| `web_client` | 2 tabs, 3 call slots, 1 login | `SignedOutForAReason`: however many calls meet a 401 together, and whatever the other tab's refreshes do, a tab loses its user only for one of the reasons listed there. `CallsSettle`: no call waits or goes round for ever |
| `tenancy` | 2 organizations, 2 tabs, 2 connections, 2 changes | `StatementsSeeTheirOwn`, `AuditTellsWhatCommitted`; `ChangesLandWhereShown`, as long as no other tab has chosen since |
| `access` | 2 people, 2 projects, 2 requests, 3 of the 6 roles, 2 requests or changes of role | `WritesAreAllowed`, `GrantsFollowRank`: through guard, memo and service, for requests whose basis stands while they run; in every project where a row or a link changed, but for duplicates and the other ends of a new defect's links |
| `membership` | 3 people, 2 requests at a time and 5 in all, 2 invitations, 1 resend | `InvitationsAccountForMembers`, unconditionally; `OwnerRemainsUnlessRaced`, `NoInvitationForMembers`, until an overtaken request writes |
| `trackers` | 2 items, 2 requests, 2 texts, 6 requests served | `FollowsWorkflow`; `VersionsTellTheRow`, `KeysHaveNoHoles`; `DatesTellTheStatus` |
| `test_design` | 2 suites, 3 sections, 2 cases, 2 requests, depth 2, 3 requests served | `EverythingHasAPlace`, `DepthIsBounded`, `StepsAreTheLastAsked`, `VersionNamesSteps` |
| `test_runs` | 1 run, 1 case, 2 requests, 2 versions, 2 results, the case up to twice in the run | `LatestAgrees`: a row shows the result committed last; `ResultsStartTheRun`; `SnapshotNotStale`: a snapshot may mix versions one way only |
| `test_runs_addressed` | 2 runs, 1 case, 2 requests, 1 result | `ResultsBelong`: a committed result is lost only to a removal that had found its case untested; `OnlyStragglers`: a closed report changes only by a request that read this very run while it was open |
| `traceability` | 2 requirements, 2 cases, 1 defect, 2 requests and a report, 3 changes | `LinksDieWithTheirEnds`: in every order of checks, insertions, purges and commits, the links that outlive an end are those listed [below](#disagreements-found); `MatrixIsExact`, `DashboardIsExact`: about a requirement nothing changed for, the reports are right although their queries straddle the other changes |
| `organizationless_flows` | as `tenancy` | a violation, see [below](#disagreements-found) |

Every run but the two whose questions it does not change checks its module's
`TypeOK` (`BrowserTypeOK` of WebClient), which carries the database's own
constraints too (one live suite per name, one status table per kind).

*Why these bounds.* A race here is between a check and a write, so two requests
show it (one of them may also do several calls while the other is between its
read and its write). Three sessions are a login, its rotation and the row a race
adds; two passwords are an old one and a new one; two versions are an edit; two
results are one and a later one; two users, runs, projects or organizations are
enough to touch the wrong one; three sections are a parent, a child and a place
to move to, and two levels make the limit bite with them; six requests to the
trackers take a requirement to `implemented` while a second item is created and
deleted; two calls in one tab are a refused one and one that waits for its
refresh, and two tabs are enough for one to rotate the other's cookie. Two
invitations are one for somebody who is joining by the other, and five requests to
the organization are to invite, accept and be removed, and to be invited and accept
again, or two such invitations racing. `InUse`
keeps three roles of different rank, one of which is the owner's. Every counter
that stops at a bound (`MaxSession`, `MaxPassword`, `MaxVersion`, `MaxGen`,
`MaxResult`, `MaxInvite`, `MaxResend`, `MaxServed`, `MaxLogin`) only disables
the action that would pass it. Because those bounds can stop a small instance
altogether, deadlock is not checked, except in `web_client`, where a tab can
always be opened. Requests, users, runs, cases and the like are interchangeable,
so they are symmetric wherever no liveness is checked; `Founder` is left out.

*Fairness.* Two specifications state it. `UpSpec` of Sessions: weak fairness of
`Continue(r)` for each request, and no `Crash`; an awaited statement settles
while the servers stay up, which the pool and the statement timeouts see to.
`BrowserSpec` of WebClient: weak fairness of what a refresh or a call does next
(`RefreshStep`, `CallStep`); the API answers and `fetch` settles, with an answer
or a failure, and a tab's code runs on. Nothing makes a user act, a token expire
or a tab open, and a tab may be closed at any moment.

## What is proved

Every invariant and every action property that a passing run checks is also a
theorem, for every value of the constants, under the assumptions named in the
module: the bounds are natural numbers, the null values are none of the real
ones. The sets may be infinite, but for the sections of TestDesign, which a table
holds finitely many of: the walks over the tree stop because there is an end to
them. TestDesign also asks for one suite and one name to begin with.

`SessionsProofs`: `TypeCorrect`, `LineageHolds`, `NoSilentSignOutHolds`,
`SoleLiveHolds`, `PasswordCutoffHolds`, the invariants of run `sessions`. The
types come first: `Typed` adds to `TypeOK` that a request past its first read
names a row that exists and a user (`Located`), which no action could be shown
to preserve `TypeOK` without. The safety invariants are then inductive together:

* `Lineage` alone is not, since a rotation has to know that the row it supersedes
  and the family it copies are well formed; and nothing tells two rotations of one
  token apart from a grafted chain but that a successor is always the row being
  inserted, so it is younger than every `replacedBy` there is.
* `NoSilentSignOut` follows because a rotation inserts the newest row of its
  family in the same step in which it labels its predecessor.
* `SoleLive` leans on `late`: the proof shows that a rotation is the only place
  where a row is inserted on a token read earlier.
* `PasswordCutoff` needs to know that a login which no sweep overtook opens its
  session with an allowed password, one no older than the last sweep or restored
  (`Allowed`): `Current`, that the row of an account holds such a password at every
  moment, between a change and its sweep included, and `Checked`, that a login
  still carries one as long as its `asof` stands (together `Verified`). The two
  races and the one write are then the only ways out.

`EndedByItsUserHolds`, in the same module, is an action property: a session ends
only by a request of its own user, or one that presents a token of that user. No
run checks it; it needs two users and several sessions, where a proof is worth
more. Its invariant is `Owned`: a family is one user's (`Families`, from
`Lineage`: a family a login founds is newer than all there are), and a request
about to revoke by token has no user of its own, one about to revoke by id names
a row of its user (`Callers`). `RowsKept` says what no step does to a row.

Of the browser, there too: `BrowserTypeCorrect` and `SignedOutForAReasonHolds`,
for any number of tabs and of calls in each. `Unshared`, beside the types, is
what the single holder of a cookie comes to: the token a refresh has been
answered with is in no other request and not in the cookie until it is stored.
`Calm` is the invariant of a browser nothing has been excused for: every login
lives (`AllAlive`), at most one refresh is under way in all tabs (`OneRefresh`), the
cookie is good, or is the one a refresh already answered will replace
(`CookieGood`), and what has been sent to the server will be accepted
(`RefreshGood`, `BootGood`, `CallsGood`: a call that goes `again` carries a token
of a login that lives). Under it the two places where the client signs a tab out,
a refused refresh and a second 401, are not reached, but by a tab that is opened
without a cookie. Fairness is not used.

`TestRunsProofs`: all that `test_runs` and `test_runs_addressed` check, and two
more: `DatesAgreeHolds` (the dates of a run tell where it has been). The inductive
invariant `IInv` has three parts besides the types:

* `Tables`: the tables agree with one another. That is the properties, with two
  facts they need: a result that counts names a run that was created
  (`ResultsOfRuns`), and a link into a result names that result's run
  (`LinksLocated`).
* `Sound(r)`: what a request has copied, and what is *still* true of it although
  others have written since. A request about to commit a result that did not read
  its run as planned still finds it past planned, because no move leads back;
  one that completes a run finds it started; the ids a deletion has read are of its
  own run; a selection's steps are no newer than the case, whose version never goes
  down; the result a request will commit is still pending, because the delete of
  its row waits.
* `Apart(q, r)`: no two requests commit one result or create one run.

That no committed result is lost but under a removal (`LostKnowingly`) is shown
beside it: whatever results a request about to delete a row finds there were
committed after it had found the row untested.

`Sound` is what an interleaving could break, so the proof is laid out around it.
`Steady(Q)` lists what a step may not do to the tables (take a run back to
planned, clear `startedAt`, lower a version, move a result, end another request's
pending one); `OthersSound` shows once that a steady step leaves the claims of
every other request standing, and each action then has only its own effect on the
tables to answer for. `OnlyStragglersHolds` needs one fact more, `SeenOpen`: a
request that can still change a report read its run as open, or is creating it.

`TrackersProofs`: `TypeCorrect`, and `Refinement`, that Trackers implements
Workflow. Each step maps to `Open` (an insert), `Move` (a write of a new status)
or a stutter. `Move` asks for a status the item *has had* and that leads to the
new one, so the invariant has to carry what the request read from its read to
its write: `Basis` says that the status a request has seen is of the kind of its
item and in `past`, which only grows (`Grows`), and `Known` that a row's own
status is in `past`. From the refinement follow `ReachedHolds`, that every
status an item has had is a start or listed after another it has had, and with
the two tables of moves `GatedHolds`.

The other three invariants of that run are proved in the same module, each with
what it lacks to be inductive. `KeysHaveNoHoles` does not say that the next key is
free: `Numbered` adds that no key is above its counter. `DatesTellTheStatus`
counts on the date a move writes being computed from the status it leaves:
`MoveIsDated` is about a move nothing overtook, and `Told` says what is left of
the dates of an item one has overtaken. `VersionsTellTheRow` needs the versions and
the row to be told from one another: `History` says that the last version is the
row's, that each one's status is its predecessor's or is listed after that of an
earlier one, and that every status in `past` has a version. That last conjunct is
why a move checked against an old status is still one the history accounts for.

`MembershipProofs`: `TypeCorrect` and all that run `membership` checks.
`InvitationsAccountForMembers` is inductive with `OnePending` (the partial unique
index) and with the fact that an acceptance's caller is the address of its
invitation. The other two speak of what was checked earlier: `Fresh` keeps, for
each request nobody has overtaken, what it found (`Checked`: the person invited
is not a member; another owner is left), and `NotRaced` shows that a behaviour
not marked as raced has only ever been written by such requests.

`AccessProofs`: `TypeCorrect`, `WritesAreAllowedHolds` and
`GrantsFollowRankHolds`. What a request knows is split by what can undo it.
`Located` is what nothing takes back (no project ceases to exist, a check that
passed has passed) and holds of every request; `Sound` is what it read of roles,
grants and archiving, and holds only until a change overtakes it. A step that
writes is then shown to be the request's own (`WhoWrites`), to change nothing
outside the projects the request is about but for the links of a new defect
(`WrittenWhere`), and to have `Sound` behind it.

`TenancyProofs`: `TypeCorrect`, `StatementsSeeTheirOwnHolds`,
`AuditTellsWhatCommittedHolds` and `ChangesLandWhereShownHolds`. `Pool` is the
reason the first one holds: a free connection has no setting and a held one has
that of the call that holds it, so no call inherits another's organization,
whatever the order in which connections are lent and whether transactions end or
crash. `CallSound` relates header, context and target as a call goes on, `Browser`
says that the tab whose choice was stored last shows it, and `Logged` that an
entry about to be written afterwards is about a change that was committed.

`TraceabilityProofs`: `TypeCorrect`, `LinksDieWithTheirEndsHolds`,
`MatrixIsExactHolds` and `DashboardIsExactHolds`. `DInv` is about the tables and
the requests: links are of the shapes the matrix reads, what a request located was
created (and nothing becomes uncreated, `Created`), and no sound link outlives its
ends. `Followed` says that an end a request has located is live unless the request
is marked as overtaken, and `Covers` what a deletion in progress owes: every sound
link into a row it has deleted is among those it has purged, because any other would
be inserted after the purge, which makes it unsound; a suite's deletion owes none to
the cases it has not listed. `RInv` is about the report being computed: which queries can still be out at
each stage (`Phase`), and, for each requirement in `steady`, that the answers read
so far are those the same queries would get now (`ReadMatrix`, `ReadSummary`). A
step that changes what such an answer rests on takes the requirement out of
`steady`; every other step leaves the evidence about it alone. When the last
answer is in, exactness is what `RInv` says.

`TestDesignProofs`: `TypeCorrect`, `EverythingHasAPlaceHolds`,
`DepthIsBoundedHolds`, `StepsAreTheLastAskedHolds` and `VersionNamesStepsHolds`.

* `Descendants` and `DepthOf` are recursive functions over an interval of the
  naturals. `RecursionExists` shows, by an induction drawn from the library's
  theorem that the naturals are well founded, that such a function exists, and
  `DescendantsUnfold` and `DepthUnfold` that these are what their equations say.
  `DescendantsLeast` is what everything else uses: as many rounds as there are
  sections are enough, so the walk computes the least set that holds its start and
  is closed downwards.
* `PInv` makes `EverythingHasAPlace` inductive. Having no cycle is put as a fact
  about sets, `Rooted`: no live sections, none of them stray, have each its parent
  among them. A move that found its target outside the descendants of what it moves,
  and was not overtaken, cannot make such a set; `CyclesHaveStrays` gives the
  property back.
* `Short` bounds the depth. A creation measures the parent it read, and others
  write before it inserts; but sections no move has placed (`Solid`) never change
  their parent, so the run of them above one only shrinks, when one is deleted. The
  new row is at the end of a run: `Known` says that nothing, neither a row nor a
  request about to write one, names a section that does not exist yet. `PathIsRun`
  relates the run to the path the property counts.
* `StepsMove` lists what a step may do to the steps of a case: nothing, insert them
  with the case, or rewrite them, in which case the version goes up and they are
  what was asked for, unless the request that asked for none was crossed.

*Model-checked only.* The two liveness properties, `ReuseKills` of Sessions and
`CallsSettle` of WebClient: they rest on fairness, and so on `ENABLED`, which is
beyond the prover. The violation in `organizationless_flows` is a history TLC
finds. What TLC adds to the theorems besides is that the guards are met: the
passing runs take every action.

## Disagreements found

*With a run.* `organizationless_flows`: "When the request has no active
organization (login, registration, accepting an invitation) nothing is set, and
the policies then match no row at all. That is the intended answer: those flows
only touch tables without RLS" (`apps/api/src/database/prisma.service.ts:28`).
The acceptance of an invitation audits inside its transaction, with the
organization it joins (`invitations.service.ts:241`), and the policy on
`audit_logs` refuses a row whose organization is not the one announced
(`migration.sql:70`). Connected as `qaflow_app` the whole acceptance is rolled
back; connected as the owner, as the integration tests are, it goes through.
Entries without an organization, or outside a transaction
(`organizations.create`), are refused too, but are only logged as failures.

*Marked by a property.* Each of these is what a history variable excuses in the
property named; taking the excuse away gives a shortest history of it.

| Property | What happens beyond it | What the repository says |
|---|---|---|
| `SoleLive` | two refreshes of one token both insert a live successor | "exactly what rotation exists to prevent" (`sessions.repository.ts:60`) |
| `PasswordCutoff` | a login or refresh past its check inserts a session after the sweep (`straggled`, `late`) | "Leaving other sessions alive would make the change cosmetic" (`auth.service.ts:200`) |
| `PasswordCutoff` | a login that upgrades an outdated hash writes back the password it verified several awaits earlier (`auth.service.ts:106-109`); if the password was changed in between, the old one is the account's again, and whoever knows it signs in, at any later time (`restored`) | "The user never notices and never has to reset" (`auth.service.ts:105`) |
| `ResultsBelong` | a case is found without results, a result of it is committed, and the removal of the case deletes the row by id and the result with it (`test-runs.service.ts:244-251`); the case can be put back, untested | "results are the record of what was executed" (`test-runs.service.ts:246`); "nothing is ever updated or deleted" (`schema.prisma:680`); "Test results are never editable or deletable" (`docs/permissions-matrix.md:136`) |
| `LinksDieWithTheirEnds` | both ends of a link are located, one is then deleted, or is being deleted with its links purged already, and the link is inserted (`traceability.service.ts:30-57`); the requirements of a defect being raised are not located at all (`defects.service.ts:101`); a case created after the deletion of its suite has listed the cases is deleted with them and keeps its links | "both ends must resolve to a *live* entity", "Nothing survives its endpoint" (`docs/traceability-model.md:36`) |
| `OnlyStragglers` | a request that read the run open writes it closed; a first result even reopens it | "a report that can change is not a report" (`test-runs.service.ts:144`) |
| `SnapshotNotStale` | the steps of an edit are frozen under the version before it | "`caseVersion` records which version was executed" (`docs/domain-model.md:57`) |
| `LatestAgrees` | the older of two results becomes the latest status, when it commits last | "Projection of the most recent result" (`schema.prisma:664`) |
| `OwnerRemainsUnlessRaced` | two owners demote or remove each other | "The last owner cannot be removed or demoted" (`docs/permissions-matrix.md:132`) |
| `FollowsWorkflow` | two moves at once leave a requirement or defect in a status not listed after the last one | the tables of moves (`requirement.contracts.ts`, `defect.contracts.ts`) |
| `WritesAreAllowed` | `duplicateCase` never reaches `assertRouteAccess`: it checks no project role (`test-design.service.ts:399`) | every project-scoped route is checked (`project-scoped.decorator.ts:16`) |
| `WritesAreAllowed` | raising a defect links it to requirements of any project, and to a result of any project of the organization, and asks for the route's roles in its own only (`defects.service.ts:61-127`) | "being allowed to edit either project alone is not enough" (`traceability.service.ts:79`) |
| `GrantsFollowRank` | a grant over an existing one compares the new role with its maker's, and not the one it replaces (`project-members.service.ts:70-97`), so a project manager can put a tester's grant in the place of an organization admin's; a revocation does compare it | "a grant must never let somebody end up outranked by a person they themselves appointed" (`project-members.service.ts:26`) |
| `EverythingHasAPlace` | two sections moved under each other at once make a cycle; what is added below a folder being deleted stays under it; a duplicate keeps a section deleted meanwhile | "would detach the whole branch from the tree" (`test-design.service.ts`) |
| `DepthIsBounded` | a section moved with its children exceeds the limit | "Sections nest, and every level costs a query" |
| `StepsAreTheLastAsked` | of two edits of one case's steps, the one asked for an empty list leaves the other's | "Replaces the whole ordered list" |
| `ChangesLandWhereShown` | a tab's calls go to the organization another tab selected last | the screen a user edits names the tenant (`AppLayout.tsx:18`) |
| `SignedOutForAReason` | a second 401 that arrives after the first refresh ended rotates again, and the call already sent again loses its session; two tabs refreshing together look like a replay; so does the effect React runs twice at start-up in development; a refresh answered after a logout stores its tokens; a wrong password on the login page loses a session being restored; any failed refresh counts as a lost session | one refresh for all (`http-client.ts:31`) |
| `DashboardIsExact` | archived cases count as coverage, and covered may exceed the total, since the two are counted in parallel | `docs/technical-debt.md:292`, `docs/traceability-model.md:69` |

*Seen while modelling*, where the models follow the code. An archived project
still takes requirements, cases and defects, where the documentation calls it
read-only (`docs/permissions-matrix.md:125`). A crash between the new hash and the
sweep of a password change leaves the sessions of the old password alive
(`auth.service.ts:198`): `swept` is set by the sweep, so `PasswordCutoff` asks
nothing before it. The results recorded after a run's deletion has read their ids
keep their links (`test-runs.service.ts:182`). An organization is created before its
audit entry is written, and the entry may be refused or lost; of a creation,
`AuditTellsWhatCommitted` asks for an entry only of requirements. After an
acceptance the page selects `organization.id` from an answer that has an
`organizationId` (`OrganizationsPage.tsx:40`, `invitations.service.ts:254`), so the
organization just joined is not the one stored. A grant needs only equal rank, so
an appointee can narrow the project role of the person who appointed them.
`recordResult` compares the organization role, not the project one. The role
lists of some controllers differ from `permissions-matrix.md` (deletions by a QA
lead, links by a tester). "Worst outcome across every run"
(`traceability.contracts.ts:65`) is the latest by `updatedAt`. Query keys of
members, invitations and the projects page do not name the organization, so a
switch shows the old list until it is fetched again.

## What is not modelled

* The lockout counter: wrong passwords and the clock would multiply the states
  of Sessions, and no other property reads them. Its two statements are listed
  as a hazard.
* The composition of registration with the acceptance of its invitation: each
  half may stop where the other begins, in Sessions and Membership.
* Name and plan of an organization, profile fields, run progress, listings,
  search and pagination, and the figures of the dashboard other than coverage:
  reads, or writes no other state depends on.
* Field contents, comments, positions and formatting are abstracted to what the
  properties tell apart, as the head of each module says.
* Signing, hashing and the parsing of cookies and durations are taken to work.
* Configuration, health, error formatting, the integrations (adapters that do
  nothing), the shared input schemas and the pages keep no state of their own.

## The plan

1. **Proofs**: of the abstract specifications below, as they are written.
2. **Lockout**, with a clock of a few ticks, beside Sessions.
3. **Abstract specifications**: a session store whose rotation is one atomic step
   from read to write, implemented by Sessions when refreshes do not overlap; the
   life cycle of a run, implemented by TestRuns under the same condition.
4. **Pure algorithms**: progress counts, pages and durations against reference
   definitions on bounded inputs.
