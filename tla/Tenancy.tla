------------------------------- MODULE Tenancy -------------------------------
(***************************************************************************)
(* The active organization, from the tab that shows it to the row it ends  *)
(* up in: web/src/auth, api/http-client and the screens that use them,     *)
(* ActiveOrganizationGuard, database/ and audit/ of the API, and the       *)
(* row-level-security migration.                                           *)
(*                                                                         *)
(* Every tab of a browser shows an organization of its own, and all of     *)
(* them keep their choice in the one localStorage, which each call reads   *)
(* when it is sent.  The API keeps the organization of a call in its       *)
(* request context, and announces it on whichever pooled connection the    *)
(* call borrows, for one statement or one transaction.  It runs as         *)
(* qaflow_app, which the policies apply to.                                *)
(*                                                                         *)
(* Data abstraction.  One signed-in user; WebClient and Sessions say how   *)
(* long.  A tab has one call in flight.  Projects, requirements and        *)
(* everything below them are changes, told apart by the organization they  *)
(* are in; only the organization of a tab's selected project matters.      *)
(* Roles and removals are in Access, invitations and owners in Membership. *)
(***************************************************************************)
EXTENDS Naturals

CONSTANTS
    Organization, Tab,
    Connection,  \* the connections of the API's pool
    Nobody,      \* no organization, or no tab
    MaxServed    \* bound: changes ever asked for

ASSUME TenancyAssumption ==
    /\ Nobody \notin Organization \cup Tab
    /\ MaxServed \in Nat

VARIABLES
    stored,      \* localStorage: the active organization and, as history, who chose it
    tabs,        \* what each tab shows
    standing,    \* where the user stands in each organization
    connections, \* the setting of each connection and the call whose transaction it runs
    calls,       \* each tab's call
    served,      \* number of changes asked for so far
    changes,     \* committed changes
    entries,     \* the audit log
    leaks,       \* history: statements that ran under a setting not their request's
    refused      \* history: calls with an organization a policy refused a statement of

vars == <<stored, tabs, standing, connections, calls,
          served, changes, entries, leaks, refused>>
browser == <<stored, tabs>>
log == <<changes, entries>>
history == <<leaks, refused>>

Scope == Organization \cup {Nobody}

Scoped == {"list_projects", "create_project", "create_requirement"}
Unscoped == {"create_organization", "accept"}

\* project: the organization of the selected project, none until its list is read.
TabState == [signedIn: BOOLEAN, shows: Scope, project: Scope]
SignedOut == [signedIn |-> FALSE, shows |-> Nobody, project |-> Nobody]
Showing(o) == [signedIn |-> TRUE, shows |-> o, project |-> Nobody]

Pc == {"idle", "sent", "admitted", "begin", "audit", "commit", "audit_after"}

\* target: the organization of the selected project, or the one created or joined.
\* meant: the organization the tab showed when the call was asked for; none once
\* another tab has chosen since, or this one has moved on before it was resent.
CallState == [pc: Pc, kind: Scoped \cup Unscoped, id: Nat, meant: Scope,
              header: Scope, context: Scope, target: Scope]
Idle == [pc |-> "idle", kind |-> "list_projects", id |-> 0, meant |-> Nobody,
         header |-> Nobody, context |-> Nobody, target |-> Nobody]

Change == [id: Nat, kind: Scoped \cup Unscoped, in: Organization, meant: Scope]
Entry == [id: Nat, of: Organization]

\* absent: the organization does not exist.
Standing == {"absent", "invited", "member"}
With(it) == {o \in Organization : standing[o] = it}

TypeOK ==
    /\ stored \in [organization: Scope, by: Tab \cup {Nobody}]
    /\ tabs \in [Tab -> TabState]
    /\ standing \in [Organization -> Standing]
    /\ connections \in [Connection -> [setting: Scope, by: Tab \cup {Nobody}]]
    /\ calls \in [Tab -> CallState]
    /\ served \in 0..MaxServed
    /\ changes \subseteq Change
    /\ entries \subseteq Entry
    /\ leaks \subseteq (Scope \X Scope)
    /\ refused \subseteq Scoped

\* The user is in an organization at least, and may be invited to others; no tab is open.
Init ==
    /\ standing \in [Organization -> Standing]
    /\ With("member") # {}
    /\ stored = [organization |-> Nobody, by |-> Nobody]
    /\ tabs = [t \in Tab |-> SignedOut]
    /\ connections = [c \in Connection |-> [setting |-> Nobody, by |-> Nobody]]
    /\ calls = [t \in Tab |-> Idle]
    /\ served = 0
    /\ changes = {}
    /\ entries = {}
    /\ leaks = {}
    /\ refused = {}

-----------------------------------------------------------------------------
(* The tabs.                                                               *)

\* setActiveOrganizationId, the only writer of localStorage but for clearSession.
Choose(t, o) == stored' = [organization |-> o, by |-> t]

\* The session is restored, or somebody logs in: the stored organization if it
\* is the user's, else one of his.
Open(t) ==
    /\ ~tabs[t].signedIn
    /\ \E o \in With("member") :
          /\ stored.organization \in With("member") => o = stored.organization
          /\ Choose(t, o)
          /\ tabs' = [tabs EXCEPT ![t] = Showing(o)]
    /\ UNCHANGED <<standing, connections, calls, served, log, history>>

\* Mutant: the choice is kept in the tab's state only.
SelectOrganizationHere(t) ==
    /\ tabs[t].signedIn
    /\ \E o \in With("member") : tabs' = [tabs EXCEPT ![t] = Showing(o)]
    /\ UNCHANGED <<stored, standing, connections, calls, served, log, history>>

SelectOrganization(t) ==
    /\ tabs[t].signedIn
    /\ \E o \in With("member") : Choose(t, o) /\ tabs' = [tabs EXCEPT ![t] = Showing(o)]
    /\ UNCHANGED <<standing, connections, calls, served, log, history>>

\* logout, or a lost session.
SignOut(t) ==
    /\ tabs[t].signedIn
    /\ Choose(t, Nobody)
    /\ tabs' = [tabs EXCEPT ![t] = SignedOut]
    /\ UNCHANGED <<standing, connections, calls, served, log, history>>

\* Closed or reloaded: only what is in localStorage is kept.
Close(t) ==
    /\ tabs' = [tabs EXCEPT ![t] = SignedOut]
    /\ calls[t].pc = "idle"
    /\ UNCHANGED <<stored, standing, connections, calls, served, log, history>>

Meant(t, shown) == IF stored.by = t /\ tabs[t].shows = shown THEN shown ELSE Nobody

\* send: the header is what localStorage holds now, unless the route needs none.
Sent(t, call) ==
    IF call.kind \in Unscoped THEN call
    ELSE [call EXCEPT !.header = stored.organization, !.meant = Meant(t, @)]

\* The project a screen acts on is one of those it was sent for the organization
\* it shows; one may create an organization, or join one by its token.
Targets(t, kind) ==
    CASE kind = "list_projects" -> {tabs[t].shows} \ {Nobody}
      [] kind = "create_project" -> {Nobody}
      [] kind = "create_requirement" -> {tabs[t].project} \ {Nobody}
      [] kind = "create_organization" -> With("absent")
      [] kind = "accept" -> With("invited")

Call(t) ==
    /\ calls[t].pc = "idle"
    /\ tabs[t].signedIn
    /\ \E kind \in Scoped \cup Unscoped : \E o \in Targets(t, kind) :
          IF kind = "list_projects"
          THEN /\ calls' = [calls EXCEPT ![t] = Sent(t,
                      [Idle EXCEPT !.pc = "sent", !.target = o])]
               /\ UNCHANGED served
          ELSE /\ served < MaxServed
               /\ served' = served + 1
               /\ calls' = [calls EXCEPT ![t] = Sent(t,
                      [Idle EXCEPT !.pc = "sent", !.kind = kind, !.id = served',
                                   !.meant = tabs[t].shows, !.target = o])]
    /\ UNCHANGED <<browser, standing, connections, log, history>>

\* Refused with a 401 before it did anything, refreshed and sent again.
Resend(t) ==
    /\ calls[t].pc = "sent"
    /\ calls' = [calls EXCEPT ![t] = Sent(t, @)]
    /\ UNCHANGED <<browser, standing, connections, served, log, history>>

-----------------------------------------------------------------------------
(* The API.                                                                *)

Goto(t, pc) == calls' = [calls EXCEPT ![t].pc = pc]
Finish(t) == calls' = [calls EXCEPT ![t] = Idle]

\* Mutant: a call that names no organization is let through.
AdmitUnnamed(t) ==
    /\ calls[t].pc = "sent"
    /\ IF calls[t].kind \in Unscoped THEN Goto(t, "begin")
       ELSE calls' = [calls EXCEPT ![t].pc = "admitted", ![t].context = calls[t].header]
    /\ UNCHANGED <<browser, standing, connections, served, log, history>>

\* ActiveOrganizationGuard.canActivate.
Admit(t) ==
    /\ calls[t].pc = "sent"
    /\ IF calls[t].kind \in Unscoped THEN Goto(t, "begin")
       ELSE IF calls[t].header \in With("member")
       THEN calls' = [calls EXCEPT ![t].pc = "admitted", ![t].context = calls[t].header]
       ELSE Finish(t)
    /\ UNCHANGED <<browser, standing, connections, served, log, history>>

Free(c) == connections[c].by = Nobody

\* The setting a statement meets on a connection: nothing is set without an
\* organization in the context.
Announced(t, c) ==
    IF calls[t].context = Nobody THEN connections[c].setting ELSE calls[t].context

\* Mutant: set_config with FALSE, for as long as the connection lives.
KeptSetting(announced) == [setting |-> announced, by |-> Nobody]

\* What a connection goes back to the pool with: the setting was local.
Returned(announced) == [setting |-> Nobody, by |-> Nobody]

\* The bookkeeping of a statement on a table with a policy.
Observe(t, announced, allowed) ==
    /\ leaks' = leaks \cup ({<<calls[t].context, announced>>} \ {<<o, o>> : o \in Scope})
    /\ refused' = IF allowed \/ calls[t].context = Nobody THEN refused
                  ELSE refused \cup {calls[t].kind}

\* One statement through the scoped client, in a batch with its set_config.
OnPool(t, c, needs) ==
    /\ Free(c)
    /\ connections' = [connections EXCEPT ![c] = Returned(Announced(t, c))]
    /\ Observe(t, Announced(t, c), needs = Announced(t, c))

\* scope() asks for the rows of the context; the policy shows those announced.
\* The answer is filed under the organization it was asked for.
ListProjects(t, c) ==
    /\ calls[t].pc = "admitted" /\ calls[t].kind = "list_projects"
    /\ OnPool(t, c, calls[t].context)
    /\ tabs' = IF tabs[t].shows = calls[t].target
               THEN [tabs EXCEPT ![t].project = calls[t].context] ELSE tabs
    /\ Finish(t)
    /\ UNCHANGED <<stored, standing, served, log>>

Committed(t, o) == [id |-> calls[t].id, kind |-> calls[t].kind, in |-> o,
                    meant |-> calls[t].meant]
EntryOf(t, o) == [id |-> calls[t].id, of |-> o]

\* ProjectsService.create: the row is inserted by itself, audited afterwards.
InsertProject(t, c) ==
    /\ calls[t].pc = "admitted" /\ calls[t].kind = "create_project"
    /\ OnPool(t, c, calls[t].context)
    /\ changes' = changes \cup {Committed(t, calls[t].context)}
    /\ calls' = [calls EXCEPT ![t].pc = "audit_after", ![t].target = calls[t].context]
    /\ UNCHANGED <<browser, standing, served, entries>>

\* The project a requirement names must be in the organization of the context.
RequireProject(t, c) ==
    /\ calls[t].pc = "admitted" /\ calls[t].kind = "create_requirement"
    /\ OnPool(t, c, calls[t].context)
    /\ IF calls[t].target = calls[t].context THEN Goto(t, "begin") ELSE Finish(t)
    /\ UNCHANGED <<browser, standing, served, log>>

EndTransaction(c) == connections' = [connections EXCEPT ![c] = Returned(@.setting)]

\* runInTransaction and the writes it begins with, on a connection held and, if
\* there is a context, announced to.  Of what they write, only requirements have a
\* policy; an invitation no longer pending, or a name just taken, ends the transaction.
Stands(call) ==
    CASE call.kind = "create_organization" -> call.target \in With("absent")
      [] call.kind = "accept" -> call.target \in With("invited")
      [] OTHER -> TRUE

Begin(t, c) ==
    LET call == calls[t]
        announced == Announced(t, c)
    IN
    /\ call.pc = "begin"
    /\ Free(c)
    /\ IF Stands(call)
       THEN /\ connections' = [connections EXCEPT ![c] = [setting |-> announced, by |-> t]]
            /\ Goto(t, IF call.kind = "create_organization" THEN "commit" ELSE "audit")
       ELSE Finish(t) /\ connections' = [connections EXCEPT ![c] = Returned(announced)]
    /\ IF call.kind = "create_requirement" THEN Observe(t, announced, call.context = announced)
       ELSE UNCHANGED history
    /\ UNCHANGED <<browser, standing, served, log>>

\* Mutant: record is not given the transaction, and commits on a connection of its own.
AuditInsideApart(t, c) ==
    /\ calls[t].pc = "audit" /\ connections[c].by = t
    /\ \E d \in Connection : Free(d) /\ Observe(t, calls[t].context, TRUE)
    /\ entries' = entries \cup {EntryOf(t, calls[t].target)}
    /\ Goto(t, "commit")
    /\ UNCHANGED <<browser, standing, connections, served, changes>>

\* AuditService.record in a transaction: an entry the policy refuses undoes it.
AuditInside(t, c) ==
    LET allowed == calls[t].target = connections[c].setting IN
    /\ calls[t].pc = "audit" /\ connections[c].by = t
    /\ Observe(t, connections[c].setting, allowed)
    /\ IF allowed THEN Goto(t, "commit") /\ UNCHANGED connections
       ELSE Finish(t) /\ EndTransaction(c)
    /\ UNCHANGED <<browser, standing, served, log>>

\* The screen reads the user's organizations again and selects the one its answer
\* names, or none if it takes the name from a field the answer does not have.
Answered(t, o) ==
    IF tabs[t].signedIn
    THEN Choose(t, o) /\ tabs' = [tabs EXCEPT ![t] = Showing(o)]
    ELSE UNCHANGED browser

\* The caller becomes a member of what he creates or joins.  The answer to an
\* acceptance has an organizationId, and the page reads its id.
Commit(t, c) ==
    LET call == calls[t] IN
    /\ call.pc = "commit" /\ connections[c].by = t
    /\ EndTransaction(c)
    /\ IF Stands(call)
       THEN /\ changes' = changes \cup {Committed(t, call.target)}
            /\ entries' = IF call.kind = "create_organization" THEN entries
                          ELSE entries \cup {EntryOf(t, call.target)}
            /\ standing' = IF call.kind \in Unscoped
                           THEN [standing EXCEPT ![call.target] = "member"] ELSE standing
            /\ IF call.kind = "create_organization" THEN Goto(t, "audit_after") ELSE Finish(t)
            /\ IF call.kind = "accept" THEN Answered(t, Nobody) ELSE UNCHANGED browser
       ELSE Finish(t) /\ UNCHANGED <<log, standing, browser>>
    /\ UNCHANGED <<served, history>>

\* AuditService.record outside: a refused entry is logged and forgotten.
AuditAfter(t, c) ==
    LET o == calls[t].target IN
    /\ calls[t].pc = "audit_after"
    /\ OnPool(t, c, o)
    /\ entries' = IF o = Announced(t, c) THEN entries \cup {EntryOf(t, o)} ELSE entries
    /\ Finish(t)
    /\ IF calls[t].kind = "create_organization" THEN Answered(t, o) ELSE UNCHANGED browser
    /\ UNCHANGED <<standing, served, changes>>

\* A failure, or a transaction past its timeout: PostgreSQL rolls it back.
Crash(t) ==
    /\ calls[t].pc # "idle"
    /\ Finish(t)
    /\ connections' = [c \in Connection |->
          IF connections[c].by = t THEN Returned(connections[c].setting) ELSE connections[c]]
    /\ UNCHANGED <<browser, standing, served, log, history>>

-----------------------------------------------------------------------------
Screen(t) == Open(t) \/ SelectOrganization(t) \/ SignOut(t) \/ Close(t) \/ Call(t)
             \/ Resend(t)

Statement(t, c) == ListProjects(t, c) \/ InsertProject(t, c) \/ RequireProject(t, c)
                   \/ Begin(t, c) \/ AuditInside(t, c) \/ Commit(t, c)
                   \/ AuditAfter(t, c)

Next ==
    \/ \E t \in Tab : Screen(t) \/ Admit(t) \/ Crash(t)
    \/ \E t \in Tab, c \in Connection : Statement(t, c)

Spec == Init /\ [][Next]_vars

-----------------------------------------------------------------------------
(* Properties *)

\* "The one bug worse than no RLS": no statement runs under the organization of
\* another request, whatever the connection it borrows was used for before, and
\* no policy stands in the way of a request that has one.
StatementsSeeTheirOwn == leaks = {} /\ refused = {}

\* An entry claims nothing that was rolled back, in the organization it happened
\* in; a requirement is created with its entry or not at all.  The changes audited
\* only after their commit may end without one.
AuditTellsWhatCommitted ==
    /\ \A e \in entries : \E k \in changes : k.id = e.id /\ k.in = e.of
    /\ \A k \in changes : k.kind = "create_requirement" => [id |-> k.id, of |-> k.in] \in entries

\* "The single most dangerous mistake ... is editing the right screen in the
\* wrong tenant": a change is made in the organization the tab showed when the
\* user asked for it, unless another tab has chosen since this one last did, or
\* this one moved on while the call was being retried.
ChangesLandWhereShown ==
    \A k \in changes : k.kind \in Scoped => k.meant \in {k.in, Nobody}

\* "Those flows only touch tables without RLS", says the client of the requests
\* without an active organization, accepting an invitation among them: no policy
\* is about to refuse the entry of one.
OrganizationlessFlowsMeetNoPolicy ==
    \A t \in Tab, c \in Connection :
        calls[t].pc = "audit" /\ connections[c].by = t =>
            connections[c].setting = calls[t].target
=============================================================================
