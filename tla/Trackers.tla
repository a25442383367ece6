------------------------------ MODULE Trackers ------------------------------
(***************************************************************************)
(* Requirements and defects: modules/requirements/requirements.service.ts  *)
(* and modules/defects/defects.service.ts over their repositories.  Both   *)
(* have a key numbered per project, a status workflow and a soft delete; a *)
(* requirement keeps every version of its text, a defect the dates of its  *)
(* resolution and closing.                                                 *)
(*                                                                         *)
(* A request is a process: the handler's read, then one action per         *)
(* transaction, or two where another request can commit in between.  A row *)
(* written by an open transaction is locked until it ends.                 *)
(*                                                                         *)
(* Data abstraction.  Text stands for every field but the status.  A check *)
(* that refuses a request (the project, the assignee, the origin of a      *)
(* defect) is the request's Crash.  The links a defect is created with are *)
(* in Traceability.                                                        *)
(***************************************************************************)
EXTENDS Naturals, Sequences

CONSTANTS
    Item,        \* rows of the two tables
    Request,     \* HTTP requests handled at once
    Text,        \* what a requirement or a defect says
    Nothing,     \* the item of an idle request, the text of no row
    MaxServed    \* bound: requests that are ever begun

ASSUME TrackersAssumption ==
    /\ Nothing \notin Item \cup Text
    /\ MaxServed \in Nat

VARIABLES
    counters,   \* projects.requirement_counter and defect_counter
    items,      \* the requirements and defects tables
    versions,   \* the requirement_versions table
    requests,   \* what each in-flight request is about to do
    served,     \* number of requests begun so far
    past,       \* history: the statuses each item has had
    overtaken   \* history: items moved from a status other than the one read

vars == <<counters, items, versions, requests, served, past, overtaken>>

RequirementFlow ==
    [draft       |-> {"in_review", "obsolete"},
     in_review   |-> {"draft", "approved", "obsolete"},
     approved    |-> {"in_review", "implemented", "obsolete"},
     implemented |-> {"approved", "obsolete"},
     obsolete    |-> {"draft"}]

DefectFlow ==
    [open        |-> {"triaged", "in_progress", "rejected"},
     triaged     |-> {"in_progress", "rejected", "open"},
     in_progress |-> {"resolved", "triaged", "rejected"},
     resolved    |-> {"closed", "reopened"},
     closed      |-> {"reopened"},
     rejected    |-> {"reopened"},
     reopened    |-> {"triaged", "in_progress", "rejected"}]

Kind == {"requirement", "defect"}
Flow == [requirement |-> RequirementFlow, defect |-> DefectFlow]
Start == [requirement |-> "draft", defect |-> "open"]
Status == UNION {DOMAIN Flow[k] : k \in Kind}

Row == [kind: Kind \cup {"none"}, key: Nat, status: Status \cup {"none"},
        text: Text \cup {Nothing}, resolvedAt: BOOLEAN, closedAt: BOOLEAN,
        live: BOOLEAN]

NoRow == [kind |-> "none", key |-> 0, status |-> "none", text |-> Nothing,
          resolvedAt |-> FALSE, closedAt |-> FALSE, live |-> FALSE]

Snapshot == [status: Status, text: Text]
snapshotOf(row) == [status |-> row.status, text |-> row.text]

Step == {"idle", "insert", "requirement_write", "append_version",
         "defect_write", "remove"}

RequestState == [pc: Step, item: Item \cup {Nothing}, seen: Snapshot \cup {Nothing},
                 goal: Status \cup Text \cup Kind \cup {Nothing}]

Idle == [pc |-> "idle", item |-> Nothing, seen |-> Nothing, goal |-> Nothing]

TypeOK ==
    /\ counters \in [Kind -> Nat]
    /\ items \in [Item -> Row]
    /\ \A i \in Item : items[i] # NoRow => items[i].status \in DOMAIN Flow[items[i].kind]
    /\ versions \in [Item -> Seq(Snapshot)]
    /\ requests \in [Request -> RequestState]
    /\ served \in 0..MaxServed
    /\ past \in [Item -> SUBSET Status]
    /\ overtaken \subseteq Item

Init ==
    /\ counters = [k \in Kind |-> 0]
    /\ items = [i \in Item |-> NoRow]
    /\ versions = [i \in Item |-> <<>>]
    /\ requests = [r \in Request |-> Idle]
    /\ served = 0
    /\ past = [i \in Item |-> {}]
    /\ overtaken = {}

-----------------------------------------------------------------------------
Begin(r, request) ==
    /\ requests[r].pc = "idle"
    /\ served < MaxServed
    /\ served' = served + 1
    /\ requests' = [requests EXCEPT ![r] = request]

Goto(r, next) == requests' = [requests EXCEPT ![r].pc = next] /\ UNCHANGED served
Finish(r) == requests' = [requests EXCEPT ![r] = Idle] /\ UNCHANGED served

\* What the database holds locked for the transactions that are open.
ProjectLocked == \E r \in Request : requests[r].pc = "insert"
RowLocked(i) ==
    \E r \in Request : requests[r].pc = "append_version" /\ requests[r].item = i

\* The read both handlers start with, which remembers what it found.
Require(r, i, kind, next, goal) ==
    /\ items[i].kind = kind /\ items[i].live
    /\ Begin(r, [pc |-> next, item |-> i, seen |-> snapshotOf(items[i]), goal |-> goal])
    /\ UNCHANGED <<counters, items, versions, past, overtaken>>

\* The status of a row and what follows from it in the history.
Moved(r, row) ==
    LET i == requests[r].item IN
    /\ items' = [items EXCEPT ![i] = row]
    /\ past' = [past EXCEPT ![i] = @ \cup {row.status}]
    /\ overtaken' = IF row.status = items[i].status
                       \/ items[i].status = requests[r].seen.status
                    THEN overtaken ELSE overtaken \cup {i}

-----------------------------------------------------------------------------
(* create: the key is reserved, and the row written, in one transaction.   *)

\* Mutant: the counter is incremented by a transaction of its own.
ReserveApart(r, kind) ==
    /\ ~ProjectLocked
    /\ counters' = [counters EXCEPT ![kind] = @ + 1]
    /\ Begin(r, [Idle EXCEPT !.pc = "insert", !.goal = kind])
    /\ UNCHANGED <<items, versions, past, overtaken>>

\* nextKey: the incremented counter is seen by nobody else until the commit.
Reserve(r, kind) ==
    /\ ~ProjectLocked
    /\ Begin(r, [Idle EXCEPT !.pc = "insert", !.goal = kind])
    /\ UNCHANGED <<counters, items, versions, past, overtaken>>

\* Mutant: every row starts as a defect does.
CreatedOpen(kind, text) ==
    [NoRow EXCEPT !.kind = kind, !.key = counters[kind] + 1, !.status = "open",
                  !.text = text, !.live = TRUE]

Created(kind, text) ==
    [NoRow EXCEPT !.kind = kind, !.key = counters[kind] + 1, !.status = Start[kind],
                  !.text = text, !.live = TRUE]

\* The commit: the counter, the row and a requirement's first version.
Create(r, i, text) ==
    LET kind == requests[r].goal
        row  == Created(kind, text)
    IN
    /\ requests[r].pc = "insert"
    /\ items[i] = NoRow
    /\ counters' = [counters EXCEPT ![kind] = @ + 1]
    /\ items' = [items EXCEPT ![i] = row]
    /\ versions' = [versions EXCEPT ![i] =
            IF kind = "requirement" THEN <<snapshotOf(row)>> ELSE <<>>]
    /\ past' = [past EXCEPT ![i] = {row.status}]
    /\ Finish(r)
    /\ UNCHANGED overtaken

-----------------------------------------------------------------------------
(* Requirements: the write and the version it appends are one transaction. *)

UpdateRequirement(r, i, text) ==
    Require(r, i, "requirement", "requirement_write", text)

\* The status a requirement has already is answered without a write.
ChangeRequirementStatus(r, i, to) ==
    /\ items[i].kind = "requirement"
    /\ to \in RequirementFlow[items[i].status]
    /\ Require(r, i, "requirement", "requirement_write", to)

\* updateMany locks the row; a row deleted meanwhile rolls the transaction back.
RequirementWrite(r) ==
    LET i == requests[r].item IN
    /\ requests[r].pc = "requirement_write"
    /\ ~RowLocked(i)
    /\ IF items[i].live THEN Goto(r, "append_version") ELSE Finish(r)
    /\ UNCHANGED <<counters, items, versions, past, overtaken>>

Rewritten(row, goal) ==
    IF goal \in Text THEN [row EXCEPT !.text = goal] ELSE [row EXCEPT !.status = goal]

\* Mutant: the snapshot is of the row the handler read, with its change.
AppendStaleVersion(r) ==
    LET i   == requests[r].item
        row == Rewritten(items[i], requests[r].goal)
    IN
    /\ requests[r].pc = "append_version"
    /\ versions' = [versions EXCEPT ![i] =
            Append(@, Rewritten(requests[r].seen, requests[r].goal))]
    /\ Moved(r, row)
    /\ Finish(r)
    /\ UNCHANGED counters

\* appendVersion numbers the row after those it counts, under the row's lock.
AppendVersion(r) ==
    LET i   == requests[r].item
        row == Rewritten(items[i], requests[r].goal)
    IN
    /\ requests[r].pc = "append_version"
    /\ versions' = [versions EXCEPT ![i] = Append(@, snapshotOf(row))]
    /\ Moved(r, row)
    /\ Finish(r)
    /\ UNCHANGED counters

-----------------------------------------------------------------------------
(* Defects: a write is one statement.                                      *)

UpdateDefect(r, i, text) == Require(r, i, "defect", "defect_write", text)

\* Mutant: all that is refused is the status the defect has already.
ChangeDefectStatusFreely(r, i, to) ==
    /\ items[i].kind = "defect"
    /\ to \in DOMAIN DefectFlow \ {items[i].status}
    /\ Require(r, i, "defect", "defect_write", to)

\* The status a defect has already is refused; no status is listed after itself.
ChangeDefectStatus(r, i, to) ==
    /\ items[i].kind = "defect"
    /\ to \in DefectFlow[items[i].status]
    /\ Require(r, i, "defect", "defect_write", to)

\* Mutant: a reopened defect keeps the dates of its first life.
DatedForGood(row, to) ==
    [row EXCEPT !.status = to,
                !.resolvedAt = @ \/ to = "resolved",
                !.closedAt = @ \/ to \in {"closed", "rejected"}]

Dated(row, to) ==
    [row EXCEPT !.status = to,
                !.resolvedAt = to # "reopened" /\ (@ \/ to = "resolved"),
                !.closedAt = to # "reopened" /\ (@ \/ to \in {"closed", "rejected"})]

DefectWrite(r) ==
    LET i    == requests[r].item
        goal == requests[r].goal
    IN
    /\ requests[r].pc = "defect_write"
    /\ IF items[i].live
       THEN Moved(r, IF goal \in Text THEN Rewritten(items[i], goal)
                     ELSE Dated(items[i], goal))
       ELSE UNCHANGED <<items, past, overtaken>>
    /\ Finish(r)
    /\ UNCHANGED <<counters, versions>>

-----------------------------------------------------------------------------
(* remove, of either kind.                                                 *)

Remove(r, i) == \E kind \in Kind : Require(r, i, kind, "remove", Nothing)

\* softDelete: the row stays, and so does its key.
SoftDelete(r) ==
    LET i == requests[r].item IN
    /\ requests[r].pc = "remove"
    /\ ~RowLocked(i)
    /\ items' = [items EXCEPT ![i].live = FALSE]
    /\ Finish(r)
    /\ UNCHANGED <<counters, versions, past, overtaken>>

\* The server dies, a statement fails, or a check refuses the request: what its
\* transaction had written is gone.
Crash(r) ==
    /\ requests[r].pc # "idle"
    /\ Finish(r)
    /\ UNCHANGED <<counters, items, versions, past, overtaken>>

Read(r) ==
    \/ \E kind \in Kind : Reserve(r, kind)
    \/ \E i \in Item :
          \/ Remove(r, i)
          \/ \E t \in Text : UpdateRequirement(r, i, t) \/ UpdateDefect(r, i, t)
          \/ \E to \in Status : ChangeRequirementStatus(r, i, to) \/ ChangeDefectStatus(r, i, to)

Continue(r) ==
    \/ \E i \in Item, t \in Text : Create(r, i, t)
    \/ RequirementWrite(r) \/ AppendVersion(r) \/ DefectWrite(r) \/ SoftDelete(r)

Next == \E r \in Request : Read(r) \/ Continue(r) \/ Crash(r)

Spec == Init /\ [][Next]_vars

-----------------------------------------------------------------------------
(* Properties *)

\* What the workflow of each service promises although a move may overtake
\* another: a status is listed after one the item has had.  So a requirement is
\* implemented only if it was once approved, whatever the order its moves commit.
Stages == INSTANCE Workflow WITH
    Start <- {Start[k] : k \in Kind},
    Listed <- [s \in Status |-> IF s \in DOMAIN RequirementFlow
                                THEN RequirementFlow[s] ELSE DefectFlow[s]]
FollowsWorkflow == Stages!Spec

\* "A version row describes what the requirement said": the last version is the
\* row as it stands, and every status in the history is listed after one before
\* it, whichever edits and moves overlapped.
VersionsTellTheRow ==
    \A i \in Item : items[i].kind = "requirement" =>
        /\ versions[i] # <<>>
        /\ versions[i][Len(versions[i])] = snapshotOf(items[i])
        /\ \A n \in 2..Len(versions[i]) :
              \/ versions[i][n].status = versions[i][n - 1].status
              \/ \E m \in 1..(n - 1) :
                    versions[i][n].status \in RequirementFlow[versions[i][m].status]

\* The dates of a defect measure its current life: they follow from its status
\* unless one move overtook another, and then a finished defect still has the
\* date it finished.
DatesTellTheStatus ==
    \A i \in Item : items[i].kind = "defect" =>
        LET d == items[i] IN
        /\ d.status \in {"closed", "rejected"} => d.closedAt
        /\ d.status = "resolved" => d.resolvedAt
        /\ i \notin overtaken =>
              /\ d.closedAt <=> d.status \in {"closed", "rejected"}
              /\ d.resolvedAt <=> d.status \in {"resolved", "closed"}

\* "A failed create leaves [no] permanent hole in the numbering": the keys of a
\* project are the numbers up to its counter, each given once, deleted ones
\* included.
KeysHaveNoHoles ==
    \A kind \in Kind : \A n \in 1..counters[kind] :
        \E i \in Item : items[i].kind = kind /\ items[i].key = n
            /\ \A j \in Item \ {i} : items[j].kind = kind => items[j].key # n
=============================================================================
