---------------------------- MODULE Traceability ----------------------------
(***************************************************************************)
(* Traceability links, the coverage matrix and the dashboard's coverage of *)
(* one project: modules/traceability, modules/dashboard, the deletions of  *)
(* requirements, defects, cases and suites that purge links, and the       *)
(* creation of defects, which makes some.                                  *)
(*                                                                         *)
(* A link has no foreign key to its ends.  Each handler is a process: one  *)
(* action per statement, or per transaction where only its commit can be   *)
(* told from outside.  A deletion is two: what it has deleted and purged   *)
(* is locked by it, and there for all others to read, until it commits.    *)
(* A report is read by a process of its own, in queries of no common       *)
(* transaction.                                                            *)
(*                                                                         *)
(* Data abstraction.  All cases are in one suite.  aside is what takes a   *)
(* live row out of the matrix: an obsolete requirement, an archived case,  *)
(* a closed or rejected defect; Trackers and TestDesign say how it moves.  *)
(* Links into runs and results are in TestRuns.  The order of the rows and *)
(* the project's percentages are left out.                                 *)
(***************************************************************************)
EXTENDS Naturals

CONSTANTS
    Requirement, Case, Defect,
    Request,     \* HTTP requests that change something, handled at once
    Nothing,     \* the link or row of an idle request
    MaxServed    \* bound: changes ever begun

ASSUME TraceabilityAssumption ==
    /\ Requirement \cap Case = {} /\ Case \cap Defect = {} /\ Defect \cap Requirement = {}
    /\ Nothing \notin Requirement \cup Case \cup Defect
    /\ MaxServed \in Nat

Thing == Requirement \cup Case \cup Defect

\* The two shapes of link the matrix reads.
Linkable == (Requirement \X Case) \cup (Defect \X Requirement)

VARIABLES
    things,      \* the rows a link can end at
    suiteLive,   \* whether the suite of the cases is not deleted
    latest,      \* the last verdict recorded for each case, in any run
    links,       \* the traceability_links table
    made,        \* number of links created so far
    requests,    \* what each in-flight request is about to do
    served,      \* number of changes begun so far
    report,      \* what the matrix or the dashboard being computed has read
    steady,      \* history: requirements nothing about which changed meanwhile
    missed       \* history: cases deleted with their suite but not purged

vars == <<things, suiteLive, latest, links, made, requests, served, report,
          steady, missed>>
data == <<things, suiteLive, latest, links, made, missed>>

Verdict == {"untested", "passed", "failed"}
Absent == [life |-> "absent", aside |-> FALSE]
Fresh  == [life |-> "live", aside |-> FALSE]
Live(t) == things[t].life = "live"

\* sound: no deletion of an end had come between its check and the insertion.
Link == [id: Nat, source: Thing, target: Thing, sound: BOOLEAN]
Between(s, t) == {l \in links : l.source = s /\ l.target = t}
Touching(ends) == {l \in links : l.source \in ends \/ l.target \in ends}

Step == {"idle", "locate_target", "find", "insert", "unlink_source",
         "unlink_target", "unlink", "remove", "remove_commit", "suite_ids",
         "suite_purge", "suite_commit", "case_insert", "defect_insert"}

RequestState == [pc: Step, source: Thing \cup {Nothing}, target: Thing \cup {Nothing},
                 id: Nat, ids: SUBSET Thing,
                 doomed: SUBSET Thing, purged: SUBSET Link,  \* written, not committed
                 overtaken: BOOLEAN]  \* history: an end it had located was deleted
Idle == [pc |-> "idle", source |-> Nothing, target |-> Nothing, id |-> 0, ids |-> {},
         doomed |-> {}, purged |-> {}, overtaken |-> FALSE]

\* What the deletions in progress hold locked.
Doomed == UNION {requests[r].doomed : r \in Request}
Purging == UNION {requests[r].purged : r \in Request}

Query == {"cases", "statuses", "defects"}
Aggregate == {"count", "find", "group"}
Report == [pc: {"idle", "case_links", "defect_links", "lookups", "done",
                "aggregates", "counted"},
           requirements: SUBSET Requirement,
           counted: SUBSET Requirement,
           covered: SUBSET Requirement,
           caseLinks: SUBSET (Requirement \X Case),
           defectLinks: SUBSET (Defect \X Requirement),
           left: SUBSET (Query \cup Aggregate),
           cases: SUBSET Case, archived: SUBSET Case,
           passed: SUBSET Case, open: SUBSET Defect]
NoReport == [pc |-> "idle", requirements |-> {}, counted |-> {}, covered |-> {},
             caseLinks |-> {}, defectLinks |-> {}, left |-> {},
             cases |-> {}, archived |-> {}, passed |-> {}, open |-> {}]

TypeOK ==
    /\ things \in [Thing -> [life: {"absent", "live", "deleted"}, aside: BOOLEAN]]
    /\ suiteLive \in BOOLEAN
    /\ latest \in [Case -> Verdict]
    /\ links \subseteq Link
    /\ \A k, l \in links : k.source = l.source /\ k.target = l.target => k = l
    /\ made \in Nat
    /\ requests \in [Request -> RequestState]
    /\ served \in 0..MaxServed
    /\ report \in Report
    /\ steady \subseteq Requirement
    /\ missed \subseteq Case

\* The requirements, and some cases and defects, none of them linked yet.
Init ==
    /\ \E new \in SUBSET (Case \cup Defect) :
          things = [t \in Thing |-> IF t \in new THEN Absent ELSE Fresh]
    /\ suiteLive = TRUE
    /\ latest = [c \in Case |-> "untested"]
    /\ links = {}
    /\ made = 0
    /\ requests = [r \in Request |-> Idle]
    /\ served = 0
    /\ report = NoReport
    /\ steady = {}
    /\ missed = {}

-----------------------------------------------------------------------------
Count == served < MaxServed /\ served' = served + 1

Begin(r, request) ==
    /\ requests[r].pc = "idle"
    /\ Count
    /\ requests' = [requests EXCEPT ![r] = request]

Finish(r) == requests' = [requests EXCEPT ![r] = Idle] /\ UNCHANGED served
Check(r, ok, next) ==
    /\ requests' = [requests EXCEPT ![r] = IF ok THEN [@ EXCEPT !.pc = next] ELSE Idle]
    /\ UNCHANGED <<served, data>>

\* Mutant: a purge looks at the source of a link only.
PurgedForward(ends) == {l \in links : l.source \in ends}

\* purgeFor, in the deleting transaction.
Purged(ends) == Touching(ends)

-----------------------------------------------------------------------------
(* createLink: each end is located, the pair is looked up, then inserted.  *)

CreateLink(r, s, t) ==
    /\ Live(s)
    /\ Begin(r, [Idle EXCEPT !.pc = "locate_target", !.source = s, !.target = t])
    /\ UNCHANGED data

LocateTarget(r) ==
    /\ requests[r].pc = "locate_target"
    /\ Check(r, Live(requests[r].target), "find")

FindLink(r) ==
    /\ requests[r].pc = "find"
    /\ Check(r, Between(requests[r].source, requests[r].target) = {}, "insert")

NewLink(r) ==
    LET s == requests[r].source
        t == requests[r].target
    IN [id |-> made + 1, source |-> s, target |-> t,
        sound |-> ~requests[r].overtaken /\ s \notin Doomed /\ t \notin Doomed]

\* Mutant: the table has no unique index.
InsertLinkAgain(r) ==
    /\ requests[r].pc = "insert"
    /\ made' = made + 1
    /\ links' = links \cup {NewLink(r)}
    /\ Finish(r)
    /\ UNCHANGED <<things, suiteLive, latest, missed>>

\* The unique index refuses a pair linked since it was looked up, and waits for a
\* transaction that is purging the link of the pair.
InsertLink(r) ==
    LET old == Between(requests[r].source, requests[r].target) IN
    /\ requests[r].pc = "insert"
    /\ old \cap Purging = {}
    /\ IF old = {}
       THEN made' = made + 1 /\ links' = links \cup {NewLink(r)}
       ELSE UNCHANGED <<made, links>>
    /\ Finish(r)
    /\ UNCHANGED <<things, suiteLive, latest, missed>>

-----------------------------------------------------------------------------
(* removeLink: the link is found by its id, both ends are located.         *)

RemoveLink(r, l) ==
    /\ l \in links
    /\ Begin(r, [Idle EXCEPT !.pc = "unlink_source", !.source = l.source,
                             !.target = l.target, !.id = l.id])
    /\ UNCHANGED data

UnlinkSource(r) ==
    /\ requests[r].pc = "unlink_source"
    /\ Check(r, Live(requests[r].source), "unlink_target")

UnlinkTarget(r) ==
    /\ requests[r].pc = "unlink_target"
    /\ Check(r, Live(requests[r].target), "unlink")

\* The links of one defect share an id, here only; the row is the one that was found.
Found(r) == {l \in Between(requests[r].source, requests[r].target) : l.id = requests[r].id}

DeleteLink(r) ==
    /\ requests[r].pc = "unlink"
    /\ Found(r) \cap Purging = {}
    /\ links' = links \ Found(r)
    /\ Finish(r)
    /\ UNCHANGED <<things, suiteLive, latest, made, missed>>

-----------------------------------------------------------------------------
(* The deletions.  Each reads what it deletes before its transaction: the  *)
(* rows are deleted and their links purged, then an audit entry is written *)
(* and the transaction commits.                                            *)

Remove(r, t) ==
    /\ Live(t)
    /\ Begin(r, [Idle EXCEPT !.pc = "remove", !.source = t])
    /\ UNCHANGED data

\* softDelete and purgeFor wait for what other deletions hold; the transaction is
\* rolled back when there is nothing left to delete.
Delete(r, some, rows, ends, next) ==
    /\ rows \cap Doomed = {}
    /\ Purged(ends) \cap Purging = {}
    /\ requests' = [requests EXCEPT ![r] = IF some
            THEN [@ EXCEPT !.pc = next, !.doomed = rows, !.purged = Purged(ends)]
            ELSE Idle]
    /\ UNCHANGED <<served, data>>

RemovePurge(r) ==
    LET t == requests[r].source IN
    /\ requests[r].pc = "remove"
    /\ Delete(r, Live(t), {t}, {t}, "remove_commit")

\* The ends that a request to link them has located so far.
Checked(q) == CASE q.pc = "locate_target" -> {q.source}
                [] q.pc \in {"find", "insert"} -> {q.source, q.target}
                [] OTHER -> {}

\* What a deletion has written takes effect.
Commit(r) ==
    LET gone == requests[r].doomed IN
    /\ things' = [t \in Thing |->
            IF t \in gone THEN [things[t] EXCEPT !.life = "deleted"] ELSE things[t]]
    /\ links' = links \ requests[r].purged
    /\ requests' = [q \in Request |-> IF q = r THEN Idle ELSE
            [requests[q] EXCEPT !.overtaken = @ \/ Checked(requests[q]) \cap gone # {}]]
    /\ UNCHANGED <<served, latest, made>>

RemoveCommit(r) ==
    /\ requests[r].pc = "remove_commit"
    /\ Commit(r)
    /\ UNCHANGED <<suiteLive, missed>>

LiveCases == {c \in Case : Live(c)}

DeleteSuite(r) ==
    /\ suiteLive
    /\ Begin(r, [Idle EXCEPT !.pc = "suite_ids"])
    /\ UNCHANGED data

\* softDeleteSuite lists the ids it returns before it deletes the suite's cases.
SuiteIds(r) ==
    /\ requests[r].pc = "suite_ids"
    /\ requests' = [requests EXCEPT ![r] = [@ EXCEPT !.pc = "suite_purge", !.ids = LiveCases]]
    /\ UNCHANGED <<served, data>>

\* The suite is locked, then its cases, whichever these are by now.
SuitePurge(r) ==
    /\ requests[r].pc = "suite_purge"
    /\ \A q \in Request : requests[q].pc # "suite_commit"
    /\ Delete(r, suiteLive, LiveCases, requests[r].ids, "suite_commit")

SuiteCommit(r) ==
    /\ requests[r].pc = "suite_commit"
    /\ Commit(r)
    /\ suiteLive' = FALSE
    /\ missed' = missed \cup (requests[r].doomed \ requests[r].ids)

-----------------------------------------------------------------------------
(* The creations.                                                          *)

CreateCase(r) ==
    /\ suiteLive
    /\ Begin(r, [Idle EXCEPT !.pc = "case_insert"])
    /\ UNCHANGED data

CaseInsert(r, c) ==
    /\ requests[r].pc = "case_insert"
    /\ things[c] = Absent
    /\ things' = [things EXCEPT ![c] = Fresh]
    /\ Finish(r)
    /\ UNCHANGED <<suiteLive, latest, links, made, missed>>

CreateDefect(r, about) ==
    /\ Begin(r, [Idle EXCEPT !.pc = "defect_insert", !.ids = about])
    /\ UNCHANGED data

\* One transaction, that reads nothing and shows with its commit; nobody looks up
\* the requirements the client names.
DefectInsert(r, d) ==
    /\ requests[r].pc = "defect_insert"
    /\ things[d] = Absent
    /\ things' = [things EXCEPT ![d] = Fresh]
    /\ made' = made + 1
    /\ links' = links \cup {[id |-> made + 1, source |-> d, target |-> q,
                                sound |-> Live(q) /\ q \notin Doomed] : q \in requests[r].ids}
    /\ Finish(r)
    /\ UNCHANGED <<suiteLive, latest, missed>>

\* Statuses, archiving and verdicts move by the handlers of the other modules; the
\* update of a row waits for the deletion that holds it.
SetAside(t) ==
    /\ Live(t)
    /\ t \notin Doomed
    /\ Count
    /\ things' = [things EXCEPT ![t].aside = ~@]
    /\ UNCHANGED <<suiteLive, latest, links, made, requests, missed>>

Record(c, verdict) ==
    /\ things[c].life # "absent"
    /\ Count
    /\ latest' = [latest EXCEPT ![c] = verdict]
    /\ UNCHANGED <<things, suiteLive, links, made, requests, missed>>

Crash(r) ==
    /\ requests[r].pc # "idle"
    /\ Finish(r)
    /\ UNCHANGED data

-----------------------------------------------------------------------------
(* matrix: the requirements, the two kinds of links, then three queries at *)
(* once: the linked cases, their last verdicts, and the defects.           *)

InScope == {q \in Requirement : Live(q) /\ ~things[q].aside}

ReadRequirements ==
    /\ report.pc = "idle"
    /\ report' = [NoReport EXCEPT !.pc = "case_links", !.requirements = InScope]

ReadCaseLinks ==
    /\ report.pc = "case_links"
    /\ report' = [report EXCEPT !.pc = "defect_links",
            !.caseLinks = {e \in Requirement \X Case :
                              e[1] \in report.requirements /\ Between(e[1], e[2]) # {}}]

ReadDefectLinks ==
    /\ report.pc = "defect_links"
    /\ report' = [report EXCEPT !.pc = "lookups", !.left = Query,
            !.defectLinks = {e \in Defect \X Requirement : Between(e[1], e[2]) # {}}]

Linked == {e[2] : e \in report.caseLinks}

\* One of several queries sent at once; the report is ready with the last answer.
Answered(query, answer) ==
    /\ query \in report.left
    /\ report' = [answer EXCEPT !.left = @ \ {query},
            !.pc = IF answer.left # {query} THEN @
                   ELSE IF @ = "lookups" THEN "done" ELSE "counted"]

ReadCases == Answered("cases",
    [report EXCEPT !.cases = Linked \cap LiveCases,
                   !.archived = {c \in Linked \cap LiveCases : things[c].aside}])

ReadStatuses == Answered("statuses",
    [report EXCEPT !.passed = {c \in Linked : latest[c] = "passed"}])

ReadDefects == Answered("defects",
    [report EXCEPT !.open = {d \in Defect : Live(d) /\ ~things[d].aside}])

Respond == report.pc \in {"done", "counted"} /\ report' = NoReport

Matrix == \/ ReadRequirements \/ ReadCaseLinks \/ ReadDefectLinks
          \/ ReadCases \/ ReadStatuses \/ ReadDefects \/ Respond

-----------------------------------------------------------------------------
(* summary of the dashboard, as far as its coverage: the requirements are  *)
(* counted by one query while two others, one after the other, find them   *)
(* again and group the links of those found by requirement.                *)

Summary ==
    /\ report.pc = "idle"
    /\ report' = [NoReport EXCEPT !.pc = "aggregates", !.left = {"count", "find"}]

CountRequirements == Answered("count", [report EXCEPT !.counted = InScope])

FindRequirements ==
    Answered("find", [report EXCEPT !.requirements = InScope,
        !.left = IF InScope = {} THEN @ ELSE @ \cup {"group"}])

HasCase(q) == \E c \in Case : Between(q, c) # {}

\* Mutant: the links are grouped whether or not their requirement was found.
GroupAllLinks == Answered("group", [report EXCEPT !.covered = {q \in Requirement : HasCase(q)}])

GroupLinks ==
    Answered("group", [report EXCEPT !.covered = {q \in report.requirements : HasCase(q)}])

Dashboard == Summary \/ CountRequirements \/ FindRequirements \/ GroupLinks

-----------------------------------------------------------------------------
\* The row of a requirement in the matrix, from what was read.
RowCases(q) == {c \in report.cases : <<q, c>> \in report.caseLinks}
RowDefects(q) == {d \in report.open : <<d, q>> \in report.defectLinks}

\* Mutant: the archived cases of a row count as its tests.
ActiveAll(q) == RowCases(q)

Active(q) == RowCases(q) \ report.archived
Covered(q) == Active(q) # {}
Verified(q) == Covered(q) /\ Active(q) \subseteq report.passed /\ RowDefects(q) = {}

-----------------------------------------------------------------------------
Start(r) ==
    \/ \E e \in Linkable : CreateLink(r, e[1], e[2])
    \/ \E l \in links : RemoveLink(r, l)
    \/ \E t \in Thing : Remove(r, t)
    \/ \E about \in SUBSET Requirement : CreateDefect(r, about)
    \/ DeleteSuite(r) \/ CreateCase(r)

Continue(r) ==
    \/ LocateTarget(r) \/ FindLink(r) \/ InsertLink(r)
    \/ UnlinkSource(r) \/ UnlinkTarget(r) \/ DeleteLink(r)
    \/ RemovePurge(r) \/ RemoveCommit(r)
    \/ SuiteIds(r) \/ SuitePurge(r) \/ SuiteCommit(r)
    \/ \E c \in Case : CaseInsert(r, c)
    \/ \E d \in Defect : DefectInsert(r, d)

Change ==
    \/ \E r \in Request : Start(r) \/ Continue(r) \/ Crash(r)
    \/ \E t \in Thing : SetAside(t)
    \/ \E c \in Case, v \in Verdict \ {"untested"} : Record(c, v)

\* All that the row of a requirement rests on.
Evidence(q) ==
    <<things[q], {<<l, things[l.source], things[l.target],
                    IF l.target \in Case THEN latest[l.target] ELSE "untested">> :
                  l \in Touching({q})}>>

\* What the history remembers of a step: the requirements it left as they were.
Watch ==
    steady' = IF report'.pc = "idle" THEN {}
              ELSE IF report.pc = "idle" THEN Requirement
              ELSE {q \in steady : Evidence(q)' = Evidence(q)}

\* The rows are computed, and sent, from the answers as soon as they are there.
Next ==
    /\ \/ report.pc \notin {"done", "counted"} /\ Change /\ UNCHANGED report
       \/ (Matrix \/ Dashboard) /\ UNCHANGED <<data, requests, served>>
    /\ Watch

Spec == Init /\ [][Next]_vars

-----------------------------------------------------------------------------
(* Properties *)

\* "A link to a deleted requirement is not history, it is a claim about coverage
\* that nothing backs": a link is gone when one of its ends is, by whichever
\* deletion, however both are interleaved.  Three links are not, and docs say that
\* none is ("Nothing survives its endpoint"): one whose end was being deleted, its
\* links purged already, or had been deleted, when the insertion came, after both
\* ends had been located; one from a new defect to a requirement in that state,
\* which nothing locates; and one to a case that was created between the listing of
\* its suite's cases and their deletion.
LinksDieWithTheirEnds ==
    \A l \in links : l.sound =>
        /\ Live(l.source)
        /\ Live(l.target) \/ l.target \in missed

\* A requirement about which nothing changed while the matrix was being read is
\* reported as it is, whatever changed elsewhere between its queries: covered by
\* a live case that is not archived, and verified if all of these passed and no
\* outstanding defect is linked.
MatrixIsExact ==
    report.pc = "done" =>
        \A q \in steady :
            LET tests == {c \in LiveCases : ~things[c].aside /\ Between(q, c) # {}}
                broken == {d \in Defect : Live(d) /\ ~things[d].aside /\ Between(d, q) # {}}
            IN
            /\ q \in report.requirements <=> Live(q) /\ ~things[q].aside
            /\ q \in report.requirements =>
                  /\ Covered(q) <=> tests # {}
                  /\ Verified(q) <=> /\ tests # {} /\ broken = {}
                                     /\ \A c \in tests : latest[c] = "passed"

\* The dashboard counts such a requirement where it belongs too, by its own
\* definition: covered by a link to any case, archived ones included, and
\* counted as covered only if it is counted at all.
DashboardIsExact ==
    report.pc = "counted" =>
        \A q \in steady :
            LET counts == Live(q) /\ ~things[q].aside IN
            /\ q \in report.counted <=> counts
            /\ q \in report.covered <=> counts /\ HasCase(q)
=============================================================================
