----------------------------- MODULE TestDesign -----------------------------
(***************************************************************************)
(* Suites, their tree of sections, and test cases with their steps:        *)
(* modules/test-design/test-design.service.ts over its repository.         *)
(*                                                                         *)
(* A request is a process: one action per read, and one per transaction    *)
(* unless its statements can wait for another's.  Only the two handlers    *)
(* that rewrite steps can: a transaction holds what it wrote until it ends, *)
(* and a DELETE removes the steps there were when it began.                *)
(*                                                                         *)
(* Data abstraction.  A list of steps is empty or one of Steps, and any two *)
(* lists that are not empty share a position.  The walk that measures a    *)
(* depth is one read.  Keys are numbered as in Trackers; links are in      *)
(* Traceability, and the snapshots a run takes of a case in TestRuns.      *)
(***************************************************************************)
EXTENDS Naturals, FiniteSets

CONSTANTS
    Suite, Section, Case,   \* rows of the three tables
    Request,     \* HTTP requests handled at once
    Name,        \* names of suites
    Steps,       \* lists of steps that are not empty
    Empty,       \* the empty list
    Root,        \* the section of what is directly in a suite
    Nothing,     \* the fields of an idle request and of no row
    MaxDepth,    \* MAX_SECTION_DEPTH
    MaxServed    \* bound: requests that are ever begun

ASSUME TestDesignAssumption ==
    /\ Root \notin Section
    /\ Empty \notin Steps
    /\ Nothing \notin Suite \cup Section \cup Case \cup Name \cup Steps \cup {Root, Empty}
    /\ IsFiniteSet(Section) /\ Suite # {} /\ Name # {}
    /\ MaxDepth \in Nat \ {0}
    /\ MaxServed \in Nat

VARIABLES
    suites, sections, cases,   \* the tables
    requests,    \* what each in-flight request is about to do
    served,      \* number of requests begun so far
    stray,       \* history: rows put where their request had not found them a place
    moved,       \* history: sections that have been moved
    asked,       \* history: the steps the last edit of each case was to leave
    crossed      \* history: cases an edit of whose steps deleted none of those there

tables == <<suites, sections, cases>>
history == <<stray, moved, asked, crossed>>
vars == <<tables, requests, served, history>>

Life == {"absent", "live", "deleted"}
List == Steps \cup {Empty}
Place == Section \cup {Root}

NoSuite == [life |-> "absent", name |-> Nothing]
NoSection == [life |-> "absent", suite |-> Nothing, parent |-> Root]
NoCase == [life |-> "absent", suite |-> Nothing, section |-> Root, archived |-> FALSE,
           version |-> 0, steps |-> Empty]

Step == {"idle", "suite_insert", "suite_rename", "suite_delete",
         "section_parent", "section_insert", "move_parent", "move_check", "section_write",
         "sections_list", "sections_delete",
         "case_section", "case_insert", "case_write", "case_delete",
         "edit_section", "edit_row", "edit_delete", "edit_wait", "edit_insert",
         "replace_delete", "replace_wait", "replace_insert", "replace_row"}

\* row: what the request is about; place and list: what it is to become, where
\* Nothing leaves it as it is; holds: its DELETE found steps to delete.
RequestState == [pc: Step, row: Suite \cup Section \cup Case \cup {Nothing},
                 suite: Suite \cup {Nothing}, name: Name \cup {Nothing},
                 place: Place \cup {Nothing}, list: List \cup {Nothing},
                 ids: SUBSET Section, holds: BOOLEAN, archived: BOOLEAN]
Idle == [pc |-> "idle", row |-> Nothing, suite |-> Nothing, name |-> Nothing,
         place |-> Nothing, list |-> Nothing, ids |-> {}, holds |-> FALSE,
         archived |-> FALSE]

TypeOK ==
    /\ suites \in [Suite -> [life: Life, name: Name \cup {Nothing}]]
    /\ \A u, v \in Suite : suites[u].name = suites[v].name /\ suites[u] # NoSuite => u = v
    /\ sections \in [Section -> [life: Life, suite: Suite \cup {Nothing}, parent: Place]]
    /\ cases \in [Case -> [life: Life, suite: Suite \cup {Nothing}, section: Place,
                           archived: BOOLEAN, version: Nat, steps: List]]
    /\ requests \in [Request -> RequestState]
    /\ served \in 0..MaxServed
    /\ stray \subseteq Section \cup Case
    /\ moved \subseteq Section
    /\ asked \in [Case -> List]
    /\ crossed \subseteq Case

\* A suite, and some sections and cases directly in it.
Init ==
    LET u == CHOOSE v \in Suite : TRUE
        n == CHOOSE m \in Name : TRUE
    IN
    \E old \in SUBSET (Section \cup Case) :
        /\ suites = [v \in Suite |-> IF v = u THEN [life |-> "live", name |-> n] ELSE NoSuite]
        /\ sections = [s \in Section |->
              IF s \in old THEN [life |-> "live", suite |-> u, parent |-> Root] ELSE NoSection]
        /\ cases = [c \in Case |->
              IF c \in old THEN [NoCase EXCEPT !.life = "live", !.suite = u, !.version = 1]
              ELSE NoCase]
        /\ requests = [r \in Request |-> Idle]
        /\ served = 0
        /\ stray = {}
        /\ moved = {}
        /\ asked = [c \in Case |-> Empty]
        /\ crossed = {}

-----------------------------------------------------------------------------
LiveSuite(u) == u # Nothing /\ suites[u].life = "live"
LiveSection(s) == sections[s].life = "live"
LiveCase(c) == cases[c].life = "live"

\* findSectionById, of a section of the suite; Root needs none.
Found(place, u) == place = Root \/ (LiveSection(place) /\ sections[place].suite = u)

Begin(r, request) ==
    /\ requests[r].pc = "idle"
    /\ served < MaxServed
    /\ served' = served + 1
    /\ requests' = [requests EXCEPT ![r] = request]
    /\ UNCHANGED <<tables, history>>

Finish(r) == requests' = [requests EXCEPT ![r] = Idle] /\ UNCHANGED served

\* A read: the request goes on, or is refused.
Check(r, ok, request) ==
    /\ requests' = [requests EXCEPT ![r] = IF ok THEN request ELSE Idle]
    /\ UNCHANGED <<tables, served, history>>

\* The sections of S and, among the live ones, all below them: descendantIds.
Descendants(S) ==
    LET below[n \in 0..Cardinality(Section)] ==
            IF n = 0 THEN S
            ELSE LET found == below[n - 1] IN
                 found \cup {t \in Section : LiveSection(t) /\ sections[t].parent \in found}
    IN below[Cardinality(Section)]

\* depthOf: the parents above a section, up to one that is gone or one too many.
DepthOf(s) ==
    LET up[n \in 0..(MaxDepth + 1)] ==
            IF n = 0 THEN s
            ELSE LET t == up[n - 1] IN
                 IF t = Root \/ (n > 1 /\ ~LiveSection(t)) THEN Root ELSE sections[t].parent
    IN Cardinality({n \in 1..(MaxDepth + 1) : up[n] # Root})

-----------------------------------------------------------------------------
(* Suites.  The unique index on their names counts the deleted ones.       *)

Named(n) == {u \in Suite : suites[u].name = n}

CreateSuite(r, n) ==
    /\ ~\E u \in Named(n) : LiveSuite(u)
    /\ Begin(r, [Idle EXCEPT !.pc = "suite_insert", !.name = n])

\* Mutant: the unique index does not count the deleted suites.
InsertOverDeleted(r, u) ==
    LET n == requests[r].name IN
    /\ requests[r].pc = "suite_insert"
    /\ suites[u] = NoSuite
    /\ suites' = IF \A v \in Named(n) : ~LiveSuite(v)
                 THEN [suites EXCEPT ![u] = [life |-> "live", name |-> n]] ELSE suites
    /\ Finish(r)
    /\ UNCHANGED <<sections, cases, history>>

SuiteInsert(r, u) ==
    LET n == requests[r].name IN
    /\ requests[r].pc = "suite_insert"
    /\ suites[u] = NoSuite
    /\ suites' = IF Named(n) = {} THEN [suites EXCEPT ![u] = [life |-> "live", name |-> n]]
                 ELSE suites
    /\ Finish(r)
    /\ UNCHANGED <<sections, cases, history>>

UpdateSuite(r, u, n) ==
    /\ LiveSuite(u)
    /\ n # suites[u].name
    /\ ~\E v \in Named(n) : LiveSuite(v)
    /\ Begin(r, [Idle EXCEPT !.pc = "suite_rename", !.row = u, !.name = n])

SuiteRename(r) ==
    LET u == requests[r].row
        n == requests[r].name
    IN
    /\ requests[r].pc = "suite_rename"
    /\ suites' = IF LiveSuite(u) /\ Named(n) = {} THEN [suites EXCEPT ![u].name = n] ELSE suites
    /\ Finish(r)
    /\ UNCHANGED <<sections, cases, history>>

DeleteSuite(r, u) ==
    /\ LiveSuite(u)
    /\ Begin(r, [Idle EXCEPT !.pc = "suite_delete", !.row = u])

Ended(row, u) == IF row.life = "live" /\ row.suite = u THEN [row EXCEPT !.life = "deleted"] ELSE row

\* softDeleteSuite: its sections and cases go with it.
SuiteDelete(r) ==
    LET u == requests[r].row IN
    /\ requests[r].pc = "suite_delete"
    /\ IF LiveSuite(u)
       THEN /\ suites' = [suites EXCEPT ![u].life = "deleted"]
            /\ sections' = [s \in Section |-> Ended(sections[s], u)]
            /\ cases' = [c \in Case |-> Ended(cases[c], u)]
       ELSE UNCHANGED tables
    /\ Finish(r)
    /\ UNCHANGED history

-----------------------------------------------------------------------------
(* Sections: none of the handlers holds what it has checked.               *)

CreateSection(r, u, place) ==
    /\ LiveSuite(u)
    /\ Begin(r, [Idle EXCEPT !.pc = "section_parent", !.suite = u, !.place = place])

\* Mutant: the limit is compared with the depth of the parent.
DeepEnough(place) == place = Root \/ DepthOf(place) < MaxDepth

Shallow(place) == place = Root \/ DepthOf(place) + 1 < MaxDepth

SectionParent(r) ==
    /\ requests[r].pc = "section_parent"
    /\ Check(r, Found(requests[r].place, requests[r].suite) /\ Shallow(requests[r].place),
             [requests[r] EXCEPT !.pc = "section_insert"])

SectionInsert(r, s) ==
    LET u == requests[r].suite
        p == requests[r].place
    IN
    /\ requests[r].pc = "section_insert"
    /\ sections[s] = NoSection
    /\ sections' = [sections EXCEPT ![s] = [life |-> "live", suite |-> u, parent |-> p]]
    /\ stray' = IF LiveSuite(u) /\ Found(p, u) THEN stray ELSE stray \cup {s}
    /\ Finish(r)
    /\ UNCHANGED <<suites, cases, moved, asked, crossed>>

MoveSection(r, s, place) ==
    /\ LiveSection(s) /\ LiveSuite(sections[s].suite)
    /\ place # s
    /\ Begin(r, [Idle EXCEPT !.pc = IF place = Root THEN "section_write" ELSE "move_parent",
                             !.row = s, !.place = place])

MoveParent(r) ==
    LET s == requests[r].row IN
    /\ requests[r].pc = "move_parent"
    /\ Check(r, Found(requests[r].place, sections[s].suite),
             [requests[r] EXCEPT !.pc = "move_check"])

\* assertReparentable: not under one of its own descendants.
MoveCheck(r) ==
    /\ requests[r].pc = "move_check"
    /\ Check(r, requests[r].place \notin Descendants({requests[r].row}),
             [requests[r] EXCEPT !.pc = "section_write"])

SectionWrite(r) ==
    LET s == requests[r].row
        p == requests[r].place
    IN
    /\ requests[r].pc = "section_write"
    /\ IF LiveSection(s)
       THEN /\ sections' = [sections EXCEPT ![s].parent = p]
            /\ moved' = moved \cup {s}
            /\ stray' = IF Found(p, sections[s].suite) /\ p \notin Descendants({s})
                        THEN stray ELSE stray \cup {s}
       ELSE UNCHANGED <<sections, moved, stray>>
    /\ Finish(r)
    /\ UNCHANGED <<suites, cases, asked, crossed>>

DeleteSection(r, s) ==
    /\ LiveSection(s) /\ LiveSuite(sections[s].suite)
    /\ Begin(r, [Idle EXCEPT !.pc = "sections_list", !.row = s])

SectionsList(r) ==
    /\ requests[r].pc = "sections_list"
    /\ Check(r, TRUE, [requests[r] EXCEPT !.pc = "sections_delete",
                                          !.ids = Descendants({requests[r].row})])

\* Mutant: the cases of the deleted sections stay in them.
SectionsDeleteOnly(r) ==
    LET ids == requests[r].ids IN
    /\ requests[r].pc = "sections_delete"
    /\ sections' = [s \in Section |->
          IF s \in ids THEN [sections[s] EXCEPT !.life = "deleted"] ELSE sections[s]]
    /\ stray' = stray \cup {s \in Section \ ids : LiveSection(s) /\ sections[s].parent \in ids}
    /\ Finish(r)
    /\ UNCHANGED <<suites, cases, moved, asked, crossed>>

\* softDeleteSections: the cases in them go to the root of the suite.
SectionsDelete(r) ==
    LET ids == requests[r].ids IN
    /\ requests[r].pc = "sections_delete"
    /\ sections' = [s \in Section |->
          IF s \in ids THEN [sections[s] EXCEPT !.life = "deleted"] ELSE sections[s]]
    /\ cases' = [c \in Case |->
          IF LiveCase(c) /\ cases[c].section \in ids
          THEN [cases[c] EXCEPT !.section = Root] ELSE cases[c]]
    /\ stray' = stray \cup {s \in Section \ ids : LiveSection(s) /\ sections[s].parent \in ids}
    /\ Finish(r)
    /\ UNCHANGED <<suites, moved, asked, crossed>>

-----------------------------------------------------------------------------
(* Cases: create and duplicate insert a row with its steps.                *)

CreateCase(r, u, place, list) ==
    /\ LiveSuite(u)
    /\ Begin(r, [Idle EXCEPT !.pc = "case_section", !.suite = u, !.place = place, !.list = list])

\* The copy goes where the client says, or else where the case read is.
DuplicateCase(r, c, place) ==
    /\ LiveCase(c)
    /\ Begin(r, [Idle EXCEPT !.pc = IF place = Nothing THEN "case_insert" ELSE "case_section",
                             !.suite = cases[c].suite, !.list = cases[c].steps,
                             !.place = IF place = Nothing THEN cases[c].section ELSE place])

CaseSection(r) ==
    /\ requests[r].pc = "case_section"
    /\ Check(r, Found(requests[r].place, requests[r].suite),
             [requests[r] EXCEPT !.pc = "case_insert"])

CaseInsert(r, c) ==
    LET q == requests[r] IN
    /\ q.pc = "case_insert"
    /\ cases[c] = NoCase
    /\ cases' = [cases EXCEPT ![c] = [life |-> "live", suite |-> q.suite, section |-> q.place,
                                      archived |-> FALSE, version |-> 1, steps |-> q.list]]
    /\ asked' = [asked EXCEPT ![c] = q.list]
    /\ stray' = IF LiveSuite(q.suite) /\ Found(q.place, q.suite) THEN stray ELSE stray \cup {c}
    /\ Finish(r)
    /\ UNCHANGED <<suites, sections, moved, crossed>>

-----------------------------------------------------------------------------
(* Edits of a case.  The transaction of updateCase writes the row and then *)
(* the steps, that of replaceSteps the steps and then the row.             *)

InEdit == {"edit_delete", "edit_wait", "edit_insert"}

\* The row is written by a transaction that has not ended.
RowLocked(c) == \E q \in Request : requests[q].row = c /\ requests[q].pc \in InEdit

\* What r's statement on the steps of c has to wait for.
StepsLocked(r, c) == \E q \in Request \ {r} :
    requests[q].row = c /\ requests[q].holds
StepsWritten(r, c) == \E q \in Request \ {r} :
    /\ requests[q].row = c
    /\ requests[q].holds \/ (requests[q].pc = "replace_row" /\ requests[q].list # Empty)

UpdateCase(r, c, place, list) ==
    /\ LiveCase(c) /\ ~cases[c].archived
    /\ Begin(r, [Idle EXCEPT !.pc = IF place = Nothing THEN "edit_row" ELSE "edit_section",
                             !.row = c, !.suite = cases[c].suite,
                             !.place = place, !.list = list])

EditSection(r) ==
    /\ requests[r].pc = "edit_section"
    /\ Check(r, Found(requests[r].place, requests[r].suite), [requests[r] EXCEPT !.pc = "edit_row"])

\* The row as updateCase leaves it, and where that is not a place any more.
Edited(c, request) ==
    [cases[c] EXCEPT !.version = @ + 1,
                     !.section = IF request.place = Nothing THEN @ ELSE request.place]
Lost(c, request) ==
    IF request.place = Nothing \/ Found(request.place, cases[c].suite) THEN {} ELSE {c}

\* Without new steps the transaction ends with the row.
EditRow(r) ==
    LET c == requests[r].row
        q == requests[r]
    IN
    /\ q.pc = "edit_row"
    /\ ~RowLocked(c)
    /\ IF ~LiveCase(c) THEN Finish(r) /\ UNCHANGED <<cases, stray>>
       ELSE IF q.list # Nothing
       THEN Check(r, TRUE, [q EXCEPT !.pc = "edit_delete"])
       ELSE /\ cases' = [cases EXCEPT ![c] = Edited(c, q)]
            /\ stray' = stray \cup Lost(c, q)
            /\ Finish(r)
    /\ UNCHANGED <<suites, sections, moved, asked, crossed>>

ReplaceSteps(r, c, list) ==
    /\ LiveCase(c) /\ ~cases[c].archived
    /\ Begin(r, [Idle EXCEPT !.pc = "replace_delete", !.row = c, !.list = list])

\* deleteMany: it deletes what is there, or waits for whoever has done so.
DeleteSteps(r, from, wait, next) ==
    LET c == requests[r].row IN
    /\ requests[r].pc \in {from, wait}
    /\ IF StepsLocked(r, c)
       THEN requests[r].pc = from /\ Check(r, TRUE, [requests[r] EXCEPT !.pc = wait])
       ELSE Check(r, TRUE, [requests[r] EXCEPT !.pc = next, !.holds = cases[c].steps # Empty])

\* The end of a transaction that has the steps: a DELETE that waited for it
\* finds the rows it was to delete gone, and those written instead not its own.
Commit(r) ==
    LET c == requests[r].row IN
    /\ requests' = [q \in Request |->
          IF q = r THEN Idle
          ELSE IF requests[q].row = c /\ requests[r].holds /\ requests[q].pc = "edit_wait"
          THEN [requests[q] EXCEPT !.pc = "edit_insert"]
          ELSE IF requests[q].row = c /\ requests[r].holds /\ requests[q].pc = "replace_wait"
          THEN [requests[q] EXCEPT !.pc = "replace_insert"]
          ELSE requests[q]]
    /\ UNCHANGED served

\* createMany: the unique index on positions refuses steps beside others.
Refused(r) ==
    LET c == requests[r].row IN
    requests[r].list # Empty /\ ~requests[r].holds /\ cases[c].steps # Empty

\* Mutant: an empty list of steps is taken for none given.
KeepsIfEmpty(r) ==
    IF requests[r].list # Empty THEN requests[r].list ELSE cases[requests[r].row].steps

\* The steps there are once the transaction of r commits.
Rewritten(r) ==
    IF requests[r].list # Empty \/ requests[r].holds THEN requests[r].list
    ELSE cases[requests[r].row].steps

\* What the history remembers of a rewriting that commits.
Remember(r) ==
    LET c == requests[r].row IN
    /\ asked' = [asked EXCEPT ![c] = requests[r].list]
    /\ crossed' = IF ~requests[r].holds /\ cases[c].steps # Empty THEN crossed \cup {c}
                  ELSE crossed

EditInsert(r) ==
    LET c == requests[r].row IN
    /\ requests[r].pc = "edit_insert"
    /\ requests[r].list = Empty \/ ~StepsWritten(r, c)
    /\ IF Refused(r) THEN Finish(r) /\ UNCHANGED <<cases, history>>
       ELSE /\ cases' = [cases EXCEPT ![c] = [Edited(c, requests[r]) EXCEPT !.steps = Rewritten(r)]]
            /\ stray' = stray \cup Lost(c, requests[r])
            /\ Remember(r)
            /\ Commit(r)
            /\ UNCHANGED moved
    /\ UNCHANGED <<suites, sections>>

ReplaceInsert(r) ==
    LET c == requests[r].row IN
    /\ requests[r].pc = "replace_insert"
    /\ requests[r].list = Empty \/ ~StepsWritten(r, c)
    /\ Check(r, ~Refused(r), [requests[r] EXCEPT !.pc = "replace_row"])

\* Mutant: the steps are replaced and the version stays.
ReplaceUnversioned(r) ==
    LET c == requests[r].row IN
    /\ requests[r].pc = "replace_row"
    /\ ~RowLocked(c)
    /\ cases' = [cases EXCEPT ![c].steps = Rewritten(r)]
    /\ Remember(r)
    /\ Commit(r)
    /\ UNCHANGED <<suites, sections, stray, moved>>

\* A case deleted meanwhile is not versioned, but its steps are rewritten.
ReplaceRow(r) ==
    LET c == requests[r].row IN
    /\ requests[r].pc = "replace_row"
    /\ ~RowLocked(c)
    /\ cases' = [cases EXCEPT ![c].steps = Rewritten(r),
                              ![c].version = IF LiveCase(c) THEN @ + 1 ELSE @]
    /\ Remember(r)
    /\ Commit(r)
    /\ UNCHANGED <<suites, sections, stray, moved>>

-----------------------------------------------------------------------------
(* Archiving and deletion: a read, and a statement on the row.             *)

ArchiveCase(r, c) ==
    /\ LiveCase(c) /\ ~cases[c].archived
    /\ Begin(r, [Idle EXCEPT !.pc = "case_write", !.row = c, !.archived = TRUE])

RestoreCase(r, c) ==
    /\ LiveCase(c) /\ cases[c].archived
    /\ Begin(r, [Idle EXCEPT !.pc = "case_write", !.row = c])

CaseWrite(r) ==
    LET c == requests[r].row IN
    /\ requests[r].pc = "case_write"
    /\ ~RowLocked(c)
    /\ cases' = IF LiveCase(c) THEN [cases EXCEPT ![c].archived = requests[r].archived] ELSE cases
    /\ Finish(r)
    /\ UNCHANGED <<suites, sections, history>>

DeleteCase(r, c) ==
    /\ LiveCase(c)
    /\ Begin(r, [Idle EXCEPT !.pc = "case_delete", !.row = c])

CaseDelete(r) ==
    LET c == requests[r].row IN
    /\ requests[r].pc = "case_delete"
    /\ ~RowLocked(c)
    /\ cases' = IF LiveCase(c) THEN [cases EXCEPT ![c].life = "deleted"] ELSE cases
    /\ Finish(r)
    /\ UNCHANGED <<suites, sections, history>>

\* The server dies, a statement fails, or the database ends one of two
\* transactions that wait for each other.
Crash(r) ==
    /\ requests[r].pc # "idle"
    /\ Finish(r)
    /\ UNCHANGED <<tables, history>>

-----------------------------------------------------------------------------
Start(r) ==
    \/ \E n \in Name : CreateSuite(r, n) \/ \E u \in Suite : UpdateSuite(r, u, n)
    \/ \E u \in Suite :
          \/ DeleteSuite(r, u)
          \/ \E p \in Place : CreateSection(r, u, p) \/ \E l \in List : CreateCase(r, u, p, l)
    \/ \E s \in Section : DeleteSection(r, s) \/ \E p \in Place : MoveSection(r, s, p)
    \/ \E c \in Case :
          \/ ArchiveCase(r, c) \/ RestoreCase(r, c) \/ DeleteCase(r, c)
          \/ \E p \in Place \cup {Nothing} :
                DuplicateCase(r, c, p) \/ \E l \in List \cup {Nothing} : UpdateCase(r, c, p, l)
          \/ \E l \in List : ReplaceSteps(r, c, l)

Continue(r) ==
    \/ SuiteRename(r) \/ SuiteDelete(r) \/ \E u \in Suite : SuiteInsert(r, u)
    \/ SectionParent(r) \/ MoveParent(r) \/ MoveCheck(r) \/ SectionWrite(r)
    \/ SectionsList(r) \/ SectionsDelete(r) \/ \E s \in Section : SectionInsert(r, s)
    \/ CaseSection(r) \/ CaseWrite(r) \/ CaseDelete(r) \/ \E c \in Case : CaseInsert(r, c)
    \/ EditSection(r) \/ EditRow(r) \/ EditInsert(r) \/ ReplaceInsert(r) \/ ReplaceRow(r)
    \/ DeleteSteps(r, "edit_delete", "edit_wait", "edit_insert")
    \/ DeleteSteps(r, "replace_delete", "replace_wait", "replace_insert")

Next == \E r \in Request : Start(r) \/ Continue(r) \/ Crash(r)

Spec == Init /\ [][Next]_vars

-----------------------------------------------------------------------------
(* Properties *)

OnCycle(s) ==
    LiveSection(s) /\ s \in Descendants({t \in Section : LiveSection(t) /\ sections[t].parent = s})

\* "Moving a section under its own descendant would detach the whole branch from
\* the tree": every live section and case is in a live suite and directly in it or
\* in a live section of it, and no section is below itself, whatever is deleted
\* above them.  The exceptions are the rows whose own request was overtaken after
\* it had checked their place, and the sections a deletion listed too early.
EverythingHasAPlace ==
    /\ \A s \in Section \ stray : LiveSection(s) =>
          LiveSuite(sections[s].suite) /\ Found(sections[s].parent, sections[s].suite)
    /\ \A c \in Case \ stray : LiveCase(c) =>
          LiveSuite(cases[c].suite) /\ Found(cases[c].section, cases[c].suite)
    /\ (\E s \in Section : OnCycle(s)) => \E s \in stray : OnCycle(s)

\* "Sections nest, and every level costs a query": creations, however many at
\* once, never make the tree deeper than the limit.  A move can.
DepthIsBounded ==
    \A s \in Section :
        LET path == {t \in Section : LiveSection(t) /\ s \in Descendants({t})} IN
        LiveSection(s) /\ path \cap moved = {} => Cardinality(path) <= MaxDepth

\* "Replaces the whole ordered list": a case has the steps its last edit asked
\* for, although two edits can wait for each other's rows; the one that waited is
\* refused, unless its own list is empty, and then it leaves the other's.
StepsAreTheLastAsked ==
    \A c \in Case : LiveCase(c) =>
        \/ cases[c].steps = asked[c]
        \/ c \in crossed /\ asked[c] = Empty

\* "So a report can state which version of the case was executed": the steps of a
\* live case never change without its version.
VersionNamesSteps ==
    [][\A c \in Case : LiveCase(c) /\ cases'[c].steps # cases[c].steps
          => cases'[c].version > cases[c].version]_vars
=============================================================================
