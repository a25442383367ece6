------------------------------ MODULE TestRuns ------------------------------
(***************************************************************************)
(* Test runs: modules/test-runs/test-runs.service.ts over                  *)
(* test-runs.repository.ts, with the trace links that point into a run and *)
(* the case edits that race its snapshots.                                 *)
(*                                                                         *)
(* A request is a process, as in Sessions: one action per statement or     *)
(* transaction it awaits.  A transaction whose statements other requests   *)
(* can fall between is split where they can: the reads that fill a         *)
(* snapshot, the ids read before a run is deleted, and the result that is  *)
(* inserted, and holds its case's row, before it is committed.             *)
(*                                                                         *)
(* Data abstraction.  The row of a case in a run is named by the two       *)
(* (their pair is unique) and told from an earlier row of the same pair by *)
(* gen.  A version of a case stands for all its fields, and for the steps  *)
(* written with it.  Name, milestone and the rest of a run are one text,   *)
(* as written or edited.  Results are named in the order of executedAt.    *)
(* position, which orders the listing and nothing else, comments, step     *)
(* results and the audit log are left out.                                 *)
(***************************************************************************)
EXTENDS Naturals

CONSTANTS
    Run,        \* test runs that may be created
    TestCase,   \* cases of the project's library
    Tester,     \* members with the tester role
    Senior,     \* any member whose role may record for anybody
    Nobody,     \* the assignee of an unassigned row
    NoRun,      \* the run field of an idle request
    Request,    \* HTTP requests the servers handle at once
    Operation,  \* the endpoints clients call
    MaxVersion, \* bound: versions of a case
    MaxGen,     \* bound: times one case is put in one run
    MaxResult   \* bound: results ever inserted

ASSUME TestRunsAssumption ==
    /\ Senior \notin Tester /\ Nobody \notin Tester /\ NoRun \notin Run
    /\ MaxVersion \in Nat \ {0}
    /\ MaxGen \in Nat \ {0}
    /\ MaxResult \in Nat

VARIABLES
    runs,      \* the test_runs table
    rows,      \* the test_run_cases table
    recorded,  \* number of test_results rows inserted so far
    results,   \* the test_results table
    links,     \* trace links into a run or one of its results
    library,   \* the test_cases table
    requests   \* what each in-flight request is about to do

vars == <<runs, rows, recorded, results, links, library, requests>>

Status == {"planned", "in_progress", "completed", "aborted"}
Open == {"planned", "in_progress"}
Verdict == {"passed", "failed"}   \* of the four recordable ones
Row == Run \X TestCase
ResultId == 1..MaxResult
Version == 1..MaxVersion

RunRecord == [status: Status \cup {"absent"}, deleted: BOOLEAN, edited: BOOLEAN,
              started: BOOLEAN, ended: BOOLEAN]  \* startedAt, completedAt are set

RowRecord == [present: BOOLEAN, gen: 0..MaxGen, version: Version,
              steps: Version, assignee: Tester \cup {Nobody},
              latest: Verdict \cup {"untested"}]

\* gone: rolled back; lost: committed once, and deleted with its row since.
ResultRecord == [state: {"pending", "committed", "gone", "lost"}, run: Run, row: Row,
                 status: Verdict,
                 over: SUBSET ResultId, \* history: later results that committed first
                 doomed: BOOLEAN]       \* history: committed under a pending removal

\* One end of a link: a run, or one of its results.
LinkEnd == [run: Run, result: 0..MaxResult]

Case == [version: Version, offered: BOOLEAN]  \* neither archived nor deleted

Step == {"idle", "update", "transition", "remove_read", "remove", "select_cases",
         "select_steps", "select_existing", "include", "find_row", "delete_row",
         "assign", "record", "commit", "link"}

Call == {"update", "start", "complete", "abort", "remove", "create", "add_cases",
         "remove_case", "assign", "record", "link", "edit_case", "offer_case"}

ASSUME OperationAssumption == Operation \subseteq Call

\* What a selection has read of each case: 0 until it has.
Snapshot == [TestCase -> [version: 0..MaxVersion, steps: 0..MaxVersion]]
Nothing == [c \in TestCase |-> [version |-> 0, steps |-> 0]]

RequestState ==
    [pc: Step, call: Call \cup {"none"}, run: Run \cup {NoRun},
     seen: Status \cup {"absent"},     \* the status Require read
     row: Row \cup {<<>>}, gen: 0..MaxGen,
     result: 0..MaxResult,
     picked: Snapshot,
     ids: SUBSET ResultId]             \* resultIdsForRun

Idle == [pc |-> "idle", call |-> "none", run |-> NoRun, seen |-> "absent",
         row |-> <<>>, gen |-> 0, result |-> 0,
         picked |-> Nothing, ids |-> {}]

TypeOK ==
    /\ runs \in [Run -> RunRecord]
    /\ rows \in [Row -> RowRecord]
    /\ recorded \in 0..MaxResult
    /\ results \in [1..recorded -> ResultRecord]
    /\ links \subseteq LinkEnd
    /\ library \in [TestCase -> Case]
    /\ requests \in [Request -> RequestState]

\* Mutant: the column's default is not the schema's.
RowWithoutDefault == [present |-> FALSE, gen |-> 0, version |-> 1, steps |-> 1,
                      assignee |-> Nobody, latest |-> "none"]

NoRow == [present |-> FALSE, gen |-> 0, version |-> 1, steps |-> 1,
          assignee |-> Nobody, latest |-> "untested"]

Init ==
    /\ runs = [n \in Run |-> [status |-> "absent", deleted |-> FALSE,
                              edited |-> FALSE, started |-> FALSE, ended |-> FALSE]]
    /\ rows = [k \in Row |-> NoRow]
    /\ recorded = 0
    /\ results = [i \in 1..0 |-> Idle]
    /\ links = {}
    /\ library = [c \in TestCase |-> [version |-> 1, offered |-> TRUE]]
    /\ requests = [r \in Request |-> Idle]

-----------------------------------------------------------------------------
Exists(n) == runs[n].status # "absent" /\ ~runs[n].deleted

Committed(n) == {i \in 1..recorded : results[i].state = "committed" /\ results[i].run = n}
OfRow(k) == {i \in 1..recorded : results[i].state = "committed" /\ results[i].row = k}

\* A removal has found the row untested and is about to delete it.
BeingRemoved(k) ==
    \E r \in Request : /\ requests[r].pc = "delete_row"
                       /\ requests[r].row = k
                       /\ requests[r].gen = rows[k].gen

Finish(r) == requests' = [requests EXCEPT ![r] = Idle]

\* RUN_TRANSITIONS, by the endpoint that asks for the move.
Target == [start |-> "in_progress", complete |-> "completed", abort |-> "aborted"]
Allowed(from, call) ==
    CASE call = "start" -> from = "planned"
      [] call = "complete" -> from = "in_progress"
      [] call = "abort" -> from \in Open

\* The write of a move: startedAt with in_progress, completedAt with the others.
Moved(run, target) ==
    [run EXCEPT !.status = target,
                !.started = @ \/ target = "in_progress",
                !.ended = @ \/ target \in {"completed", "aborted"}]

-----------------------------------------------------------------------------
(* Every handler starts with require, which reads the run and refuses a    *)
(* deleted one; most then assert, on that copy, that the run is open.      *)

Require(r, n, call, first) ==
    /\ call \in Operation
    /\ requests[r].pc = "idle"
    /\ Exists(n)
    /\ requests' = [requests EXCEPT ![r] = [Idle EXCEPT
            !.pc = first, !.call = call, !.run = n, !.seen = runs[n].status]]
    /\ UNCHANGED <<runs, rows, recorded, results, links, library>>

\* Mutant: the handler does not look whether the run is open.
RequireAny(r, n, call, first) == Require(r, n, call, first)

RequireOpen(r, n, call, first) ==
    /\ runs[n].status \in Open
    /\ Require(r, n, call, first)

Update(r, n) == RequireOpen(r, n, "update", "update")

\* No statement that writes a run names its status: the write lands whatever the
\* run has become, unless it has been deleted.
UpdateWrite(r) ==
    LET n == requests[r].run IN
    /\ requests[r].pc = "update"
    /\ runs' = IF Exists(n) THEN [runs EXCEPT ![n].edited = TRUE] ELSE runs
    /\ Finish(r)
    /\ UNCHANGED <<rows, recorded, results, links, library>>

Transition(r, n, call) ==
    /\ Allowed(runs[n].status, call)
    /\ Require(r, n, call, "transition")

TransitionWrite(r) ==
    LET n == requests[r].run IN
    /\ requests[r].pc = "transition"
    /\ runs' = IF Exists(n)
               THEN [runs EXCEPT ![n] = Moved(@, Target[requests[r].call])]
               ELSE runs
    /\ Finish(r)
    /\ UNCHANGED <<rows, recorded, results, links, library>>

(* remove: one transaction, which reads the ids of the run's results before *)
(* it marks the run deleted and purges the links to the run and to those.  *)

Remove(r, n) == Require(r, n, "remove", "remove_read")

RemoveRead(r) ==
    /\ requests[r].pc = "remove_read"
    /\ requests' = [requests EXCEPT ![r].pc = "remove",
                                    ![r].ids = Committed(requests[r].run)]
    /\ UNCHANGED <<runs, rows, recorded, results, links, library>>

RemoveCommit(r) ==
    LET n == requests[r].run IN
    /\ requests[r].pc = "remove"
    /\ IF Exists(n)
       THEN /\ runs' = [runs EXCEPT ![n].deleted = TRUE]
            /\ links' = {l \in links :
                  /\ l # [run |-> n, result |-> 0]
                  /\ l.result \notin requests[r].ids}
       ELSE UNCHANGED <<runs, links>>
    /\ Finish(r)
    /\ UNCHANGED <<rows, recorded, results, library>>

-----------------------------------------------------------------------------
(* create and addCases: one transaction each around includeCases, which     *)
(* reads the selected cases, then their steps, then what the run already   *)
(* has, and inserts the rest.  A selection by id or by filter can end with *)
(* any non-empty set of offered cases.                                     *)

Fresh(n) == runs[n].status = "absent" /\ \A r \in Request : requests[r].run # n

CreateEmpty(r, n) ==
    /\ "create" \in Operation
    /\ requests[r].pc = "idle"
    /\ Fresh(n)
    /\ runs' = [runs EXCEPT ![n].status = "planned"]
    /\ UNCHANGED <<rows, recorded, results, links, library, requests>>

Create(r, n) ==
    /\ "create" \in Operation
    /\ requests[r].pc = "idle"
    /\ Fresh(n)
    /\ requests' = [requests EXCEPT ![r] =
            [Idle EXCEPT !.pc = "select_cases", !.call = "create", !.run = n]]
    /\ UNCHANGED <<runs, rows, recorded, results, links, library>>

AddCases(r, n) == RequireOpen(r, n, "add_cases", "select_cases")

SelectCases(r, S) ==
    /\ requests[r].pc = "select_cases"
    /\ S # {} /\ \A c \in S : library[c].offered
    /\ requests' = [requests EXCEPT ![r].pc = "select_steps",
            ![r].picked = [c \in TestCase |->
                [version |-> IF c \in S THEN library[c].version ELSE 0, steps |-> 0]]]
    /\ UNCHANGED <<runs, rows, recorded, results, links, library>>

\* Prisma fetches the included relation with a second SELECT, which at READ
\* COMMITTED sees the edits committed since the first.
\* Mutant: the version is taken from a read made after the one of the steps.
SelectStepsFirst(r) ==
    /\ requests[r].pc = "select_steps"
    /\ requests' = [requests EXCEPT ![r].pc = "select_existing",
            ![r].picked = [c \in TestCase |->
                IF @[c].version = 0 THEN @[c]
                ELSE [version |-> library[c].version, steps |-> @[c].version]]]
    /\ UNCHANGED <<runs, rows, recorded, results, links, library>>

SelectSteps(r) ==
    /\ requests[r].pc = "select_steps"
    /\ requests' = [requests EXCEPT ![r].pc = "select_existing",
            ![r].picked = [c \in TestCase |->
                IF @[c].version = 0 THEN @[c]
                ELSE [version |-> @[c].version, steps |-> library[c].version]]]
    /\ UNCHANGED <<runs, rows, recorded, results, links, library>>

SelectExisting(r) ==
    /\ requests[r].pc = "select_existing"
    /\ requests' = [requests EXCEPT ![r].pc = "include",
            ![r].picked = [c \in TestCase |->
                IF rows[<<requests[r].run, c>>].present THEN Nothing[c] ELSE @[c]]]
    /\ UNCHANGED <<runs, rows, recorded, results, links, library>>

\* createMany with skipDuplicates: a case another request has put in the run
\* meanwhile keeps the row it has.
Include(r) ==
    LET n == requests[r].run
        new == {k \in Row : /\ k[1] = n
                            /\ requests[r].picked[k[2]].version # 0
                            /\ ~rows[k].present}
    IN
    /\ requests[r].pc = "include"
    /\ \A k \in new : rows[k].gen < MaxGen
    /\ rows' = [k \in Row |->
            IF k \in new
            THEN [NoRow EXCEPT !.present = TRUE, !.gen = rows[k].gen + 1,
                               !.version = requests[r].picked[k[2]].version,
                               !.steps = requests[r].picked[k[2]].steps]
            ELSE rows[k]]
    /\ runs' = IF requests[r].call = "create"
               THEN [runs EXCEPT ![n].status = "planned"] ELSE runs
    /\ Finish(r)
    /\ UNCHANGED <<recorded, results, links, library>>

-----------------------------------------------------------------------------
(* The three operations on one row read it after the run, and find it only *)
(* under its own run.  (assign repeats the read for every id it was given  *)
(* and then writes the rows it still finds in one statement.)              *)

FindRow(r, k, next) ==
    /\ rows[k].present
    /\ k[1] = requests[r].run
    /\ requests' = [requests EXCEPT ![r].pc = next, ![r].row = k, ![r].gen = rows[k].gen]
    /\ UNCHANGED <<runs, rows, recorded, results, links, library>>

Found(r) ==
    LET k == requests[r].row IN
    rows[k].present /\ rows[k].gen = requests[r].gen

RemoveCase(r, n) == RequireOpen(r, n, "remove_case", "find_row")

\* Mutant: the row is removed whatever it shows.
RemoveCaseFindAny(r, k) ==
    /\ requests[r].pc = "find_row" /\ requests[r].call = "remove_case"
    /\ FindRow(r, k, "delete_row")

RemoveCaseFind(r, k) ==
    /\ requests[r].pc = "find_row" /\ requests[r].call = "remove_case"
    /\ rows[k].latest = "untested"
    /\ FindRow(r, k, "delete_row")

\* The delete names the row's id alone and cascades to its results, to one that was
\* committed since the row was found untested too.  It waits for a transaction that
\* has inserted a result of the row, whose foreign key holds the row against deletion.
DeleteRow(r) ==
    LET k == requests[r].row IN
    /\ requests[r].pc = "delete_row"
    /\ \A i \in 1..recorded : results[i].row = k => results[i].state # "pending"
    /\ IF Found(r)
       THEN /\ rows' = [rows EXCEPT ![k] = [NoRow EXCEPT !.gen = requests[r].gen]]
            /\ results' = [i \in 1..recorded |->
                  IF i \in OfRow(k) THEN [results[i] EXCEPT !.state = "lost"]
                  ELSE results[i]]
       ELSE UNCHANGED <<rows, results>>
    /\ Finish(r)
    /\ UNCHANGED <<runs, recorded, links, library>>

Assign(r, n) == RequireOpen(r, n, "assign", "find_row")

AssignFind(r, k) ==
    /\ requests[r].pc = "find_row" /\ requests[r].call = "assign"
    /\ FindRow(r, k, "assign")

AssignWrite(r) ==
    /\ requests[r].pc = "assign"
    /\ IF Found(r)
       THEN \E t \in Tester \cup {Nobody} :
               rows' = [rows EXCEPT ![requests[r].row].assignee = t]
       ELSE UNCHANGED rows
    /\ Finish(r)
    /\ UNCHANGED <<runs, recorded, results, links, library>>

-----------------------------------------------------------------------------
(* recordResult: read the run and the row, then one transaction inserts     *)
(* the result, projects its status on the row and starts a run that was    *)
(* read as planned.                                                        *)

Record(r, n) == RequireOpen(r, n, "record", "find_row")

\* A tester records on a row that is assigned to nobody or to them.
RecordFind(r, k, by) ==
    /\ requests[r].pc = "find_row" /\ requests[r].call = "record"
    /\ by = Senior \/ rows[k].assignee \in {Nobody, by}
    /\ FindRow(r, k, "record")

\* The foreign key refuses a row that is gone.
RecordInsert(r) ==
    LET k == requests[r].row IN
    /\ requests[r].pc = "record"
    /\ \/ /\ Found(r)
          /\ recorded < MaxResult
          /\ recorded' = recorded + 1
          /\ \E v \in Verdict :
                results' = [i \in 1..(recorded + 1) |->
                    IF i = recorded + 1
                    THEN [state |-> "pending", run |-> requests[r].run,
                          row |-> k, status |-> v,
                          over |-> {}, doomed |-> FALSE]
                    ELSE results[i]]
          /\ requests' = [requests EXCEPT ![r].pc = "commit",
                                          ![r].result = recorded + 1]
       \/ /\ ~Found(r)
          /\ Finish(r)
          /\ UNCHANGED <<recorded, results>>
    /\ UNCHANGED <<runs, rows, links, library>>

\* The results once i, inserted for row k, is committed.
WithCommitted(i, k) ==
    [results EXCEPT ![i] = [@ EXCEPT !.state = "committed",
                                     !.over = {j \in OfRow(k) : j > i},
                                     !.doomed = BeingRemoved(k)]]

\* Mutants: the projection is not refreshed; the run is not started.
RecordOnly(r) ==
    LET n == requests[r].run IN
    /\ requests[r].pc = "commit"
    /\ results' = WithCommitted(requests[r].result, requests[r].row)
    /\ runs' = IF requests[r].seen = "planned" /\ Exists(n)
               THEN [runs EXCEPT ![n] = Moved(@, "in_progress")] ELSE runs
    /\ Finish(r)
    /\ UNCHANGED <<rows, recorded, links, library>>

RecordUnstarted(r) ==
    LET i == requests[r].result IN
    /\ requests[r].pc = "commit"
    /\ results' = WithCommitted(i, requests[r].row)
    /\ rows' = [rows EXCEPT ![requests[r].row].latest = results[i].status]
    /\ Finish(r)
    /\ UNCHANGED <<runs, recorded, links, library>>

\* The projection and the start are written and committed together; the row lock
\* of the projection makes the commits of one row take turns.
RecordCommit(r) ==
    LET n == requests[r].run
        i == requests[r].result
    IN
    /\ requests[r].pc = "commit"
    /\ results' = WithCommitted(i, requests[r].row)
    /\ rows' = [rows EXCEPT ![requests[r].row].latest = results[i].status]
    /\ runs' = IF requests[r].seen = "planned" /\ Exists(n)
               THEN [runs EXCEPT ![n] = Moved(@, "in_progress")] ELSE runs
    /\ Finish(r)
    /\ UNCHANGED <<recorded, links, library>>

-----------------------------------------------------------------------------
(* createLink with one end in a run: locateEnd finds the run, or the       *)
(* result, through a run that is not deleted; the insert is a later        *)
(* statement and has no foreign key.                                       *)

LinkLocate(r, n, i) ==
    /\ "link" \in Operation
    /\ requests[r].pc = "idle"
    /\ Exists(n)
    /\ i = 0 \/ i \in Committed(n)
    /\ requests' = [requests EXCEPT ![r] =
            [Idle EXCEPT !.pc = "link", !.call = "link", !.run = n, !.result = i]]
    /\ UNCHANGED <<runs, rows, recorded, results, links, library>>

LinkCreate(r) ==
    /\ requests[r].pc = "link"
    /\ links' = links \cup {[run |-> requests[r].run, result |-> requests[r].result]}
    /\ Finish(r)
    /\ UNCHANGED <<runs, rows, recorded, results, library>>

(* The library, as test-design.service.ts writes it: an edit and its new   *)
(* steps are one transaction and one version; archiving (or deleting) takes *)
(* the case out of every later selection, restoring puts it back.          *)

EditCase(c) ==
    /\ "edit_case" \in Operation
    /\ library[c].offered
    /\ library[c].version < MaxVersion
    /\ library' = [library EXCEPT ![c].version = @ + 1]
    /\ UNCHANGED <<runs, rows, recorded, results, links, requests>>

OfferCase(c) ==
    /\ "offer_case" \in Operation
    /\ library' = [library EXCEPT ![c].offered = ~@]
    /\ UNCHANGED <<runs, rows, recorded, results, links, requests>>

\* The server dies, or a transaction fails or times out: it is rolled back.
Crash(r) ==
    /\ requests[r].pc # "idle"
    /\ results' = IF requests[r].pc = "commit"
                  THEN [results EXCEPT ![requests[r].result].state = "gone"]
                  ELSE results
    /\ Finish(r)
    /\ UNCHANGED <<runs, rows, recorded, links, library>>

-----------------------------------------------------------------------------
Begin(r) ==
    \E n \in Run :
        \/ Update(r, n) \/ Remove(r, n) \/ CreateEmpty(r, n) \/ Create(r, n)
        \/ AddCases(r, n) \/ RemoveCase(r, n) \/ Assign(r, n) \/ Record(r, n)
        \/ \E call \in {"start", "complete", "abort"} : Transition(r, n, call)
        \/ \E i \in 0..MaxResult : LinkLocate(r, n, i)

Continue(r) ==
    \/ UpdateWrite(r) \/ TransitionWrite(r) \/ RemoveRead(r) \/ RemoveCommit(r)
    \/ SelectSteps(r) \/ SelectExisting(r) \/ Include(r)
    \/ \E S \in SUBSET TestCase : SelectCases(r, S)
    \/ \E k \in Row :
          \/ RemoveCaseFind(r, k) \/ AssignFind(r, k)
          \/ \E by \in Tester \cup {Senior} : RecordFind(r, k, by)
    \/ DeleteRow(r) \/ AssignWrite(r) \/ RecordInsert(r) \/ RecordCommit(r)
    \/ LinkCreate(r)

Next ==
    \/ \E r \in Request : Begin(r) \/ Continue(r) \/ Crash(r)
    \/ \E c \in TestCase : EditCase(c) \/ OfferCase(c)

Spec == Init /\ [][Next]_vars

-----------------------------------------------------------------------------
(* Properties *)

\* A row shows untested exactly when it has no result, and else the status of its
\* newest result but for those that had already committed when the result it shows
\* did: whatever is recorded, rolled back, removed and put back meanwhile, a row
\* shows the result that was committed last.
LatestAgrees ==
    \A k \in Row : rows[k].present =>
        IF rows[k].latest = "untested" THEN OfRow(k) = {}
        ELSE \E i \in OfRow(k) :
                /\ results[i].status = rows[k].latest
                /\ \A j \in OfRow(k) : j > i => j \in results[i].over

\* A run with results in it is not planned, however many first results race,
\* and whatever moves the run meanwhile (unless the run was deleted meanwhile).
ResultsStartTheRun ==
    \A n \in Run : Exists(n) /\ Committed(n) # {} => runs[n].status # "planned"

\* The two dates tell where a run has been: one that is running or completed was
\* started, one that is closed was ended, a planned one was neither.
DatesAgree ==
    \A n \in Run :
        /\ runs[n].status \in {"in_progress", "completed"} => runs[n].started
        /\ runs[n].status \in {"completed", "aborted"} => runs[n].ended
        /\ runs[n].status \in {"absent", "planned"} => ~runs[n].started /\ ~runs[n].ended

\* Results are the record of what was executed: one that is committed, or about to
\* be, has its row, in the run it names, and the row stays as long as it does.  The
\* one way to lose a result is to commit it between the two statements of a removal
\* of its case, which found the case untested and then deletes it by id.
ResultsBelong ==
    \A i \in 1..recorded :
        /\ results[i].state \in {"pending", "committed"} =>
            /\ rows[results[i].row].present
            /\ results[i].row[1] = results[i].run
        /\ results[i].state = "lost" => results[i].doomed

\* A snapshot may mix two versions of a case, but only one way: its steps are
\* never older than the version it is filed under, and neither is made up.
SnapshotNotStale ==
    \A k \in Row : rows[k].present =>
        /\ rows[k].version <= rows[k].steps
        /\ rows[k].steps <= library[k[2]].version

\* What a closed run reports.
Closed(n) == runs[n].status \in {"completed", "aborted"}
Report(n) ==
    <<runs[n].status, runs[n].edited,
      [c \in TestCase |-> rows[<<n, c>>]], Committed(n)>>

\* A closed run's report changes only at the hands of a request that read this
\* very run while it was open; requests that start later leave it alone, the
\* ones that come through another run's address included.
OnlyStragglers ==
    [][\A n \in Run : Closed(n) /\ Report(n) # Report(n)' =>
         \E r \in Request :
            /\ requests[r] # requests'[r]
            /\ requests[r].run = n
            /\ requests[r].seen \in Open]_vars
=============================================================================
