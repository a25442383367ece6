--------------------------- MODULE TestRunsProofs ---------------------------
(* TLAPS proofs about TestRuns, for every set of runs, cases and requests   *)
(* and every bound.                                                        *)
EXTENDS TestRuns, TLAPS

\* What a request past its first read has copied, and what still holds of it.
Sound(r) ==
    LET q == requests[r] IN
    /\ q.pc # "idle" => q.run \in Run
    /\ q.pc # "idle" => (q.call = "create" <=> runs[q.run].status = "absent")
    /\ q.call = "create" =>
          q.pc \in {"select_cases", "select_steps", "select_existing", "include"}
    /\ q.pc = "transition" => q.call \in {"start", "complete", "abort"}
    /\ q.pc = "transition" /\ q.call = "complete" => runs[q.run].started
    /\ q.pc \in {"find_row", "record", "commit"} =>
          /\ q.seen # "absent"
          /\ q.seen # "planned" => runs[q.run].status \notin {"absent", "planned"}
    /\ q.pc \in {"delete_row", "assign", "record", "commit"} =>
          q.row \in Row /\ q.row[1] = q.run
    /\ q.pc = "commit" =>
          /\ q.result \in 1..recorded
          /\ results[q.result].state = "pending"
          /\ results[q.result].run = q.run
          /\ results[q.result].row = q.row
    /\ q.pc = "link" =>
          /\ q.result \in 0..recorded
          /\ q.result # 0 => results[q.result].run = q.run
    /\ \A i \in q.ids : i \in 1..recorded /\ results[i].run = q.run
    /\ q.pc = "select_steps" =>
          \A c \in TestCase : q.picked[c].version <= library[c].version
    /\ q.pc \in {"select_existing", "include"} =>
          \A c \in TestCase : q.picked[c].version # 0 =>
              /\ q.picked[c].version <= q.picked[c].steps
              /\ q.picked[c].steps <= library[c].version

\* No two requests commit one result, or create one run.
Apart(q, r) ==
    /\ requests[q].pc = "commit" /\ requests[r].pc = "commit" =>
          requests[q].result # requests[r].result
    /\ requests[q].call = "create" /\ requests[r].call = "create" =>
          requests[q].run # requests[r].run

\* The first half of ResultsBelong.
ResultsInPlace ==
    \A i \in 1..recorded :
        results[i].state \in {"pending", "committed"} =>
            /\ rows[results[i].row].present
            /\ results[i].row[1] = results[i].run

ResultsOfRuns ==
    \A i \in 1..recorded :
        results[i].state # "gone" => runs[results[i].run].status # "absent"

LinksLocated ==
    \A l \in links :
        /\ l.result \in 0..recorded
        /\ l.result # 0 => results[l.result].run = l.run

\* The tables agree with one another.
Tables ==
    /\ ResultsInPlace /\ ResultsOfRuns /\ LatestAgrees /\ ResultsStartTheRun
    /\ DatesAgree /\ SnapshotNotStale /\ LinksLocated

IInv ==
    /\ TypeOK
    /\ Tables
    /\ \A r \in Request : Sound(r)
    /\ \A q, r \in Request : q # r => Apart(q, r)

USE TestRunsAssumption DEF ResultId, Version

LEMMA IdleTyped == Idle \in RequestState
BY DEF Idle, Nothing, Snapshot, RequestState, Step

\* A request at rest claims nothing.
LEMMA IdleSound ==
    ASSUME NEW r \in Request, requests[r] = Idle
    PROVE  Sound(r)
BY DEF Sound, Idle

-----------------------------------------------------------------------------
(* What a step must leave alone for the other requests' claims to stand.   *)

Steady(Q) ==
    /\ \A n \in Run :
          /\ runs[n].started => runs'[n].started
          /\ runs[n].status # "absent" => runs'[n].status # "absent"
          /\ runs[n].status \notin {"absent", "planned"} =>
                runs'[n].status \notin {"absent", "planned"}
    /\ \A q \in Q :
          requests[q].pc # "idle" /\ runs[requests[q].run].status = "absent" =>
              runs'[requests[q].run].status = "absent"
    /\ \A c \in TestCase : library[c].version <= library'[c].version
    /\ recorded' \in Nat /\ recorded <= recorded'
    /\ \A i \in 1..recorded :
          results'[i].run = results[i].run /\ results'[i].row = results[i].row
    /\ \A q \in Q :
          requests[q].pc = "commit" => results'[requests[q].result].state = "pending"

LEMMA OthersSound ==
    ASSUME IInv, library' \in [TestCase -> Case], NEW Q \in SUBSET Request, Steady(Q),
           NEW q \in Q, requests'[q] = requests[q]
    PROVE  Sound(q)'
<1> DEFINE p == requests[q]
<1>1. p \in RequestState /\ Sound(q) /\ recorded \in Nat
  BY DEF IInv, TypeOK
<1>2. /\ p.pc # "idle" => p.run \in Run
      /\ p.pc # "idle" => (p.call = "create" <=> runs'[p.run].status = "absent")
      /\ p.call = "create" =>
            p.pc \in {"select_cases", "select_steps", "select_existing", "include"}
      /\ p.pc = "transition" => p.call \in {"start", "complete", "abort"}
      /\ p.pc = "transition" /\ p.call = "complete" => runs'[p.run].started
  BY <1>1 DEF Sound, Steady
<1>3. /\ p.pc \in {"find_row", "record", "commit"} =>
            /\ p.seen # "absent"
            /\ p.seen # "planned" => runs'[p.run].status \notin {"absent", "planned"}
      /\ p.pc \in {"delete_row", "assign", "record", "commit"} =>
            p.row \in Row /\ p.row[1] = p.run
  BY <1>1 DEF Sound, Steady
<1>4. /\ p.pc = "commit" =>
            /\ p.result \in 1..recorded'
            /\ results'[p.result].state = "pending"
            /\ results'[p.result].run = p.run
            /\ results'[p.result].row = p.row
      /\ p.pc = "link" =>
            /\ p.result \in 0..recorded'
            /\ p.result # 0 => results'[p.result].run = p.run
      /\ \A i \in p.ids : i \in 1..recorded' /\ results'[i].run = p.run
  BY SMTT(30), <1>1 DEF Sound, Steady
<1>5. ASSUME NEW c \in TestCase
      PROVE  /\ p.pc = "select_steps" => p.picked[c].version <= library'[c].version
             /\ p.pc \in {"select_existing", "include"} /\ p.picked[c].version # 0 =>
                  /\ p.picked[c].version <= p.picked[c].steps
                  /\ p.picked[c].steps <= library'[c].version
  <2>1. p.picked[c].version \in Nat /\ p.picked[c].steps \in Nat
    BY <1>1 DEF RequestState, Snapshot
  <2>2. library[c].version \in Nat /\ library'[c].version \in Nat
    BY DEF IInv, TypeOK, Case
  <2>3. library[c].version <= library'[c].version
    BY DEF Steady
  <2> QED
    BY SMTT(30), <1>1, <2>1, <2>2, <2>3 DEF Sound
<1> QED
  BY SMTT(30), <1>2, <1>3, <1>4, <1>5 DEF Sound

TablesTyped ==
    /\ runs \in [Run -> RunRecord]
    /\ rows \in [Row -> RowRecord]
    /\ recorded \in 0..MaxResult
    /\ results \in [1..recorded -> ResultRecord]
    /\ links \subseteq LinkEnd
    /\ library \in [TestCase -> Case]

\* A step of one request: what is left to show is what it does to the tables,
\* and that its own new record is sound and apart from the others.
LEMMA StepOf ==
    ASSUME IInv, NEW r \in Request, NEW new \in RequestState,
           requests' = [requests EXCEPT ![r] = new],
           TablesTyped', Tables', Steady(Request \ {r}), Sound(r)',
           \A q \in Request \ {r} :
              /\ new.pc = "commit" /\ requests[q].pc = "commit" =>
                    new.result # requests[q].result
              /\ new.call = "create" /\ requests[q].call = "create" =>
                    new.run # requests[q].run
    PROVE  IInv'
<1>1. /\ requests' \in [Request -> RequestState]
      /\ requests'[r] = new
      /\ \A q \in Request \ {r} : requests'[q] = requests[q]
  BY DEF IInv, TypeOK
<1>2. library' \in [TestCase -> Case]
  BY DEF TablesTyped
<1>3. \A q \in Request \ {r} : Sound(q)'
  BY <1>1, <1>2, OthersSound
<1>4. \A q, p \in Request : q # p => Apart(q, p)'
  BY <1>1 DEF IInv, Apart
<1> QED
  BY <1>1, <1>3, <1>4 DEF IInv, TablesTyped, TypeOK

LEMMA FinishStep ==
    ASSUME IInv, NEW r \in Request, Finish(r), TablesTyped', Tables',
           Steady(Request \ {r})
    PROVE  IInv'
<1>1. requests'[r] = Idle
  BY DEF Finish, IInv, TypeOK
<1>2. Sound(r)'
  BY SMTT(30), <1>1, IdleSound DEF Sound, Idle
<1>3. Idle.pc # "commit" /\ Idle.call # "create"
  BY DEF Idle
<1> QED
  BY <1>2, <1>3, IdleTyped, StepOf DEF Finish

\* A step that only reads.
LEMMA ReadStep ==
    ASSUME IInv, NEW r \in Request, NEW new \in RequestState,
           requests' = [requests EXCEPT ![r] = new],
           UNCHANGED <<runs, rows, recorded, results, links, library>>,
           Sound(r)', new.pc # "commit",
           new.call = "create" =>
              \A q \in Request \ {r} : requests[q].call = "create" => new.run # requests[q].run
    PROVE  IInv'
<1>1. TablesTyped' /\ Tables'
  BY DEF IInv, TypeOK, TablesTyped, Tables, ResultsInPlace, ResultsOfRuns, LatestAgrees,
         OfRow, ResultsStartTheRun, Exists, Committed, DatesAgree, SnapshotNotStale, LinksLocated
<1>2. recorded \in Nat /\ \A c \in TestCase : library[c].version \in Nat
  BY DEF IInv, TypeOK, Case
<1>3. Steady(Request \ {r})
  <2>1. \A q \in Request : requests[q].pc = "commit" => results[requests[q].result].state = "pending"
    BY DEF IInv, Sound
  <2> QED
    BY <1>2, <2>1 DEF Steady
<1> QED
  BY <1>1, <1>3, StepOf

-----------------------------------------------------------------------------
(* The reads that open a request. *)

LEMMA InitSound == Init => IInv
<1> SUFFICES ASSUME Init PROVE IInv
  OBVIOUS
<1>1. TablesTyped
  <2>1. results \in [1..recorded -> ResultRecord] /\ recorded \in 0..MaxResult
    BY DEF Init
  <2>2. runs \in [Run -> RunRecord] /\ library \in [TestCase -> Case] /\ links \subseteq LinkEnd
    BY DEF Init, RunRecord, Status, Case
  <2>3. NoRow \in RowRecord
    BY DEF NoRow, RowRecord
  <2> QED
    BY <2>1, <2>2, <2>3 DEF Init, TablesTyped
<1>2. requests \in [Request -> RequestState] /\ \A r \in Request : requests[r] = Idle
  BY IdleTyped DEF Init
<1>3. \A i \in 1..recorded : FALSE
  BY DEF Init
<1>4. \A k \in Row : ~rows[k].present
  BY DEF Init, NoRow
<1>5. \A n \in Run : runs[n].status = "absent" /\ ~runs[n].started /\ ~runs[n].ended
  BY DEF Init
<1>6. Tables
  BY <1>3, <1>4, <1>5 DEF Tables, ResultsInPlace, ResultsOfRuns, LatestAgrees, ResultsStartTheRun,
         Exists, DatesAgree, SnapshotNotStale, LinksLocated, Init
<1>7. \A r \in Request : Sound(r)
  BY <1>2, IdleSound
<1>8. \A q, r \in Request : Apart(q, r)
  BY <1>2 DEF Apart, Idle
<1> QED
  BY <1>1, <1>2, <1>6, <1>7, <1>8 DEF IInv, TypeOK, TablesTyped

\* require, with whatever follows it.
LEMMA RequireSound ==
    ASSUME IInv, NEW r \in Request, NEW n \in Run, NEW call \in Call, NEW first \in Step,
           Require(r, n, call, first), call # "create", first # "idle",
           first \notin {"delete_row", "assign", "record", "commit", "select_steps",
                         "select_existing", "include", "link"},
           first = "transition" =>
              /\ call \in {"start", "complete", "abort"}
              /\ call = "complete" => runs[n].status = "in_progress"
    PROVE  IInv'
<1> DEFINE new == [Idle EXCEPT !.pc = first, !.call = call, !.run = n, !.seen = runs[n].status]
<1>1. runs[n].status \in Status /\ runs[n].status # "absent"
  BY DEF IInv, TypeOK, RunRecord, Require, Exists
<1>2. /\ new \in RequestState /\ new.pc = first /\ new.call = call /\ new.run = n
      /\ new.seen = runs[n].status /\ new.ids = {}
  BY <1>1, IdleTyped DEF RequestState, Idle
<1>3. /\ requests' = [requests EXCEPT ![r] = new]
      /\ UNCHANGED <<runs, rows, recorded, results, links, library>>
  BY DEF Require
<1>4. requests'[r] = new
  BY <1>3 DEF IInv, TypeOK
<1>5. runs[n].status = "in_progress" => runs[n].started
  BY DEF IInv, Tables, DatesAgree
<1> HIDE DEF new
<1>6. Sound(r)'
  BY <1>1, <1>2, <1>3, <1>4, <1>5 DEF Sound
<1> QED
  BY <1>2, <1>3, <1>6, ReadStep

LEMMA Calls ==
    /\ {"update", "start", "complete", "abort", "remove", "create", "add_cases",
        "remove_case", "assign", "record", "link"} \subseteq Call
    /\ {"update", "transition", "remove_read", "remove", "select_cases", "select_steps",
        "select_existing", "include", "find_row", "delete_row", "assign", "record",
        "commit", "link"} \subseteq Step
BY DEF Call, Step

LEMMA BeginSound ==
    ASSUME IInv, NEW r \in Request, Begin(r)
    PROVE  IInv'
<1> SUFFICES ASSUME NEW n \in Run,
                    \/ Update(r, n) \/ Remove(r, n) \/ CreateEmpty(r, n) \/ Create(r, n)
                    \/ AddCases(r, n) \/ RemoveCase(r, n) \/ Assign(r, n) \/ Record(r, n)
                    \/ \E call \in {"start", "complete", "abort"} : Transition(r, n, call)
                    \/ \E i \in 0..MaxResult : LinkLocate(r, n, i)
             PROVE  IInv'
  BY DEF Begin
<1>1. CASE Update(r, n)
  BY <1>1, Calls, RequireSound DEF Update, RequireOpen
<1>2. CASE Remove(r, n)
  BY <1>2, Calls, RequireSound DEF Remove
<1>3. CASE AddCases(r, n)
  BY <1>3, Calls, RequireSound DEF AddCases, RequireOpen
<1>4. CASE RemoveCase(r, n)
  BY <1>4, Calls, RequireSound DEF RemoveCase, RequireOpen
<1>5. CASE Assign(r, n)
  BY <1>5, Calls, RequireSound DEF Assign, RequireOpen
<1>6. CASE Record(r, n)
  BY <1>6, Calls, RequireSound DEF Record, RequireOpen
<1>7. ASSUME NEW call \in {"start", "complete", "abort"}, Transition(r, n, call)
      PROVE  IInv'
  <2>1. call = "complete" => runs[n].status = "in_progress"
    BY <1>7 DEF Transition, Allowed
  <2>2. Require(r, n, call, "transition")
    BY <1>7 DEF Transition
  <2> QED
    BY <2>1, <2>2, Calls, RequireSound
<1>8. CASE CreateEmpty(r, n)
  <2>1. runs[n].status = "absent" /\ \A q \in Request : requests[q].run # n
    BY <1>8 DEF CreateEmpty, Fresh
  <2>2. /\ runs' = [runs EXCEPT ![n].status = "planned"]
        /\ UNCHANGED <<rows, recorded, results, links, library, requests>>
    BY <1>8 DEF CreateEmpty
  <2>3. /\ runs'[n].status = "planned" /\ runs'[n].started = runs[n].started
        /\ runs'[n].ended = runs[n].ended
        /\ \A m \in Run : m # n => runs'[m] = runs[m]
        /\ runs' \in [Run -> RunRecord]
    <3> DEFINE new == [runs[n] EXCEPT !.status = "planned"]
    <3>1. runs \in [Run -> RunRecord] /\ runs' = [runs EXCEPT ![n] = new]
      BY <2>2 DEF IInv, TypeOK
    <3>2. /\ new \in RunRecord /\ new.status = "planned"
          /\ new.started = runs[n].started /\ new.ended = runs[n].ended
      BY <3>1 DEF RunRecord, Status
    <3> HIDE DEF new
    <3> QED
      BY <3>1, <3>2
  <2>4. TablesTyped' /\ ResultsInPlace' /\ LatestAgrees' /\ SnapshotNotStale' /\ LinksLocated'
    BY <2>2, <2>3 DEF IInv, TypeOK, TablesTyped, Tables, ResultsInPlace, LatestAgrees, OfRow,
           SnapshotNotStale, LinksLocated
  <2>5. \A i \in 1..recorded : results[i].state # "gone" => results[i].run # n
    BY <2>1 DEF IInv, Tables, ResultsOfRuns
  <2>6. ResultsOfRuns'
    BY <2>2, <2>3, <2>5 DEF IInv, TypeOK, ResultRecord, Tables, ResultsOfRuns
  <2>7. ResultsStartTheRun' /\ DatesAgree'
    BY <2>1, <2>2, <2>3, <2>5 DEF IInv, Tables, ResultsStartTheRun, Exists, Committed, DatesAgree
  <2>8. \A q \in Request : Sound(q)'
    <3> SUFFICES ASSUME NEW q \in Request PROVE Sound(q)'
      OBVIOUS
    <3>1. Sound(q) /\ requests[q].run # n
      BY <2>1 DEF IInv
    <3>2. requests[q].pc # "idle" => runs'[requests[q].run] = runs[requests[q].run]
      BY <2>3, <3>1 DEF Sound
    <3>3. \A m \in Run : runs[m].started => runs'[m].started
      BY <2>3
    <3> QED
      BY <2>2, <3>1, <3>2, <3>3 DEF Sound
  <2> QED
    BY <2>2, <2>3, <2>4, <2>6, <2>7, <2>8 DEF IInv, TypeOK, TablesTyped, Tables, Apart
<1>9. CASE Create(r, n)
  <2> DEFINE new == [Idle EXCEPT !.pc = "select_cases", !.call = "create", !.run = n]
  <2>1. /\ new \in RequestState /\ new.pc = "select_cases" /\ new.call = "create"
        /\ new.run = n /\ new.ids = {}
    BY Calls, IdleTyped DEF RequestState, Idle
  <2>2. /\ requests' = [requests EXCEPT ![r] = new]
        /\ UNCHANGED <<runs, rows, recorded, results, links, library>>
        /\ runs[n].status = "absent" /\ \A q \in Request : requests[q].run # n
    BY <1>9 DEF Create, Fresh
  <2>3. requests'[r] = new
    BY <2>2 DEF IInv, TypeOK
  <2> HIDE DEF new
  <2>4. Sound(r)'
    BY <2>1, <2>2, <2>3 DEF Sound
  <2> QED
    BY <2>1, <2>2, <2>4, ReadStep
<1>10. ASSUME NEW i \in 0..MaxResult, LinkLocate(r, n, i)
       PROVE  IInv'
  <2> DEFINE new == [Idle EXCEPT !.pc = "link", !.call = "link", !.run = n, !.result = i]
  <2>1. /\ new \in RequestState /\ new.pc = "link" /\ new.call = "link"
        /\ new.run = n /\ new.result = i /\ new.ids = {}
    BY Calls, IdleTyped DEF RequestState, Idle
  <2>2. /\ requests' = [requests EXCEPT ![r] = new]
        /\ UNCHANGED <<runs, rows, recorded, results, links, library>>
        /\ runs[n].status # "absent"
        /\ i = 0 \/ (i \in 1..recorded /\ results[i].run = n)
    BY <1>10 DEF LinkLocate, Exists, Committed
  <2>3. requests'[r] = new /\ recorded \in Nat
    BY <2>2 DEF IInv, TypeOK
  <2> HIDE DEF new
  <2>4. Sound(r)'
    BY <2>1, <2>2, <2>3 DEF Sound
  <2> QED
    BY <2>1, <2>2, <2>4, ReadStep
<1> QED
  BY <1>1, <1>2, <1>3, <1>4, <1>5, <1>6, <1>7, <1>8, <1>9, <1>10

-----------------------------------------------------------------------------
(* The reads in the middle of a request. *)

\* Such a read changes some fields of the request's record: the ones it keeps
\* keep what is known of them.
LEMMA FindRowSound ==
    ASSUME IInv, NEW r \in Request, NEW k \in Row,
           NEW next \in {"delete_row", "assign", "record"},
           requests[r].pc = "find_row", FindRow(r, k, next)
    PROVE  IInv'
<1> DEFINE old == requests[r]
           new == [old EXCEPT !.pc = next, !.row = k, !.gen = rows[k].gen]
<1>1. old \in RequestState /\ rows[k].gen \in 0..MaxGen
  BY DEF IInv, TypeOK, RowRecord
<1>2. /\ new \in RequestState
      /\ new.pc = next /\ new.row = k /\ new.call = old.call /\ new.run = old.run
      /\ new.seen = old.seen /\ new.ids = old.ids
  BY <1>1, Calls DEF RequestState
<1>3. /\ requests' = [requests EXCEPT ![r] = new]
      /\ UNCHANGED <<runs, rows, recorded, results, links, library>>
      /\ k[1] = old.run
  BY DEF FindRow, IInv, TypeOK
<1>4. requests'[r] = new /\ Sound(r)
  BY <1>3 DEF IInv, TypeOK
<1>5. /\ old.run \in Run /\ (old.call = "create" <=> runs[old.run].status = "absent")
      /\ old.call # "create" /\ old.seen # "absent"
      /\ old.seen # "planned" => runs[old.run].status \notin {"absent", "planned"}
      /\ \A i \in old.ids : i \in 1..recorded /\ results[i].run = old.run
  BY <1>4 DEF FindRow, Sound
<1> HIDE DEF new, old
<1>6. Sound(r)'
  BY <1>2, <1>3, <1>4, <1>5 DEF Sound
<1> QED
  BY <1>2, <1>3, <1>5, <1>6, ReadStep

LEMMA RemoveReadSound ==
    ASSUME IInv, NEW r \in Request, RemoveRead(r)
    PROVE  IInv'
<1> DEFINE old == requests[r]
           new == [old EXCEPT !.pc = "remove", !.ids = Committed(old.run)]
<1>0. recorded \in 0..MaxResult /\ \A n : Committed(n) \subseteq 1..recorded
  BY DEF IInv, TypeOK, Committed
<1>1. old \in RequestState /\ Committed(old.run) \in SUBSET (1..MaxResult)
  BY <1>0 DEF IInv, TypeOK
<1>2. /\ new \in RequestState
      /\ new.pc = "remove" /\ new.call = old.call /\ new.run = old.run
      /\ new.ids = Committed(old.run)
  BY <1>1, Calls DEF RequestState
<1>3. /\ requests' = [requests EXCEPT ![r] = new]
      /\ UNCHANGED <<runs, rows, recorded, results, links, library>>
      /\ old.pc = "remove_read"
  BY DEF RemoveRead, IInv, TypeOK
<1>4. requests'[r] = new /\ Sound(r)
  BY <1>3 DEF IInv, TypeOK
<1>5. /\ old.run \in Run /\ (old.call = "create" <=> runs[old.run].status = "absent")
      /\ old.call # "create"
      /\ \A i \in Committed(old.run) : i \in 1..recorded /\ results[i].run = old.run
  BY <1>3, <1>4 DEF Sound, Committed
<1> HIDE DEF new, old
<1>6. Sound(r)'
  BY <1>2, <1>3, <1>4, <1>5 DEF Sound
<1> QED
  BY <1>2, <1>3, <1>5, <1>6, ReadStep

\* The three reads that fill a snapshot.
LEMMA SelectionSound ==
    ASSUME IInv, NEW r \in Request, NEW picked \in Snapshot,
           NEW next \in {"select_steps", "select_existing", "include"},
           requests[r].pc \in {"select_cases", "select_steps", "select_existing"},
           requests' = [requests EXCEPT ![r] = [requests[r] EXCEPT !.pc = next, !.picked = picked]],
           UNCHANGED <<runs, rows, recorded, results, links, library>>,
           \A c \in TestCase :
              IF next = "select_steps" THEN picked[c].version <= library[c].version
              ELSE picked[c].version # 0 =>
                      /\ picked[c].version <= picked[c].steps
                      /\ picked[c].steps <= library[c].version
    PROVE  IInv'
<1> DEFINE old == requests[r]
           new == [old EXCEPT !.pc = next, !.picked = picked]
<1>1. old \in RequestState
  BY DEF IInv, TypeOK
<1>2. /\ new \in RequestState
      /\ new.pc = next /\ new.call = old.call /\ new.run = old.run
      /\ new.ids = old.ids /\ new.picked = picked
  BY <1>1, Calls DEF RequestState
<1>3. requests' = [requests EXCEPT ![r] = new] /\ old.pc # "idle" /\ old.pc # "commit"
  OBVIOUS
<1>4. requests'[r] = new /\ Sound(r)
  BY <1>3 DEF IInv, TypeOK
<1>5. /\ old.run \in Run /\ (old.call = "create" <=> runs[old.run].status = "absent")
      /\ \A i \in old.ids : i \in 1..recorded /\ results[i].run = old.run
      /\ \A q \in Request \ {r} :
            old.call = "create" /\ requests[q].call = "create" => requests[q].run # old.run
  <2>1. /\ old.run \in Run /\ (old.call = "create" <=> runs[old.run].status = "absent")
        /\ \A i \in old.ids : i \in 1..recorded /\ results[i].run = old.run
    BY <1>3, <1>4 DEF Sound
  <2>2. \A q \in Request \ {r} :
            old.call = "create" /\ requests[q].call = "create" => requests[q].run # old.run
    BY DEF IInv, Apart
  <2> QED
    BY <2>1, <2>2
<1> HIDE DEF new, old
<1>6. Sound(r)'
  BY SMTT(30), <1>2, <1>4, <1>5 DEF Sound
<1> QED
  BY <1>2, <1>3, <1>5, <1>6, ReadStep

LEMMA ReadSound ==
    ASSUME IInv, NEW r \in Request,
           \/ RemoveRead(r) \/ SelectSteps(r) \/ SelectExisting(r)
           \/ \E S \in SUBSET TestCase : SelectCases(r, S)
           \/ \E k \in Row :
                 \/ RemoveCaseFind(r, k) \/ AssignFind(r, k)
                 \/ \E by \in Tester \cup {Senior} : RecordFind(r, k, by)
    PROVE  IInv'
<1> DEFINE old == requests[r]
<1>0. old \in RequestState /\ Sound(r)
  BY DEF IInv, TypeOK
<1>1. /\ \A c \in TestCase : library[c].version \in 1..MaxVersion
      /\ \A c \in TestCase : old.picked[c].version \in 0..MaxVersion
                             /\ old.picked[c].steps \in 0..MaxVersion
      /\ old.picked \in Snapshot
  BY <1>0 DEF IInv, TypeOK, Case, RequestState, Snapshot
<1>2. CASE RemoveRead(r)
  BY <1>2, RemoveReadSound
<1>3. ASSUME NEW S \in SUBSET TestCase, SelectCases(r, S) PROVE IInv'
  <2> DEFINE picked == [c \in TestCase |->
                [version |-> IF c \in S THEN library[c].version ELSE 0, steps |-> 0]]
  <2>1. picked \in Snapshot /\ \A c \in TestCase : picked[c].version <= library[c].version
    BY <1>1 DEF Snapshot
  <2>2. requests' = [requests EXCEPT ![r] =
                        [requests[r] EXCEPT !.pc = "select_steps", !.picked = picked]]
    BY <1>3 DEF SelectCases, IInv, TypeOK
  <2> HIDE DEF picked
  <2> QED
    BY <1>3, <2>1, <2>2, SelectionSound DEF SelectCases
<1>4. CASE SelectSteps(r)
  <2> DEFINE picked == [c \in TestCase |->
                IF old.picked[c].version = 0 THEN old.picked[c]
                ELSE [version |-> old.picked[c].version, steps |-> library[c].version]]
  <2>1. old.pc = "select_steps"
    BY <1>4 DEF SelectSteps
  <2>2. \A c \in TestCase : old.picked[c].version <= library[c].version
    BY <1>0, <2>1 DEF Sound
  <2>3. picked \in Snapshot
    BY <1>1 DEF Snapshot
  <2>4. \A c \in TestCase : picked[c].version # 0 =>
            picked[c].version <= picked[c].steps /\ picked[c].steps <= library[c].version
    BY <1>1, <2>2
  <2>5. requests' = [requests EXCEPT ![r] =
                        [requests[r] EXCEPT !.pc = "select_existing", !.picked = picked]]
    BY <1>4 DEF SelectSteps, IInv, TypeOK
  <2> HIDE DEF picked
  <2> QED
    BY <1>4, <2>1, <2>3, <2>4, <2>5, SelectionSound DEF SelectSteps
<1>5. CASE SelectExisting(r)
  <2> DEFINE picked == [c \in TestCase |->
                IF rows[<<old.run, c>>].present THEN Nothing[c] ELSE old.picked[c]]
  <2>1. old.pc = "select_existing"
    BY <1>5 DEF SelectExisting
  <2>2. \A c \in TestCase : old.picked[c].version # 0 =>
            old.picked[c].version <= old.picked[c].steps /\ old.picked[c].steps <= library[c].version
    BY <1>0, <2>1 DEF Sound
  <2>3. picked \in Snapshot
    BY <1>1 DEF Snapshot, Nothing
  <2>4. \A c \in TestCase : picked[c].version # 0 =>
            picked[c].version <= picked[c].steps /\ picked[c].steps <= library[c].version
    BY <1>1, <2>2 DEF Nothing
  <2>5. requests' = [requests EXCEPT ![r] =
                        [requests[r] EXCEPT !.pc = "include", !.picked = picked]]
    BY <1>5 DEF SelectExisting, IInv, TypeOK
  <2> HIDE DEF picked
  <2> QED
    BY <1>5, <2>1, <2>3, <2>4, <2>5, SelectionSound DEF SelectExisting
<1>6. ASSUME NEW k \in Row, RemoveCaseFind(r, k) PROVE IInv'
  BY <1>6, FindRowSound DEF RemoveCaseFind
<1>7. ASSUME NEW k \in Row, AssignFind(r, k) PROVE IInv'
  BY <1>7, FindRowSound DEF AssignFind
<1>8. ASSUME NEW k \in Row, NEW by \in Tester \cup {Senior}, RecordFind(r, k, by) PROVE IInv'
  BY <1>8, FindRowSound DEF RecordFind
<1> QED
  BY <1>2, <1>3, <1>4, <1>5, <1>6, <1>7, <1>8

-----------------------------------------------------------------------------
(* The writes. *)

\* A write to a run that exists: it keeps or leaves planned, never comes back.
LEMMA RunWritten ==
    ASSUME IInv, NEW r \in Request, NEW n \in Run, NEW new \in RunRecord,
           runs' = [runs EXCEPT ![n] = new], Finish(r), links' \subseteq links,
           UNCHANGED <<rows, recorded, results, library>>,
           Exists(n), runs[n].started => new.started, new.status # "absent",
           new.status = "planned" => runs[n].status = "planned",
           new.status \in {"in_progress", "completed"} => new.started,
           new.status \in {"completed", "aborted"} => new.ended,
           new.status = "planned" => ~new.started /\ ~new.ended
    PROVE  IInv'
<1>1. /\ runs' \in [Run -> RunRecord] /\ runs'[n] = new
      /\ \A m \in Run : m # n => runs'[m] = runs[m]
      /\ runs[n].status # "absent" /\ ~runs[n].deleted
  BY DEF IInv, TypeOK, Exists
<1>2. TablesTyped'
  BY <1>1 DEF IInv, TypeOK, TablesTyped
<1>3. ResultsInPlace' /\ LatestAgrees' /\ SnapshotNotStale' /\ LinksLocated'
  BY DEF IInv, Tables, ResultsInPlace, LatestAgrees, OfRow, SnapshotNotStale, LinksLocated
<1>4. ResultsOfRuns'
  BY <1>1 DEF IInv, TypeOK, ResultRecord, Tables, ResultsOfRuns
<1>5. ResultsStartTheRun' /\ DatesAgree'
  BY <1>1 DEF IInv, Tables, ResultsStartTheRun, DatesAgree, Exists, Committed
<1>6. recorded \in Nat /\ \A c \in TestCase : library[c].version \in Nat
  BY DEF IInv, TypeOK, Case
<1>7. Steady(Request \ {r})
  <2>1. \A q \in Request : requests[q].pc = "commit" => results[requests[q].result].state = "pending"
    BY DEF IInv, Sound
  <2>2. \A q \in Request : requests[q].pc # "idle" => requests[q].run \in Run
    BY DEF IInv, Sound
  <2> QED
    BY <1>1, <1>6, <2>1, <2>2 DEF Steady
<1> QED
  BY <1>2, <1>3, <1>4, <1>5, <1>7, FinishStep DEF Tables

\* A write that finds its row gone.
LEMMA NothingWritten ==
    ASSUME IInv, NEW r \in Request, Finish(r),
           UNCHANGED <<runs, rows, recorded, results, links, library>>
    PROVE  IInv'
<1>1. requests'[r] = Idle
  BY DEF Finish, IInv, TypeOK
<1>2. Sound(r)'
  BY <1>1 DEF Sound, Idle
<1>3. Idle.pc # "commit" /\ Idle.call # "create"
  BY DEF Idle
<1> QED
  BY <1>2, <1>3, IdleTyped, ReadStep DEF Finish

LEMMA MovedRun ==
    ASSUME NEW run \in RunRecord, NEW target \in {"in_progress", "completed", "aborted"}
    PROVE  /\ Moved(run, target) \in RunRecord
           /\ Moved(run, target).status = target
           /\ Moved(run, target).deleted = run.deleted
           /\ Moved(run, target).started <=> (run.started \/ target = "in_progress")
           /\ Moved(run, target).ended <=> (run.ended \/ target \in {"completed", "aborted"})
BY DEF Moved, RunRecord, Status

LEMMA UpdateSound ==
    ASSUME IInv, NEW r \in Request, UpdateWrite(r)
    PROVE  IInv'
<1> DEFINE n == requests[r].run
           new == [runs[n] EXCEPT !.edited = TRUE]
<1>1. n \in Run
  BY DEF UpdateWrite, IInv, Sound
<1>2. CASE Exists(n)
  <2>0. runs[n] \in RunRecord
    BY <1>1 DEF IInv, TypeOK
  <2>1. /\ new \in RunRecord /\ new.status = runs[n].status
        /\ new.started <=> runs[n].started
        /\ new.ended <=> runs[n].ended
    BY <2>0 DEF RunRecord
  <2>2. runs' = [runs EXCEPT ![n] = new] /\ links' = links
    BY <1>2, <1>1 DEF UpdateWrite, IInv, TypeOK
  <2>3. /\ runs[n].status \in {"in_progress", "completed"} => runs[n].started
        /\ runs[n].status \in {"completed", "aborted"} => runs[n].ended
        /\ runs[n].status = "planned" => ~runs[n].started /\ ~runs[n].ended
    BY <1>1 DEF IInv, Tables, DatesAgree
  <2>4. runs[n].status # "absent"
    BY <1>2 DEF Exists
  <2> HIDE DEF new
  <2> QED
    BY <1>1, <1>2, <2>1, <2>2, <2>3, <2>4, RunWritten DEF UpdateWrite
<1> QED
  BY <1>2, NothingWritten DEF UpdateWrite

LEMMA TransitionSound ==
    ASSUME IInv, NEW r \in Request, TransitionWrite(r)
    PROVE  IInv'
<1> DEFINE n == requests[r].run
           target == Target[requests[r].call]
           new == Moved(runs[n], target)
<1>1. /\ n \in Run /\ requests[r].call \in {"start", "complete", "abort"}
      /\ requests[r].call = "complete" => runs[n].started
  BY DEF TransitionWrite, IInv, Sound
<1>2. target \in {"in_progress", "completed", "aborted"} /\ (target = "completed" => runs[n].started)
  BY <1>1 DEF Target
<1>3. CASE Exists(n)
  <2>1. runs[n] \in RunRecord
    BY <1>1 DEF IInv, TypeOK
  <2>2. /\ new \in RunRecord /\ new.status = target
        /\ new.started <=> (runs[n].started \/ target = "in_progress")
        /\ new.ended <=> (runs[n].ended \/ target \in {"completed", "aborted"})
    BY <1>2, <2>1, MovedRun
  <2>3. runs' = [runs EXCEPT ![n] = new] /\ links' = links
    BY <1>3, <1>1 DEF TransitionWrite, IInv, TypeOK
  <2> HIDE DEF new, target
  <2> QED
    BY <1>1, <1>2, <1>3, <2>2, <2>3, RunWritten DEF TransitionWrite
<1> QED
  BY <1>3, NothingWritten DEF TransitionWrite

LEMMA RemoveSound ==
    ASSUME IInv, NEW r \in Request, RemoveCommit(r)
    PROVE  IInv'
<1> DEFINE n == requests[r].run
           new == [runs[n] EXCEPT !.deleted = TRUE]
<1>1. n \in Run
  BY DEF RemoveCommit, IInv, Sound
<1>2. CASE Exists(n)
  <2>0. runs[n] \in RunRecord
    BY <1>1 DEF IInv, TypeOK
  <2>1. /\ new \in RunRecord /\ new.status = runs[n].status
        /\ new.started <=> runs[n].started
        /\ new.ended <=> runs[n].ended
    BY <2>0 DEF RunRecord
  <2>2. runs' = [runs EXCEPT ![n] = new] /\ links' \subseteq links
    BY <1>2, <1>1 DEF RemoveCommit, IInv, TypeOK
  <2>3. /\ runs[n].status \in {"in_progress", "completed"} => runs[n].started
        /\ runs[n].status \in {"completed", "aborted"} => runs[n].ended
        /\ runs[n].status = "planned" => ~runs[n].started /\ ~runs[n].ended
    BY <1>1 DEF IInv, Tables, DatesAgree
  <2>4. runs[n].status # "absent"
    BY <1>2 DEF Exists
  <2> HIDE DEF new
  <2> QED
    BY <1>1, <1>2, <2>1, <2>2, <2>3, <2>4, RunWritten DEF RemoveCommit
<1> QED
  BY <1>2, NothingWritten DEF RemoveCommit

\* What every step that leaves the runs and the library alone, and neither adds
\* nor takes away a pending result of another request, owes to the others.
LEMMA SteadyTables ==
    ASSUME IInv, NEW r \in Request, UNCHANGED <<runs, library>>,
           recorded' \in Nat, recorded <= recorded',
           \A i \in 1..recorded :
              results'[i].run = results[i].run /\ results'[i].row = results[i].row,
           \A q \in Request \ {r} :
              requests[q].pc = "commit" => results'[requests[q].result].state = "pending"
    PROVE  Steady(Request \ {r})
<1>1. \A c \in TestCase : library[c].version \in Nat
  BY DEF IInv, TypeOK, Case
<1> QED
  BY <1>1 DEF Steady

LEMMA IncludeSound ==
    ASSUME IInv, NEW r \in Request, Include(r)
    PROVE  IInv'
<1> DEFINE q == requests[r]
           n == q.run
           new == {k \in Row : k[1] = n /\ q.picked[k[2]].version # 0 /\ ~rows[k].present}
           row(k) == [NoRow EXCEPT !.present = TRUE, !.gen = rows[k].gen + 1,
                                   !.version = q.picked[k[2]].version,
                                   !.steps = q.picked[k[2]].steps]
<1>1. /\ q \in RequestState /\ n \in Run /\ Sound(r)
      /\ \A k \in Row : rows[k] \in RowRecord
      /\ \A c \in TestCase : library[c] \in Case
      /\ recorded \in Nat
  <2>1. Sound(r) /\ q \in RequestState
    BY DEF IInv, TypeOK
  <2>2. n \in Run
    BY <2>1 DEF Include, Sound
  <2> QED
    BY <2>1, <2>2 DEF IInv, TypeOK
<1>2. /\ \A k \in new : rows[k].gen < MaxGen
      /\ rows' = [k \in Row |-> IF k \in new THEN row(k) ELSE rows[k]]
      /\ runs' = IF q.call = "create" THEN [runs EXCEPT ![n].status = "planned"] ELSE runs
      /\ Finish(r)
      /\ UNCHANGED <<recorded, results, links, library>>
      /\ q.pc = "include"
  BY DEF Include
<1>3. \A c \in TestCase : q.picked[c].version # 0 =>
          /\ q.picked[c].version \in Version /\ q.picked[c].steps \in Version
          /\ q.picked[c].version <= q.picked[c].steps
          /\ q.picked[c].steps <= library[c].version
  <2> SUFFICES ASSUME NEW c \in TestCase, q.picked[c].version # 0
               PROVE  /\ q.picked[c].version \in Version /\ q.picked[c].steps \in Version
                      /\ q.picked[c].version <= q.picked[c].steps
                      /\ q.picked[c].steps <= library[c].version
    OBVIOUS
  <2>1. q.picked[c].version \in 0..MaxVersion /\ q.picked[c].steps \in 0..MaxVersion
    BY <1>1 DEF RequestState, Snapshot
  <2>2. q.picked[c].version <= q.picked[c].steps /\ q.picked[c].steps <= library[c].version
    BY <1>1, <1>2 DEF Sound
  <2> QED
    BY <2>1, <2>2
<1>4. ASSUME NEW k \in new
      PROVE  /\ row(k) \in RowRecord /\ row(k).present /\ row(k).latest = "untested"
             /\ row(k).version = q.picked[k[2]].version /\ row(k).steps = q.picked[k[2]].steps
  <2>1. k[2] \in TestCase /\ rows[k].gen + 1 \in 0..MaxGen
    <3>1. k \in Row /\ rows[k].gen < MaxGen
      BY <1>2
    <3>2. rows[k].gen \in 0..MaxGen
      BY <1>1, <3>1 DEF RowRecord
    <3> QED
      BY <3>1, <3>2 DEF Row
  <2>2. q.picked[k[2]].version \in Version /\ q.picked[k[2]].steps \in Version
    BY <1>3, <2>1
  <2>3. NoRow \in RowRecord
    BY DEF NoRow, RowRecord
  <2> QED
    BY <2>1, <2>2, <2>3 DEF RowRecord, NoRow
<1>5. q.call = "create" =>
         /\ runs[n].status = "absent"
         /\ \A p \in Request \ {r} : requests[p].pc # "idle" => requests[p].run # n
  <2> SUFFICES ASSUME q.call = "create", NEW p \in Request \ {r}, requests[p].pc # "idle",
                      requests[p].run = n
               PROVE  FALSE
    BY <1>1, <1>2 DEF Sound
  <2>1. requests[p].call = "create"
    BY <1>1, <1>2 DEF Sound, IInv
  <2> QED
    BY <2>1 DEF IInv, Apart
<1>6. /\ runs' \in [Run -> RunRecord]
      /\ \A m \in Run : m # n => runs'[m] = runs[m]
      /\ runs'[n].status = IF q.call = "create" THEN "planned" ELSE runs[n].status
      /\ runs'[n].deleted <=> runs[n].deleted
      /\ runs'[n].started <=> runs[n].started
      /\ runs'[n].ended <=> runs[n].ended
  <2>1. runs \in [Run -> RunRecord] /\ runs[n] \in RunRecord /\ "planned" \in Status
    BY <1>1 DEF IInv, TypeOK, Status
  <2>2. CASE q.call = "create"
    <3>1. runs' = [runs EXCEPT ![n] = [runs[n] EXCEPT !.status = "planned"]]
      BY <1>2, <2>2
    <3>2. [runs[n] EXCEPT !.status = "planned"] \in RunRecord
      BY <2>1 DEF RunRecord
    <3> QED
      BY <1>1, <2>1, <2>2, <3>1, <3>2 DEF RunRecord
  <2> QED
    BY <1>2, <2>1, <2>2
<1>7. TablesTyped'
  BY <1>2, <1>4, <1>6 DEF IInv, TypeOK, TablesTyped
<1>8. /\ \A k \in new : rows'[k] = row(k) /\ ~rows[k].present
      /\ \A k \in Row \ new : rows'[k] = rows[k]
      /\ new \subseteq Row
  BY <1>2
<1>8a. \A k \in new : k[2] \in TestCase /\ q.picked[k[2]].version # 0
  BY DEF Row
<1> HIDE DEF new, row
<1>9. ResultsInPlace'
  BY <1>1, <1>2, <1>4, <1>8 DEF IInv, TypeOK, ResultRecord, Tables, ResultsInPlace
<1>10. LatestAgrees'
  <2>1. \A k \in Row : OfRow(k)' = OfRow(k)
    BY <1>2 DEF OfRow
  <2>2. \A k \in new : OfRow(k) = {}
    BY <1>8 DEF IInv, Tables, ResultsInPlace, OfRow
  <2> SUFFICES ASSUME NEW k \in Row, rows'[k].present
               PROVE  IF rows'[k].latest = "untested" THEN OfRow(k) = {}
                      ELSE \E i \in OfRow(k) :
                              /\ results[i].status = rows'[k].latest
                              /\ \A j \in OfRow(k) : j > i => j \in results[i].over
    BY <1>2, <2>1 DEF LatestAgrees
  <2>3. CASE k \in new
    BY <1>4, <1>8, <2>2, <2>3
  <2>4. CASE k \notin new
    BY <1>8, <2>4 DEF IInv, Tables, LatestAgrees
  <2> QED
    BY <2>3, <2>4
<1>11. SnapshotNotStale'
  <2> SUFFICES ASSUME NEW k \in Row, rows'[k].present
               PROVE  rows'[k].version <= rows'[k].steps /\ rows'[k].steps <= library[k[2]].version
    BY <1>2 DEF SnapshotNotStale
  <2>1. CASE k \in new
    BY <1>3, <1>4, <1>8, <1>8a, <2>1
  <2>2. CASE k \notin new
    BY <1>8, <2>2 DEF IInv, Tables, SnapshotNotStale
  <2> QED
    BY <2>1, <2>2
<1>12. LinksLocated'
  BY <1>2 DEF IInv, Tables, LinksLocated
<1>13. ResultsOfRuns'
  BY <1>2, <1>6 DEF IInv, TypeOK, ResultRecord, Tables, ResultsOfRuns
<1>14. ResultsStartTheRun' /\ DatesAgree'
  <2>1. q.call = "create" => Committed(n) = {}
    BY <1>5 DEF IInv, Tables, ResultsOfRuns, Committed
  <2> QED
    <3>1. \A m \in Run : Committed(m)' = Committed(m)
      BY <1>2 DEF Committed
    <3>2. ResultsStartTheRun'
      BY <1>6, <2>1, <3>1 DEF IInv, Tables, ResultsStartTheRun, Exists
    <3>3. DatesAgree'
      BY <1>5, <1>6 DEF IInv, Tables, DatesAgree
    <3> QED
      BY <3>2, <3>3
<1>15. Steady(Request \ {r})
  <2>1. \A p \in Request : requests[p].pc = "commit" => results[requests[p].result].state = "pending"
    BY DEF IInv, Sound
  <2>2. \A c \in TestCase : library[c].version \in Nat
    BY <1>1 DEF Case
  <2>3. \A p \in Request \ {r} : requests[p].pc # "idle" /\ runs[requests[p].run].status = "absent"
            => runs'[requests[p].run].status = "absent"
    <3>1. \A p \in Request : requests[p].pc # "idle" => requests[p].run \in Run
      BY DEF IInv, Sound
    <3> QED
      BY <1>5, <1>6, <3>1
  <2>4. \A m \in Run :
          /\ runs[m].started => runs'[m].started
          /\ runs[m].status # "absent" => runs'[m].status # "absent"
          /\ runs[m].status \notin {"absent", "planned"} =>
                runs'[m].status \notin {"absent", "planned"}
    BY <1>5, <1>6
  <2> QED
    BY <1>1, <1>2, <2>1, <2>2, <2>3, <2>4 DEF Steady
<1> QED
  BY <1>2, <1>7, <1>9, <1>10, <1>11, <1>12, <1>13, <1>14, <1>15, FinishStep DEF Tables

LEMMA AssignSound ==
    ASSUME IInv, NEW r \in Request, AssignWrite(r)
    PROVE  IInv'
<1> DEFINE k == requests[r].row
<1>1. k \in Row
  BY DEF AssignWrite, IInv, Sound
<1>2. ASSUME NEW t \in Tester \cup {Nobody}, rows' = [rows EXCEPT ![k].assignee = t]
      PROVE  IInv'
  <2>1. rows[k] \in RowRecord
    BY <1>1 DEF IInv, TypeOK
  <2>2. /\ rows' \in [Row -> RowRecord]
        /\ \A j \in Row : /\ rows'[j].present <=> rows[j].present
                          /\ rows'[j].latest = rows[j].latest
                          /\ rows'[j].version = rows[j].version
                          /\ rows'[j].steps = rows[j].steps
    BY <1>1, <1>2, <2>1 DEF IInv, TypeOK, RowRecord
  <2>3. UNCHANGED <<runs, recorded, results, links, library>> /\ Finish(r)
    BY DEF AssignWrite
  <2>4. TablesTyped'
    BY <2>2, <2>3 DEF IInv, TypeOK, TablesTyped
  <2>5. ResultsInPlace' /\ LatestAgrees' /\ SnapshotNotStale'
    BY <2>2, <2>3 DEF IInv, TypeOK, ResultRecord, Tables, ResultsInPlace, LatestAgrees, OfRow,
           SnapshotNotStale
  <2>6. ResultsOfRuns' /\ ResultsStartTheRun' /\ DatesAgree' /\ LinksLocated'
    BY <2>3 DEF IInv, Tables, ResultsOfRuns, ResultsStartTheRun, Exists, Committed,
           DatesAgree, LinksLocated
  <2>7. Steady(Request \ {r})
    <3>1. recorded \in Nat
      BY DEF IInv, TypeOK
    <3>2. \A p \in Request : requests[p].pc = "commit" => results[requests[p].result].state = "pending"
      BY DEF IInv, Sound
    <3> QED
      BY <2>3, <3>1, <3>2, SteadyTables
  <2> QED
    BY <2>3, <2>4, <2>5, <2>6, <2>7, FinishStep DEF Tables
<1> QED
  BY <1>2, NothingWritten DEF AssignWrite

LEMMA DeleteRowSound ==
    ASSUME IInv, NEW r \in Request, DeleteRow(r)
    PROVE  IInv'
<1> DEFINE k == requests[r].row
           gone == [NoRow EXCEPT !.gen = requests[r].gen]
<1>1. /\ k \in Row /\ requests[r].gen \in 0..MaxGen /\ recorded \in Nat
      /\ \A i \in 1..recorded : results[i] \in ResultRecord
  <2>1. requests[r] \in RequestState /\ Sound(r)
    BY DEF IInv, TypeOK
  <2>2. k \in Row
    BY <2>1 DEF DeleteRow, Sound
  <2> QED
    BY <2>1, <2>2 DEF IInv, TypeOK, RequestState
<1>2. CASE Found(r)
  <2>1. /\ rows' = [rows EXCEPT ![k] = gone]
        /\ results' = [i \in 1..recorded |->
              IF i \in OfRow(k) THEN [results[i] EXCEPT !.state = "lost"] ELSE results[i]]
        /\ \A i \in 1..recorded : results[i].row = k => results[i].state # "pending"
        /\ UNCHANGED <<runs, recorded, links, library>> /\ Finish(r)
    BY <1>2 DEF DeleteRow
  <2>2. gone \in RowRecord /\ ~gone.present
    <3>1. NoRow \in RowRecord /\ NoRow.present = FALSE
      BY DEF NoRow, RowRecord
    <3> QED
      BY <1>1, <3>1 DEF RowRecord
  <2>3. /\ rows' \in [Row -> RowRecord]
        /\ \A j \in Row : j # k => rows'[j] = rows[j]
        /\ ~rows'[k].present
    BY <1>1, <2>1, <2>2 DEF IInv, TypeOK
  <2>4. ASSUME NEW i \in 1..recorded
        PROVE  /\ results'[i] \in ResultRecord
               /\ results'[i].run = results[i].run /\ results'[i].row = results[i].row
               /\ results'[i].status = results[i].status
               /\ results'[i].over = results[i].over
               /\ results'[i].state = IF i \in OfRow(k) THEN "lost" ELSE results[i].state
    <3>1. results[i] \in ResultRecord
      BY <1>1
    <3>2. CASE i \in OfRow(k)
      <4>1. results'[i] = [results[i] EXCEPT !.state = "lost"]
        BY <2>1, <3>2
      <4> QED
        BY <3>1, <3>2, <4>1 DEF ResultRecord
    <3>3. CASE i \notin OfRow(k)
      BY <2>1, <3>1, <3>3
    <3> QED
      BY <3>2, <3>3
  <2>5. results' \in [1..recorded -> ResultRecord]
    <3>1. results' = [i \in 1..recorded |-> results'[i]]
      BY <2>1
    <3> QED
      BY <2>4, <3>1
  <2> HIDE DEF gone
  <2>6. TablesTyped'
    BY <2>1, <2>3, <2>5 DEF IInv, TypeOK, TablesTyped
  <2>7. ResultsInPlace'
    BY <1>1, <2>1, <2>3, <2>4 DEF IInv, Tables, ResultsInPlace, ResultRecord, OfRow
  <2>8. LatestAgrees'
    <3>1. \A j \in Row : j # k => OfRow(j)' = OfRow(j)
      BY <2>1, <2>4 DEF OfRow
    <3> SUFFICES ASSUME NEW j \in Row, rows'[j].present
                 PROVE  IF rows'[j].latest = "untested" THEN OfRow(j)' = {}
                        ELSE \E i \in OfRow(j)' :
                                /\ results'[i].status = rows'[j].latest
                                /\ \A m \in OfRow(j)' : m > i => m \in results'[i].over
      BY DEF LatestAgrees
    <3>2. j # k /\ rows'[j] = rows[j]
      BY <2>3
    <3>3. OfRow(j) \subseteq 1..recorded
      BY DEF OfRow
    <3> QED
      BY <2>4, <3>1, <3>2, <3>3 DEF IInv, Tables, LatestAgrees
  <2>9. SnapshotNotStale' /\ DatesAgree'
    BY <2>1, <2>3 DEF IInv, Tables, SnapshotNotStale, DatesAgree
  <2>10. ResultsOfRuns' /\ LinksLocated'
    <3>1. \A i \in 1..recorded : results'[i].state # "gone" => results[i].state # "gone"
      BY <2>4 DEF OfRow
    <3>2. runs' = runs /\ recorded' = recorded /\ links' = links
      BY <2>1
    <3>3. ResultsOfRuns'
      BY <2>4, <3>1, <3>2 DEF IInv, Tables, ResultsOfRuns
    <3>4. \A l \in links : l.result # 0 => l.result \in 1..recorded
      BY <1>1 DEF IInv, Tables, LinksLocated
    <3> QED
      BY <2>4, <3>2, <3>3, <3>4 DEF IInv, Tables, LinksLocated
  <2>11. ResultsStartTheRun'
    <3>1. \A n \in Run : Committed(n)' \subseteq Committed(n)
      BY <2>1, <2>4 DEF Committed, OfRow
    <3> QED
      BY <2>1, <3>1 DEF IInv, Tables, ResultsStartTheRun, Exists
  <2>12. Steady(Request \ {r})
    <3>1. \A p \in Request \ {r} : requests[p].pc = "commit" =>
              results'[requests[p].result].state = "pending"
      BY <2>1, <2>4 DEF IInv, Sound, OfRow
    <3>2. runs' = runs /\ library' = library /\ recorded' = recorded
      BY <2>1
    <3>3. recorded' \in Nat /\ recorded <= recorded'
      BY <1>1, <3>2
    <3>4. \A i \in 1..recorded :
              results'[i].run = results[i].run /\ results'[i].row = results[i].row
      BY <2>4
    <3> QED
      BY <3>1, <3>2, <3>3, <3>4, SteadyTables
  <2> QED
    BY <2>1, <2>6, <2>7, <2>8, <2>9, <2>10, <2>11, <2>12, FinishStep DEF Tables
<1> QED
  BY <1>2, NothingWritten DEF DeleteRow

LEMMA RecordInsertSound ==
    ASSUME IInv, NEW r \in Request, RecordInsert(r)
    PROVE  IInv'
<1> DEFINE k == requests[r].row
           m == recorded + 1
<1>1. /\ k \in Row /\ k[1] = requests[r].run /\ requests[r].run \in Run
      /\ requests[r].call # "create" /\ runs[requests[r].run].status # "absent"
      /\ recorded \in Nat /\ requests[r] \in RequestState
      /\ requests[r].seen # "absent"
      /\ requests[r].seen # "planned" => runs[requests[r].run].status \notin {"absent", "planned"}
      /\ \A i \in requests[r].ids : i \in 1..recorded /\ results[i].run = requests[r].run
  <2>1. requests[r] \in RequestState /\ Sound(r) /\ recorded \in Nat
    BY DEF IInv, TypeOK
  <2> QED
    BY <2>1 DEF RecordInsert, Sound
<1>2. ASSUME NEW v \in Verdict, Found(r), recorded < MaxResult, recorded' = m,
             results' = [i \in 1..m |->
                 IF i = m THEN [state |-> "pending", run |-> requests[r].run,
                                row |-> k, status |-> v,
                                over |-> {}, doomed |-> FALSE] ELSE results[i]],
             requests' = [requests EXCEPT ![r].pc = "commit", ![r].result = m],
             UNCHANGED <<runs, rows, links, library>>
      PROVE  IInv'
  <2> DEFINE row == [state |-> "pending", run |-> requests[r].run, row |-> k, status |-> v,
                     over |-> {}, doomed |-> FALSE]
             new == [requests[r] EXCEPT !.pc = "commit", !.result = m]
  <2>1. m \in 1..MaxResult /\ row \in ResultRecord
    BY <1>1, <1>2 DEF ResultRecord
  <2>2. /\ results'[m] = row /\ \A i \in 1..recorded : results'[i] = results[i]
        /\ results' \in [1..m -> ResultRecord]
    <3>1. results' = [i \in 1..m |-> IF i = m THEN row ELSE results[i]]
      BY <1>2
    <3>2. results \in [1..recorded -> ResultRecord]
      BY DEF IInv, TypeOK
    <3> HIDE DEF row
    <3>3. \A i \in 1..m : i = m \/ i \in 1..recorded
      BY <1>1
    <3> QED
      BY <1>1, <2>1, <3>1, <3>2, <3>3
  <2>3. /\ new \in RequestState /\ new.pc = "commit" /\ new.result = m
        /\ new.run = requests[r].run /\ new.row = k /\ new.call = requests[r].call
        /\ new.seen = requests[r].seen /\ new.ids = requests[r].ids
    <3>1. requests[r] \in RequestState /\ m \in 0..MaxResult /\ "commit" \in Step
      BY <1>1, <2>1 DEF Step
    <3> HIDE DEF m
    <3> QED
      BY <3>1 DEF RequestState
  <2>4. requests' = [requests EXCEPT ![r] = new]
    BY <1>2 DEF IInv, TypeOK
  <2>5. requests'[r] = new
    BY <2>4 DEF IInv, TypeOK
  <2>6. \A i \in 1..m : i = m \/ i \in 1..recorded
    BY <1>1
  <2>7. /\ row.state = "pending" /\ row.run = requests[r].run /\ row.row = k
        /\ m \notin 1..recorded /\ 1..recorded \subseteq 1..m
    BY <1>1
  <2>8. rows[k].present
    BY <1>2 DEF Found
  <2> HIDE DEF new, row
  <2>9. TablesTyped'
    <3>1. UNCHANGED <<runs, rows, links, library>> /\ recorded' = m
      BY <1>2
    <3>2. m \in 0..MaxResult
      BY <2>1
    <3> QED
      BY <2>2, <3>1, <3>2 DEF IInv, TypeOK, TablesTyped
  <2>10. ResultsInPlace' /\ ResultsOfRuns'
    BY <1>1, <1>2, <2>2, <2>6, <2>7, <2>8 DEF IInv, Tables, ResultsInPlace, ResultsOfRuns
  <2>11. (\A j \in Row : OfRow(j)' = OfRow(j)) /\ (\A n \in Run : Committed(n)' = Committed(n))
    BY <1>2, <2>2, <2>6, <2>7 DEF OfRow, Committed
  <2>12. LatestAgrees'
    <3>1. \A j \in Row : OfRow(j) \subseteq 1..recorded
      BY DEF OfRow
    <3> QED
      <4> SUFFICES ASSUME NEW j \in Row, rows[j].present
                   PROVE  IF rows[j].latest = "untested" THEN OfRow(j) = {}
                          ELSE \E i \in OfRow(j) :
                                  /\ results'[i].status = rows[j].latest
                                  /\ \A l \in OfRow(j) : l > i => l \in results'[i].over
        BY <1>2, <2>11 DEF LatestAgrees
      <4>1. \A i \in OfRow(j) : results'[i] = results[i]
        BY <2>2, <3>1
      <4> QED
        BY <4>1 DEF IInv, Tables, LatestAgrees
  <2>13. ResultsStartTheRun' /\ DatesAgree' /\ SnapshotNotStale'
    BY <1>2, <2>11 DEF IInv, Tables, ResultsStartTheRun, Exists, DatesAgree, SnapshotNotStale
  <2>14. LinksLocated'
    BY <1>1, <1>2, <2>2 DEF IInv, Tables, LinksLocated
  <2>15. Sound(r)'
    <3>1. /\ new.run \in Run /\ new.call # "create" /\ runs'[new.run].status # "absent"
          /\ new.seen # "absent"
          /\ new.seen # "planned" => runs'[new.run].status \notin {"absent", "planned"}
          /\ new.row \in Row /\ new.row[1] = new.run
      BY <1>1, <1>2, <2>3
    <3>2. /\ new.result \in 1..recorded' /\ results'[new.result].state = "pending"
          /\ results'[new.result].run = new.run /\ results'[new.result].row = new.row
      BY <1>1, <1>2, <2>2, <2>3, <2>7
    <3>3. \A i \in new.ids : i \in 1..recorded' /\ results'[i].run = new.run
      BY <1>1, <1>2, <2>2, <2>3, <2>7
    <3> HIDE DEF k, m
    <3> QED
      BY <2>3, <2>5, <3>1, <3>2, <3>3 DEF Sound
  <2>16. \A p \in Request : requests[p].pc = "commit" =>
            requests[p].result \in 1..recorded /\ results[requests[p].result].state = "pending"
    BY DEF IInv, Sound
  <2>17. Steady(Request \ {r})
    <3>1. recorded' \in Nat /\ recorded <= recorded' /\ runs' = runs /\ library' = library
      BY <1>1, <1>2
    <3>2. \A p \in Request \ {r} : requests[p].pc = "commit" =>
              results'[requests[p].result].state = "pending"
      BY <2>2, <2>16
    <3> QED
      BY <2>2, <3>1, <3>2, SteadyTables
  <2>18. \A p \in Request \ {r} :
            /\ requests[p].pc = "commit" => new.result # requests[p].result
            /\ new.call # "create"
    BY <1>1, <2>3, <2>7, <2>16
  <2>19. Tables'
    BY <2>10, <2>12, <2>13, <2>14 DEF Tables
  <2> HIDE DEF k, m
  <2> QED
    BY <2>3, <2>4, <2>9, <2>15, <2>17, <2>18, <2>19, StepOf
<1>3. CASE ~Found(r)
  BY <1>3, NothingWritten DEF RecordInsert
<1> QED
  BY <1>2, <1>3 DEF RecordInsert

\* The end of a transaction that has inserted a result: it is committed or gone,
\* and the other pending results stay as they are.
LEMMA ResultEnds ==
    ASSUME IInv, NEW r \in Request, requests[r].pc = "commit",
           NEW new \in ResultRecord,
           new.run = results[requests[r].result].run,
           new.row = results[requests[r].result].row,
           new.status = results[requests[r].result].status,
           results' = [results EXCEPT ![requests[r].result] = new]
    PROVE  /\ requests[r].result \in 1..recorded /\ recorded \in Nat
           /\ results' \in [1..recorded -> ResultRecord]
           /\ \A j \in 1..recorded : /\ results'[j].run = results[j].run
                                     /\ results'[j].row = results[j].row
                                     /\ results'[j].status = results[j].status
           /\ \A j \in 1..recorded : j # requests[r].result => results'[j] = results[j]
           /\ results'[requests[r].result] = new
           /\ \A q \in Request \ {r} : requests[q].pc = "commit" =>
                 results'[requests[q].result].state = "pending"
<1> DEFINE i == requests[r].result
<1>1. i \in 1..recorded /\ recorded \in Nat /\ results \in [1..recorded -> ResultRecord]
  BY DEF IInv, TypeOK, Sound
<1>4. /\ results' \in [1..recorded -> ResultRecord] /\ results'[i] = new
      /\ \A j \in 1..recorded : j # i => results'[j] = results[j]
  BY <1>1
<1>5. ASSUME NEW q \in Request \ {r}, requests[q].pc = "commit"
      PROVE  results'[requests[q].result].state = "pending"
  <2>1. /\ requests[q].result \in 1..recorded /\ requests[q].result # i
        /\ results[requests[q].result].state = "pending"
    BY <1>5 DEF IInv, Sound, Apart
  <2> QED
    BY <1>4, <2>1
<1> QED
  BY <1>1, <1>4, <1>5

LEMMA RecordCommitSound ==
    ASSUME IInv, NEW r \in Request, RecordCommit(r)
    PROVE  IInv'
<1> DEFINE q == requests[r]
           n == q.run
           i == q.result
           k == q.row
           done == [results[i] EXCEPT !.state = "committed",
                                      !.over = {j \in OfRow(k) : j > i},
                                      !.doomed = BeingRemoved(k)]
<1>1. /\ q.pc = "commit" /\ Finish(r)
      /\ results' = [results EXCEPT ![i] = done]
      /\ rows' = [rows EXCEPT ![k].latest = results[i].status]
      /\ runs' = IF q.seen = "planned" /\ Exists(n)
                 THEN [runs EXCEPT ![n] = Moved(@, "in_progress")] ELSE runs
      /\ UNCHANGED <<recorded, links, library>>
  BY DEF RecordCommit, WithCommitted
<1>2. /\ n \in Run /\ runs[n].status # "absent" /\ k \in Row /\ k[1] = n
      /\ q.seen # "planned" => runs[n].status \notin {"absent", "planned"}
      /\ i \in 1..recorded /\ results[i].state = "pending"
      /\ results[i].run = n /\ results[i].row = k
  <2>1. Sound(r)
    BY DEF IInv
  <2> QED
    BY <1>1, <2>1 DEF Sound
<1>3. /\ recorded \in Nat
      /\ results' \in [1..recorded -> ResultRecord]
      /\ \A j \in 1..recorded : /\ results'[j].run = results[j].run
                                /\ results'[j].row = results[j].row
                                /\ results'[j].status = results[j].status
      /\ \A j \in 1..recorded : j # i => results'[j] = results[j]
      /\ results'[i].state = "committed"
      /\ results'[i].over = {j \in OfRow(k) : j > i}
      /\ \A p \in Request \ {r} : requests[p].pc = "commit" =>
            results'[requests[p].result].state = "pending"
  <2>1. results[i] \in ResultRecord /\ OfRow(k) \subseteq ResultId /\ BeingRemoved(k) \in BOOLEAN
    BY <1>2 DEF IInv, TypeOK, OfRow, BeingRemoved
  <2>2. {j \in OfRow(k) : j > i} \subseteq ResultId
    BY <2>1
  <2>3. /\ done \in ResultRecord /\ done.state = "committed"
        /\ done.run = results[i].run /\ done.row = results[i].row
        /\ done.status = results[i].status /\ done.over = {j \in OfRow(k) : j > i}
    <3> HIDE DEF i, k
    <3> QED
      BY <2>1, <2>2 DEF ResultRecord
  <2> HIDE DEF done
  <2> QED
    BY <1>1, <2>3, ResultEnds
<1>4. rows[k] \in RowRecord /\ results[i].status \in Verdict
  BY <1>2 DEF IInv, TypeOK, ResultRecord
<1>5. /\ rows' \in [Row -> RowRecord]
      /\ rows'[k].latest = results[i].status
      /\ \A j \in Row : j # k => rows'[j] = rows[j]
      /\ \A j \in Row : /\ rows'[j].present <=> rows[j].present
                        /\ rows'[j].version = rows[j].version
                        /\ rows'[j].steps = rows[j].steps
  <2> DEFINE new == [rows[k] EXCEPT !.latest = results[i].status]
  <2>1. /\ new \in RowRecord /\ new.latest = results[i].status
        /\ new.present <=> rows[k].present
        /\ new.version = rows[k].version /\ new.steps = rows[k].steps
    BY <1>4 DEF RowRecord
  <2>2. rows' = [rows EXCEPT ![k] = new] /\ rows \in [Row -> RowRecord]
    BY <1>1, <1>2 DEF IInv, TypeOK
  <2> HIDE DEF new
  <2> QED
    BY <1>2, <2>1, <2>2
<1>6. /\ runs' \in [Run -> RunRecord]
      /\ \A m \in Run : m # n => runs'[m] = runs[m]
      /\ runs'[n].deleted = runs[n].deleted
      /\ \/ /\ ~runs[n].deleted /\ runs'[n].status = "in_progress" /\ runs'[n].started
            /\ runs[n].ended => runs'[n].ended
         \/ /\ runs' = runs
            /\ runs[n].deleted \/ runs[n].status # "planned"
  <2>1. runs \in [Run -> RunRecord] /\ runs[n] \in RunRecord
    BY <1>2 DEF IInv, TypeOK
  <2>2. CASE q.seen = "planned" /\ Exists(n)
    <3>1. runs' = [runs EXCEPT ![n] = Moved(runs[n], "in_progress")]
      BY <1>1, <2>2
    <3> QED
      BY <1>2, <2>1, <2>2, <3>1, MovedRun DEF Exists
  <2>3. CASE ~(q.seen = "planned" /\ Exists(n))
    BY <1>1, <1>2, <2>1, <2>3 DEF Exists
  <2> QED
    BY <2>2, <2>3
<1>7. links' = links /\ library' = library /\ recorded' = recorded
  BY <1>1
<1> HIDE DEF q, n, i, k, done
<1>8. TablesTyped'
  BY <1>3, <1>5, <1>6, <1>7 DEF IInv, TypeOK, TablesTyped
<1>9. ResultsInPlace'
  <2>1. \A j \in 1..recorded : results'[j].state \in {"pending", "committed"} =>
                                   results[j].state \in {"pending", "committed"}
    BY <1>2, <1>3
  <2>2. \A j \in 1..recorded : results[j].row \in Row
    BY DEF IInv, TypeOK, ResultRecord
  <2> QED
    BY <1>3, <1>5, <1>7, <2>1, <2>2 DEF IInv, Tables, ResultsInPlace
<1>10. ResultsOfRuns'
  <2>1. \A j \in 1..recorded : results[j].run \in Run
    BY DEF IInv, TypeOK, ResultRecord
  <2> QED
    BY <1>2, <1>3, <1>6, <1>7, <2>1 DEF IInv, Tables, ResultsOfRuns
<1>11. LatestAgrees'
  <2>1. \A j \in Row : j # k => OfRow(j)' = OfRow(j)
    BY <1>2, <1>3, <1>7 DEF OfRow
  <2>2. "untested" \notin Verdict
    BY DEF Verdict
  <2> SUFFICES ASSUME NEW j \in Row, rows'[j].present
               PROVE  IF rows'[j].latest = "untested" THEN OfRow(j)' = {}
                      ELSE \E l \in OfRow(j)' :
                              /\ results'[l].status = rows'[j].latest
                              /\ \A m \in OfRow(j)' : m > l => m \in results'[l].over
    BY DEF LatestAgrees
  <2>3. CASE j = k
    <3>1. /\ i \in OfRow(j)' /\ \A m \in OfRow(j)' : m = i \/ m \in OfRow(j)
          /\ i \in Nat
      BY <1>2, <1>3, <1>7, <2>3 DEF OfRow
    <3>2. \A m \in OfRow(j)' : m > i => m \in results'[i].over
      BY <1>3, <2>3, <3>1
    <3>3. rows'[j].latest = results[i].status /\ rows'[j].latest # "untested"
      <4>1. results[i].status \in Verdict
        BY <1>2 DEF IInv, TypeOK, ResultRecord
      <4> QED
        BY <1>5, <2>2, <2>3, <4>1
    <3>4. results'[i].status = results[i].status
      BY <1>2, <1>3
    <3>5. \E l \in OfRow(j)' : /\ results'[l].status = rows'[j].latest
                              /\ \A m \in OfRow(j)' : m > l => m \in results'[l].over
      BY <3>1, <3>2, <3>3, <3>4
    <3> QED
      BY <3>3, <3>5
  <2>4. CASE j # k
    <3>1. \A l \in OfRow(j) : results'[l] = results[l]
      BY <1>2, <1>3, <2>4 DEF OfRow
    <3>2. rows'[j] = rows[j] /\ OfRow(j)' = OfRow(j)
      BY <1>5, <2>1, <2>4
    <3>3. IF rows[j].latest = "untested" THEN OfRow(j) = {}
          ELSE \E l \in OfRow(j) : /\ results[l].status = rows[j].latest
                                   /\ \A m \in OfRow(j) : m > l => m \in results[l].over
      BY <3>2 DEF IInv, Tables, LatestAgrees
    <3>4. CASE rows[j].latest = "untested"
      BY <3>2, <3>3, <3>4
    <3>5. CASE rows[j].latest # "untested"
      <4>1. PICK l \in OfRow(j) : /\ results[l].status = rows[j].latest
                                  /\ \A m \in OfRow(j) : m > l => m \in results[l].over
        BY <3>3, <3>5
      <4>2. results'[l] = results[l]
        BY <3>1
      <4> QED
        BY <3>2, <3>5, <4>1, <4>2
    <3> QED
      BY <3>4, <3>5
  <2> QED
    BY <2>3, <2>4
<1>12. ResultsStartTheRun'
  <2>1. \A m \in Run : m # n => Committed(m)' = Committed(m)
    BY <1>2, <1>3, <1>7 DEF Committed
  <2> QED
    BY <1>6, <2>1 DEF IInv, Tables, ResultsStartTheRun, Exists
<1>13. DatesAgree'
  BY <1>6 DEF IInv, Tables, DatesAgree
<1>14. SnapshotNotStale' /\ LinksLocated'
  BY <1>3, <1>5, <1>7 DEF IInv, Tables, SnapshotNotStale, LinksLocated
<1>15. Steady(Request \ {r})
  <2>1. \A p \in Request : requests[p].pc # "idle" => requests[p].run \in Run
    BY DEF IInv, Sound
  <2>2. \A c \in TestCase : library[c].version \in Nat
    BY DEF IInv, TypeOK, Case
  <2>3. \A m \in Run :
          /\ runs[m].started => runs'[m].started
          /\ runs[m].status # "absent" => runs'[m].status # "absent"
          /\ runs[m].status \notin {"absent", "planned"} =>
                runs'[m].status \notin {"absent", "planned"}
    BY <1>6
  <2>4. \A p \in Request : requests[p].pc # "idle" /\ runs[requests[p].run].status = "absent"
            => runs'[requests[p].run].status = "absent"
    BY <1>2, <1>6, <2>1
  <2> QED
    BY <1>3, <1>7, <2>2, <2>3, <2>4 DEF Steady
<1> QED
  BY <1>1, <1>8, <1>9, <1>10, <1>11, <1>12, <1>13, <1>14, <1>15, FinishStep DEF Tables

LEMMA LinkCreateSound ==
    ASSUME IInv, NEW r \in Request, LinkCreate(r)
    PROVE  IInv'
<1> DEFINE new == [run |-> requests[r].run, result |-> requests[r].result]
<1>1. /\ links' = links \cup {new} /\ Finish(r)
      /\ UNCHANGED <<runs, rows, recorded, results, library>>
  BY DEF LinkCreate
<1>2. /\ new.run \in Run /\ new.result \in 0..recorded /\ recorded \in 0..MaxResult
      /\ new.result # 0 => results[new.result].run = new.run
  <2>1. Sound(r) /\ recorded \in 0..MaxResult
    BY DEF IInv, TypeOK
  <2> QED
    BY <2>1 DEF LinkCreate, Sound
<1>3. new \in LinkEnd
  BY <1>2 DEF LinkEnd
<1> HIDE DEF new
<1>4. TablesTyped'
  BY <1>1, <1>3 DEF IInv, TypeOK, TablesTyped
<1>5. LinksLocated'
  BY <1>1, <1>2 DEF IInv, Tables, LinksLocated
<1>6. Tables'
  BY <1>1, <1>5 DEF IInv, Tables, ResultsInPlace, ResultsOfRuns, LatestAgrees, OfRow,
         ResultsStartTheRun, Exists, Committed, DatesAgree, SnapshotNotStale
<1>7. Steady(Request \ {r})
  <2>1. \A p \in Request : requests[p].pc = "commit" => results[requests[p].result].state = "pending"
    BY DEF IInv, Sound
  <2> QED
    BY <1>1, <1>2, <2>1, SteadyTables
<1> QED
  BY <1>1, <1>4, <1>6, <1>7, FinishStep

\* A crash rolls back what the request has not committed.
LEMMA CrashSound ==
    ASSUME IInv, NEW r \in Request, Crash(r)
    PROVE  IInv'
<1>1. CASE requests[r].pc # "commit"
  BY <1>1, NothingWritten DEF Crash
<1>2. CASE requests[r].pc = "commit"
  <2> DEFINE i == requests[r].result
             undone == [results[i] EXCEPT !.state = "gone"]
  <2>0. results[i] \in ResultRecord /\ results[i].state = "pending"
    BY <1>2 DEF IInv, TypeOK, Sound
  <2>1. /\ results' = [results EXCEPT ![i] = undone] /\ Finish(r)
        /\ UNCHANGED <<runs, rows, recorded, links, library>>
    BY <1>2 DEF Crash
  <2>2. /\ i \in 1..recorded /\ recorded \in Nat
        /\ results' \in [1..recorded -> ResultRecord]
        /\ \A j \in 1..recorded : /\ results'[j].run = results[j].run
                                  /\ results'[j].row = results[j].row
                                  /\ results'[j].status = results[j].status
        /\ \A j \in 1..recorded : j # i => results'[j] = results[j]
        /\ results'[i].state = "gone"
        /\ \A q \in Request \ {r} : requests[q].pc = "commit" =>
              results'[requests[q].result].state = "pending"
    <3>1. /\ undone \in ResultRecord /\ undone.state = "gone" /\ undone.run = results[i].run
          /\ undone.row = results[i].row /\ undone.status = results[i].status
      BY <2>0 DEF ResultRecord
    <3> HIDE DEF undone
    <3> QED
      BY <1>2, <2>1, <3>1, ResultEnds
  <2>3. results[i].state = "pending"
    BY <2>0
  <2> HIDE DEF i, undone
  <2>4. (\A k \in Row : OfRow(k)' = OfRow(k)) /\ (\A n \in Run : Committed(n)' = Committed(n))
    BY <2>1, <2>2, <2>3 DEF OfRow, Committed
  <2>5. TablesTyped'
    BY <2>1, <2>2 DEF IInv, TypeOK, TablesTyped
  <2>6. ResultsInPlace' /\ ResultsOfRuns' /\ LinksLocated'
    BY <2>1, <2>2, <2>3 DEF IInv, Tables, ResultsInPlace, ResultsOfRuns, LinksLocated
  <2>7. LatestAgrees'
    <3>1. \A k \in Row : \A j \in OfRow(k) : results'[j] = results[j]
      BY <2>2, <2>3 DEF OfRow
    <3> QED
      BY <2>1, <2>4, <3>1 DEF IInv, Tables, LatestAgrees
  <2>8. ResultsStartTheRun' /\ DatesAgree' /\ SnapshotNotStale'
    BY <2>1, <2>4 DEF IInv, Tables, ResultsStartTheRun, Exists, DatesAgree, SnapshotNotStale
  <2>9. Steady(Request \ {r})
    BY <2>1, <2>2, SteadyTables
  <2> QED
    BY <2>1, <2>5, <2>6, <2>7, <2>8, <2>9, FinishStep DEF Tables
<1> QED
  BY <1>1, <1>2

\* The edits of the library: a version never goes down.
LEMMA LibrarySound ==
    ASSUME IInv, NEW c \in TestCase, EditCase(c) \/ OfferCase(c)
    PROVE  IInv'
<1>1. UNCHANGED <<runs, rows, recorded, results, links, requests>>
  BY DEF EditCase, OfferCase
<1>2. library[c] \in Case /\ library \in [TestCase -> Case] /\ recorded \in Nat
  BY DEF IInv, TypeOK
<1>3. /\ library' \in [TestCase -> Case]
      /\ \A d \in TestCase : library[d].version <= library'[d].version
  <2>1. CASE EditCase(c)
    <3> DEFINE new == [library[c] EXCEPT !.version = library[c].version + 1]
    <3>1. new \in Case /\ library[c].version <= new.version
      BY <1>2, <2>1 DEF EditCase, Case
    <3>2. library' = [library EXCEPT ![c] = new]
      BY <2>1 DEF EditCase
    <3> HIDE DEF new
    <3> QED
      BY <1>2, <3>1, <3>2 DEF Case
  <2>2. CASE OfferCase(c)
    <3> DEFINE new == [library[c] EXCEPT !.offered = ~library[c].offered]
    <3>1. new \in Case /\ new.version = library[c].version
      BY <1>2 DEF Case
    <3>2. library' = [library EXCEPT ![c] = new]
      BY <2>2 DEF OfferCase
    <3> HIDE DEF new
    <3> QED
      BY <1>2, <3>1, <3>2 DEF Case
  <2> QED
    BY <2>1, <2>2
<1>4. SnapshotNotStale'
  <2> SUFFICES ASSUME NEW k \in Row, rows[k].present
               PROVE  rows[k].version <= rows[k].steps /\ rows[k].steps <= library'[k[2]].version
    BY <1>1 DEF SnapshotNotStale
  <2>1. k[2] \in TestCase /\ rows[k] \in RowRecord
    BY DEF Row, IInv, TypeOK
  <2>2. /\ rows[k].steps \in Nat /\ library[k[2]].version \in Nat
        /\ library'[k[2]].version \in Nat
        /\ library[k[2]].version <= library'[k[2]].version
    BY <1>2, <1>3, <2>1 DEF RowRecord, Case
  <2> QED
    BY <2>1, <2>2 DEF IInv, Tables, SnapshotNotStale
<1>5. TypeOK' /\ Tables'
  <2>1. TypeOK'
    BY <1>1, <1>3 DEF IInv, TypeOK
  <2>2. ResultsInPlace' /\ ResultsOfRuns' /\ LatestAgrees'
    BY <1>1 DEF IInv, Tables, ResultsInPlace, ResultsOfRuns, LatestAgrees, OfRow
  <2>3. ResultsStartTheRun' /\ DatesAgree' /\ LinksLocated'
    BY <1>1 DEF IInv, Tables, ResultsStartTheRun, Exists, Committed, DatesAgree, LinksLocated
  <2> QED
    BY <1>4, <2>1, <2>2, <2>3 DEF Tables
<1>6. Steady(Request)
  <2>1. \A p \in Request : requests[p].pc = "commit" => results[requests[p].result].state = "pending"
    BY DEF IInv, Sound
  <2> QED
    BY <1>1, <1>2, <1>3, <2>1 DEF Steady
<1>7. \A q \in Request : Sound(q)'
  BY <1>1, <1>3, <1>6, OthersSound
<1> QED
  BY <1>1, <1>5, <1>7 DEF IInv, Apart

-----------------------------------------------------------------------------
(* The invariant, and what it implies. *)

LEMMA NextSound == IInv /\ [Next]_vars => IInv'
<1> SUFFICES ASSUME IInv, [Next]_vars PROVE IInv'
  OBVIOUS
<1>1. ASSUME NEW r \in Request, Begin(r) PROVE IInv'
  BY <1>1, BeginSound
<1>2. ASSUME NEW r \in Request, Continue(r) PROVE IInv'
  BY <1>2, ReadSound, UpdateSound, TransitionSound, RemoveSound, IncludeSound, DeleteRowSound,
     AssignSound, RecordInsertSound, RecordCommitSound, LinkCreateSound DEF Continue
<1>3. ASSUME NEW r \in Request, Crash(r) PROVE IInv'
  BY <1>3, CrashSound
<1>4. ASSUME NEW c \in TestCase, EditCase(c) \/ OfferCase(c) PROVE IInv'
  BY <1>4, LibrarySound
<1>5. CASE UNCHANGED vars
  <2>1. UNCHANGED <<runs, rows, recorded, results, links, library, requests>>
    BY <1>5 DEF vars
  <2>2. TypeOK' /\ SnapshotNotStale'
    BY <2>1 DEF IInv, TypeOK, Tables, SnapshotNotStale
  <2>3. ResultsInPlace' /\ ResultsOfRuns' /\ LatestAgrees'
    BY <2>1 DEF IInv, Tables, ResultsInPlace, ResultsOfRuns, LatestAgrees, OfRow
  <2>4. ResultsStartTheRun' /\ DatesAgree' /\ LinksLocated'
    BY <2>1 DEF IInv, Tables, ResultsStartTheRun, Exists, Committed, DatesAgree, LinksLocated
  <2>5. \A r \in Request : Sound(r)'
    BY <2>1 DEF IInv, Sound
  <2>6. \A q, r \in Request : q # r => Apart(q, r)'
    BY <2>1 DEF IInv, Apart
  <2> QED
    BY <2>2, <2>3, <2>4, <2>5, <2>6 DEF IInv, Tables
<1> QED
  BY <1>1, <1>2, <1>3, <1>4, <1>5 DEF Next

\* Every reachable state satisfies the inductive invariant, however many runs,
\* cases and requests there are and however they interleave and crash.
THEOREM Invariance == Spec => []IInv
BY InitSound, NextSound, PTL DEF Spec

\* Type correctness.
THEOREM TypeCorrect == Spec => []TypeOK
<1>1. IInv => TypeOK
  BY DEF IInv
<1> QED
  BY <1>1, Invariance, PTL

\* A row shows the status of the result that was committed last, and untested
\* exactly when it has none (recordResult, removeCase).
THEOREM LatestAgreesHolds == Spec => []LatestAgrees
<1>1. IInv => LatestAgrees
  BY DEF IInv, Tables
<1> QED
  BY <1>1, Invariance, PTL

\* A run that exists and has results is not planned (recordResult's start).
THEOREM ResultsStartTheRunHolds == Spec => []ResultsStartTheRun
<1>1. IInv => ResultsStartTheRun
  BY DEF IInv, Tables
<1> QED
  BY <1>1, Invariance, PTL

\* startedAt and completedAt are set exactly where the run's status says they
\* are, although moves race on copies of it (transitionTestRun).
THEOREM DatesAgreeHolds == Spec => []DatesAgree
<1>1. IInv => DatesAgree
  BY DEF IInv, Tables
<1> QED
  BY <1>1, Invariance, PTL

\* The steps of a row are never older than its version, nor newer than the case
\* (includeCases against updateCase).
THEOREM SnapshotNotStaleHolds == Spec => []SnapshotNotStale
<1>1. IInv => SnapshotNotStale
  BY DEF IInv, Tables
<1> QED
  BY <1>1, Invariance, PTL

-----------------------------------------------------------------------------
(* Lost results. *)

\* A removal about to delete a row found it without results, so those the row has
\* by now were committed under that removal.
Warned ==
    \A r \in Request :
        requests[r].pc = "delete_row" /\ Found(r) =>
            \A i \in OfRow(requests[r].row) : results[i].doomed

LostKnowingly == \A i \in 1..recorded : results[i].state = "lost" => results[i].doomed

\* Steps after which every result is what it was, or newly pending or gone, and
\* every row that was there is the same row.
LEMMA KeepsWarned ==
    ASSUME IInv, Warned, LostKnowingly,
           NEW r \in Request, requests'[r].pc # "delete_row",
           \A q \in Request : q # r => requests'[q] = requests[q],
           recorded \in Nat, recorded' \in Nat, recorded <= recorded',
           \A i \in 1..recorded' :
               \/ i \in 1..recorded /\ results'[i] = results[i]
               \/ results'[i].state \in {"pending", "gone"},
           \A k \in Row : rows'[k].present /\ rows[k].present => rows'[k].gen = rows[k].gen
    PROVE  Warned' /\ LostKnowingly'
<1>1. LostKnowingly'
  BY DEF LostKnowingly
<1>2. \A k \in Row : OfRow(k)' \subseteq OfRow(k) /\ \A i \in OfRow(k)' : results'[i] = results[i]
  BY DEF OfRow
<1>3. ASSUME NEW q \in Request, requests'[q].pc = "delete_row", Found(q)',
             NEW i \in OfRow(requests[q].row)'
      PROVE  results'[i].doomed
  <2>1. q # r /\ requests'[q] = requests[q] /\ requests[q].row \in Row
    BY <1>3 DEF IInv, TypeOK, Sound
  <2>2. i \in OfRow(requests[q].row) /\ results'[i] = results[i]
    BY <1>2, <1>3, <2>1
  <2>3. rows[requests[q].row].present
    BY <2>2 DEF OfRow, IInv, Tables, ResultsInPlace
  <2>4. Found(q)
    BY <1>3, <2>1, <2>3 DEF Found
  <2> QED
    BY <1>3, <2>1, <2>2, <2>4 DEF Warned
<1> QED
  BY <1>1, <1>3 DEF Warned

LEMMA NextWarned ==
    ASSUME IInv, Warned, LostKnowingly, [Next]_vars
    PROVE  Warned' /\ LostKnowingly'
<1>0. /\ recorded \in Nat /\ requests \in [Request -> RequestState]
      /\ rows \in [Row -> RowRecord]
      /\ results \in [1..recorded -> ResultRecord]
  BY DEF IInv, TypeOK
\* Only a removal that finds its row untested goes on to delete it.
<1>1. ASSUME NEW r \in Request, NEW k \in Row, RemoveCaseFind(r, k)
      PROVE  Warned' /\ LostKnowingly'
  <2>1. /\ UNCHANGED <<rows, recorded, results>> /\ rows[k].present
        /\ requests'[r].row = k /\ OfRow(k) = {}
        /\ \A q \in Request : q # r => requests'[q] = requests[q]
    BY <1>0, <1>1 DEF RemoveCaseFind, FindRow, IInv, Tables, LatestAgrees, RequestState
  <2> QED
    BY <2>1 DEF Warned, LostKnowingly, Found, OfRow
<1>2. ASSUME NEW r \in Request, requests'[r].pc # "delete_row",
             \A q \in Request : q # r => requests'[q] = requests[q],
             UNCHANGED <<rows, recorded, results>>
      PROVE  Warned' /\ LostKnowingly'
  BY <1>0, <1>2, KeepsWarned
\* A request whose handler ends, the others going on.
<1>6. ASSUME NEW r \in Request, Finish(r)
      PROVE  /\ requests'[r].pc # "delete_row"
             /\ \A q \in Request : q # r => requests'[q] = requests[q]
  BY <1>0, <1>6 DEF Finish, Idle
<1>3. ASSUME NEW r \in Request, Finish(r), UNCHANGED <<rows, recorded, results>>
      PROVE  Warned' /\ LostKnowingly'
  BY <1>2, <1>3, <1>6
<1>4. ASSUME NEW r \in Request, Begin(r) PROVE Warned' /\ LostKnowingly'
  <2>1. ASSUME NEW n \in Run, NEW call, NEW first \in {"update", "transition", "remove_read",
                                                       "select_cases", "find_row"},
               Require(r, n, call, first)
        PROVE  Warned' /\ LostKnowingly'
    BY <1>0, <1>2, <2>1 DEF Require, Idle
  <2>2. ASSUME NEW n \in Run, CreateEmpty(r, n) PROVE Warned' /\ LostKnowingly'
    BY <2>2 DEF CreateEmpty, Warned, LostKnowingly, Found, OfRow
  <2>3. ASSUME NEW n \in Run, Create(r, n) PROVE Warned' /\ LostKnowingly'
    BY <1>0, <1>2, <2>3 DEF Create, Idle
  <2>4. ASSUME NEW n \in Run, NEW i \in 0..MaxResult, LinkLocate(r, n, i)
        PROVE  Warned' /\ LostKnowingly'
    BY <1>0, <1>2, <2>4 DEF LinkLocate, Idle
  <2> QED
    BY <1>4, <2>1, <2>2, <2>3, <2>4 DEF Begin, Update, Remove, AddCases, RemoveCase, Assign,
       Record, Transition, RequireOpen
<1>5. ASSUME NEW r \in Request,
             UpdateWrite(r) \/ TransitionWrite(r) \/ RemoveCommit(r) \/ LinkCreate(r)
      PROVE  Warned' /\ LostKnowingly'
  BY <1>3, <1>5 DEF UpdateWrite, TransitionWrite, RemoveCommit, LinkCreate
\* A request moves on to a step that does not delete a row.
<1>7. ASSUME NEW r \in Request,
             \/ RemoveRead(r) \/ SelectSteps(r) \/ SelectExisting(r)
             \/ \E S \in SUBSET TestCase : SelectCases(r, S)
             \/ \E k \in Row : \/ AssignFind(r, k)
                               \/ \E by \in Tester \cup {Senior} : RecordFind(r, k, by)
      PROVE  Warned' /\ LostKnowingly'
  <2>1. CASE RemoveRead(r)
    BY <1>0, <1>2, <2>1 DEF RemoveRead, RequestState
  <2>2. CASE SelectSteps(r)
    BY <1>0, <1>2, <2>2 DEF SelectSteps, RequestState
  <2>3. CASE SelectExisting(r)
    BY <1>0, <1>2, <2>3 DEF SelectExisting, RequestState
  <2>4. ASSUME NEW S \in SUBSET TestCase, SelectCases(r, S) PROVE Warned' /\ LostKnowingly'
    BY <1>0, <1>2, <2>4 DEF SelectCases, RequestState
  <2>5. ASSUME NEW k \in Row, NEW next \in {"assign", "record"}, FindRow(r, k, next)
        PROVE  Warned' /\ LostKnowingly'
    BY <1>0, <1>2, <2>5 DEF FindRow, RequestState
  <2> QED
    BY <1>7, <2>1, <2>2, <2>3, <2>4, <2>5 DEF AssignFind, RecordFind
\* A row that is put in a run has no results yet.
<1>8. ASSUME NEW r \in Request, Include(r) PROVE Warned' /\ LostKnowingly'
  <2>1. /\ \A k \in Row : rows[k].present => rows'[k] = rows[k]
        /\ UNCHANGED <<recorded, results>>
        /\ Finish(r)
    <3>1. UNCHANGED <<recorded, results>> /\ Finish(r)
      BY <1>8 DEF Include
    <3>2. \A k \in Row : rows[k].present => rows'[k] = rows[k]
      BY <1>8 DEF Include
    <3> QED
      BY <3>1, <3>2
  <2> QED
    BY <1>0, <1>6, <2>1, KeepsWarned
<1>9. ASSUME NEW r \in Request, AssignWrite(r) PROVE Warned' /\ LostKnowingly'
  <2>1. \A k \in Row : rows'[k].gen = rows[k].gen
    <3>1. CASE rows' = rows
      BY <3>1
    <3>2. ASSUME NEW t \in Tester \cup {Nobody},
                 rows' = [rows EXCEPT ![requests[r].row].assignee = t]
          PROVE  \A k \in Row : rows'[k].gen = rows[k].gen
      <4> DEFINE i == requests[r].row
                 new == [rows[i] EXCEPT !.assignee = t]
      <4>1. rows' = [rows EXCEPT ![i] = new]
        BY <3>2
      <4>2. rows[i] \in RowRecord => new.gen = rows[i].gen
        BY DEF RowRecord
      <4> HIDE DEF i, new
      <4> QED
        BY <1>0, <4>1, <4>2
    <3> QED
      BY <1>9, <3>1, <3>2 DEF AssignWrite
  <2>2. /\ UNCHANGED <<recorded, results>>
        /\ Finish(r)
    BY <1>9 DEF AssignWrite
  <2> QED
    BY <1>0, <1>6, <2>1, <2>2, KeepsWarned
<1>10. ASSUME NEW r \in Request, DeleteRow(r) PROVE Warned' /\ LostKnowingly'
  <2> DEFINE k == requests[r].row
  <2>1. CASE ~Found(r)
    BY <1>3, <1>10, <2>1 DEF DeleteRow
  <2>2. CASE Found(r)
    <3>1. /\ k \in Row /\ recorded' = recorded
          /\ rows'[k].present = FALSE
          /\ \A j \in Row : j # k => rows'[j] = rows[j]
          /\ results' = [i \in 1..recorded |->
                IF i \in OfRow(k) THEN [results[i] EXCEPT !.state = "lost"] ELSE results[i]]
          /\ requests' = [requests EXCEPT ![r] = Idle]
      BY <1>0, <1>10, <2>2 DEF DeleteRow, Finish, IInv, Sound, NoRow
    <3>2. \A i \in OfRow(k) : results[i].doomed
      BY <1>10, <2>2 DEF DeleteRow, Warned
    <3>3. ASSUME NEW i \in 1..recorded
          PROVE  /\ results'[i].doomed <=> results[i].doomed
                 /\ results'[i].row = results[i].row
                 /\ results'[i].state = IF i \in OfRow(k) THEN "lost" ELSE results[i].state
      BY <1>0, <3>1 DEF ResultRecord
    <3>4. LostKnowingly'
      BY <3>1, <3>2, <3>3 DEF LostKnowingly
    <3>5. ASSUME NEW q \in Request, requests'[q].pc = "delete_row", Found(q)',
                 NEW i \in OfRow(requests[q].row)'
          PROVE  results'[i].doomed
      <4>1. q # r /\ requests'[q] = requests[q] /\ requests[q].row \in Row
        BY <1>0, <3>1, <3>5 DEF Idle, IInv, Sound
      <4>2. requests[q].row # k
        BY <3>1, <3>5, <4>1 DEF Found
      <4>3. Found(q) /\ i \in OfRow(requests[q].row)
        BY <3>1, <3>3, <3>5, <4>1, <4>2 DEF Found, OfRow
      <4> QED
        BY <3>3, <3>5, <4>1, <4>3 DEF Warned, OfRow
    <3> QED
      BY <3>4, <3>5 DEF Warned
  <2> QED
    BY <2>1, <2>2
<1>11. ASSUME NEW r \in Request, RecordInsert(r) PROVE Warned' /\ LostKnowingly'
  <2>1. CASE ~Found(r)
    BY <1>3, <1>11, <2>1 DEF RecordInsert
  <2>2. CASE Found(r)
    <3>1. /\ rows' = rows /\ recorded' = recorded + 1
          /\ \A i \in 1..(recorded + 1) :
                \/ i \in 1..recorded /\ results'[i] = results[i]
                \/ results'[i].state = "pending"
      BY <1>0, <1>11, <2>2 DEF RecordInsert
    <3>2. /\ requests'[r].pc = "commit"
          /\ \A q \in Request : q # r => requests'[q] = requests[q]
      <4>1. requests' = [requests EXCEPT ![r].pc = "commit", ![r].result = recorded + 1]
        BY <1>11, <2>2 DEF RecordInsert
      <4> QED
        BY <1>0, <4>1 DEF RequestState
    <3> QED
      BY <1>0, <3>1, <3>2, KeepsWarned
  <2> QED
    BY <2>1, <2>2
\* A result committed for a row that is being removed remembers it.
<1>12. ASSUME NEW r \in Request, RecordCommit(r) PROVE Warned' /\ LostKnowingly'
  <2> DEFINE i == requests[r].result
             k == requests[r].row
  <2>1. /\ i \in 1..recorded /\ k \in Row /\ results[i].row = k /\ recorded' = recorded
        /\ results' = WithCommitted(i, k)
        /\ requests' = [requests EXCEPT ![r] = Idle]
        /\ rows' = [rows EXCEPT ![k].latest = results[i].status]
    BY <1>12 DEF RecordCommit, IInv, Sound, Finish
  <2>2. /\ results'[i].state = "committed" /\ results'[i].doomed = BeingRemoved(k)
        /\ results'[i].row = k
        /\ \A j \in 1..recorded : j # i => results'[j] = results[j]
    BY <1>0, <2>1 DEF WithCommitted, ResultRecord
  <2>3. \A j \in Row : rows'[j].present = rows[j].present /\ rows'[j].gen = rows[j].gen
    BY <1>0, <2>1 DEF RowRecord
  <2> HIDE DEF i, k
  <2>4. LostKnowingly'
    BY <2>1, <2>2 DEF LostKnowingly
  <2>5. ASSUME NEW q \in Request, requests'[q].pc = "delete_row", Found(q)',
               NEW j \in OfRow(requests[q].row)'
        PROVE  results'[j].doomed
    <3>1. q # r /\ requests'[q] = requests[q] /\ requests[q].row \in Row
      BY <1>0, <2>1, <2>5 DEF Idle, IInv, Sound
    <3>2. Found(q) /\ j \in 1..recorded
      BY <2>1, <2>3, <2>5, <3>1 DEF Found, OfRow
    <3>3. CASE j = i
      <4>1. requests[q].row = k
        BY <2>2, <2>5, <3>1, <3>3 DEF OfRow
      <4>2. BeingRemoved(k)
        BY <2>5, <3>1, <3>2, <4>1 DEF BeingRemoved, Found
      <4> QED
        BY <2>2, <3>3, <4>2
    <3>4. CASE j # i
      <4>1. results'[j] = results[j]
        BY <2>2, <3>2, <3>4
      <4>2. j \in OfRow(requests[q].row)
        BY <2>5, <3>1, <3>2, <4>1 DEF OfRow
      <4> QED
        BY <2>5, <3>1, <3>2, <4>1, <4>2 DEF Warned
    <3> QED
      BY <3>3, <3>4
  <2> QED
    BY <2>4, <2>5 DEF Warned
<1>13. ASSUME NEW r \in Request, Crash(r) PROVE Warned' /\ LostKnowingly'
  <2>1. CASE requests[r].pc # "commit"
    BY <1>3, <1>13, <2>1 DEF Crash
  <2>2. CASE requests[r].pc = "commit"
    <3>1. /\ UNCHANGED <<rows, recorded>> /\ requests[r].result \in 1..recorded
          /\ Finish(r)
          /\ results' = [results EXCEPT ![requests[r].result] =
                [results[requests[r].result] EXCEPT !.state = "gone"]]
      BY <1>13, <2>2 DEF Crash, IInv, Sound
    <3>2. \A i \in 1..recorded' : \/ i \in 1..recorded /\ results'[i] = results[i]
                                  \/ results'[i].state \in {"pending", "gone"}
      BY <1>0, <3>1 DEF ResultRecord
    <3> QED
      BY <1>0, <1>6, <3>1, <3>2, KeepsWarned
  <2> QED
    BY <2>1, <2>2
<1>14. CASE UNCHANGED <<rows, recorded, results, requests>>
  BY <1>14 DEF Warned, LostKnowingly, Found, OfRow
<1> QED
  BY <1>1, <1>4, <1>5, <1>7, <1>8, <1>9, <1>10, <1>11, <1>12, <1>13, <1>14
     DEF Next, Continue, EditCase, OfferCase, vars

\* A result that is committed, or about to be, has its row, of the run the result
\* names, and is lost only to a removal that it overtook (removeCase's check and
\* its delete by id, the foreign keys, findRunCase).
THEOREM ResultsBelongHolds == Spec => []ResultsBelong
<1>1. Init => IInv /\ Warned /\ LostKnowingly
  BY InitSound DEF Init, Warned, LostKnowingly, Idle
<1>2. IInv /\ Warned /\ LostKnowingly /\ [Next]_vars => (IInv /\ Warned /\ LostKnowingly)'
  BY NextSound, NextWarned
<1>3. IInv /\ LostKnowingly => ResultsBelong
  BY DEF IInv, Tables, ResultsInPlace, LostKnowingly, ResultsBelong
<1> QED
  BY <1>1, <1>2, <1>3, PTL DEF Spec

-----------------------------------------------------------------------------
(* Closed runs. *)

\* What a write to a run rests on: the run was open when the request read it.
SeenOpen ==
    \A r \in Request :
        requests[r].pc \notin {"idle", "remove_read", "remove", "link"} =>
            requests[r].call = "create" \/ requests[r].seen \in Open

LEMMA SeenStep ==
    ASSUME NEW r \in Request, NEW new, requests \in [Request -> RequestState], SeenOpen,
           requests' = [requests EXCEPT ![r] = new],
           \/ new.pc \in {"idle", "remove_read", "remove", "link"}
           \/ new.call = "create" \/ new.seen \in Open
           \/ /\ requests[r].pc \notin {"idle", "remove_read", "remove", "link"}
              /\ new.call = requests[r].call /\ new.seen = requests[r].seen
    PROVE  SeenOpen'
BY DEF SeenOpen

LEMMA SeenNext == IInv /\ SeenOpen /\ [Next]_vars => SeenOpen'
<1> SUFFICES ASSUME IInv, SeenOpen, [Next]_vars PROVE SeenOpen'
  OBVIOUS
<1>0. requests \in [Request -> RequestState]
  BY DEF IInv, TypeOK
<1>1. ASSUME NEW r \in Request, Finish(r) PROVE SeenOpen'
  BY <1>0, <1>1, SeenStep DEF Finish, Idle
<1>2. ASSUME NEW r \in Request, NEW n \in Run, NEW call, NEW first, Require(r, n, call, first),
             first = "remove_read" \/ runs[n].status \in Open
      PROVE  SeenOpen'
  <2> DEFINE new == [Idle EXCEPT !.pc = first, !.call = call, !.run = n, !.seen = runs[n].status]
  <2>1. requests' = [requests EXCEPT ![r] = new] /\ new.pc = first /\ new.seen = runs[n].status
    BY <1>2 DEF Require, Idle
  <2> HIDE DEF new
  <2> QED
    BY <1>0, <1>2, <2>1, SeenStep
<1>3. ASSUME NEW r \in Request, Begin(r) PROVE SeenOpen'
  <2> SUFFICES ASSUME NEW n \in Run,
                      \/ Update(r, n) \/ Remove(r, n) \/ CreateEmpty(r, n) \/ Create(r, n)
                      \/ AddCases(r, n) \/ RemoveCase(r, n) \/ Assign(r, n) \/ Record(r, n)
                      \/ \E call \in {"start", "complete", "abort"} : Transition(r, n, call)
                      \/ \E i \in 0..MaxResult : LinkLocate(r, n, i)
               PROVE  SeenOpen'
    BY <1>3 DEF Begin
  <2>1. CASE Update(r, n) \/ AddCases(r, n) \/ RemoveCase(r, n) \/ Assign(r, n) \/ Record(r, n)
    BY <1>2, <2>1 DEF Update, AddCases, RemoveCase, Assign, Record, RequireOpen
  <2>2. CASE Remove(r, n)
    BY <1>2, <2>2 DEF Remove
  <2>3. ASSUME NEW call \in {"start", "complete", "abort"}, Transition(r, n, call)
        PROVE  SeenOpen'
    <3>1. runs[n].status \in Open
      BY <2>3 DEF Transition, Allowed, Open
    <3> QED
      BY <1>2, <2>3, <3>1 DEF Transition
  <2>4. CASE CreateEmpty(r, n)
    BY <2>4 DEF CreateEmpty, SeenOpen
  <2>5. CASE Create(r, n)
    BY <1>0, <2>5, SeenStep DEF Create, Idle
  <2>6. ASSUME NEW i \in 0..MaxResult, LinkLocate(r, n, i) PROVE SeenOpen'
    BY <1>0, <2>6, SeenStep DEF LinkLocate, Idle
  <2> QED
    BY <2>1, <2>2, <2>3, <2>4, <2>5, <2>6
<1>4. ASSUME NEW r \in Request, Continue(r), ~Finish(r) PROVE SeenOpen'
  <2>1. ASSUME NEW next, NEW picked, NEW ids,
               requests[r].pc \notin {"idle", "remove_read", "remove", "link"} \/ next = "remove",
               requests' = [requests EXCEPT ![r].pc = next, ![r].picked = picked]
                  \/ requests' = [requests EXCEPT ![r].pc = next, ![r].ids = ids]
        PROVE  SeenOpen'
    <3>1. requests[r] \in RequestState
      BY <1>0
    <3>2. CASE requests' = [requests EXCEPT ![r].pc = next, ![r].picked = picked]
      <4> DEFINE new == [requests[r] EXCEPT !.pc = next, !.picked = picked]
      <4>1. requests' = [requests EXCEPT ![r] = new]
        BY <1>0, <3>2
      <4>2. new.pc = next /\ new.call = requests[r].call /\ new.seen = requests[r].seen
        BY <3>1 DEF RequestState
      <4> HIDE DEF new
      <4> QED
        BY <1>0, <2>1, <4>1, <4>2, SeenStep
    <3>3. CASE requests' = [requests EXCEPT ![r].pc = next, ![r].ids = ids]
      <4> DEFINE new == [requests[r] EXCEPT !.pc = next, !.ids = ids]
      <4>1. requests' = [requests EXCEPT ![r] = new]
        BY <1>0, <3>3
      <4>2. new.pc = next /\ new.call = requests[r].call /\ new.seen = requests[r].seen
        BY <3>1 DEF RequestState
      <4> HIDE DEF new
      <4> QED
        BY <1>0, <2>1, <4>1, <4>2, SeenStep
    <3> QED
      BY <2>1, <3>2, <3>3
  <2>2. ASSUME NEW k, NEW next, FindRow(r, k, next), requests[r].pc = "find_row"
        PROVE  SeenOpen'
    <3> DEFINE new == [requests[r] EXCEPT !.pc = next, !.row = k, !.gen = rows[k].gen]
    <3>1. requests' = [requests EXCEPT ![r] = new]
      BY <1>0, <2>2 DEF FindRow
    <3>2. new.call = requests[r].call /\ new.seen = requests[r].seen
      BY <1>0 DEF RequestState
    <3> HIDE DEF new
    <3> QED
      BY <1>0, <2>2, <3>1, <3>2, SeenStep
  <2>3. CASE RemoveRead(r)
    BY <2>1, <2>3 DEF RemoveRead
  <2>4. CASE SelectSteps(r)
    BY <2>1, <2>4 DEF SelectSteps
  <2>5. CASE SelectExisting(r)
    BY <2>1, <2>5 DEF SelectExisting
  <2>6. ASSUME NEW S \in SUBSET TestCase, SelectCases(r, S) PROVE SeenOpen'
    BY <2>1, <2>6 DEF SelectCases
  <2>7. ASSUME NEW k \in Row,
               \/ RemoveCaseFind(r, k) \/ AssignFind(r, k)
               \/ \E by \in Tester \cup {Senior} : RecordFind(r, k, by)
        PROVE  SeenOpen'
    BY <2>2, <2>7 DEF RemoveCaseFind, AssignFind, RecordFind
  <2>8. CASE RecordInsert(r)
    <3> DEFINE new == [requests[r] EXCEPT !.pc = "commit", !.result = recorded + 1]
    <3>1. requests' = [requests EXCEPT ![r] = new] /\ requests[r].pc = "record"
      BY <1>0, <1>4, <2>8 DEF RecordInsert
    <3>2. new.call = requests[r].call /\ new.seen = requests[r].seen
      BY <1>0 DEF RequestState
    <3> HIDE DEF new
    <3> QED
      BY <1>0, <3>1, <3>2, SeenStep
  <2> QED
    BY <1>4, <2>3, <2>4, <2>5, <2>6, <2>7, <2>8 DEF Continue, UpdateWrite, TransitionWrite,
       RemoveCommit, Include, DeleteRow, AssignWrite, RecordCommit, LinkCreate
<1>5. ASSUME NEW c \in TestCase, EditCase(c) \/ OfferCase(c) PROVE SeenOpen'
  BY <1>5 DEF EditCase, OfferCase, SeenOpen
<1>6. CASE UNCHANGED vars
  BY <1>6 DEF vars, SeenOpen
<1> QED
  BY <1>1, <1>3, <1>4, <1>5, <1>6 DEF Next, Crash

\* A request other than the creation of a run leaves the reports of the runs it
\* does not address alone.
LEMMA ReportKept ==
    ASSUME NEW n \in Run, runs'[n].status = runs[n].status, runs'[n].edited = runs[n].edited,
           \A c \in TestCase : rows'[<<n, c>>] = rows[<<n, c>>],
           Committed(n)' = Committed(n)
    PROVE  Report(n)' = Report(n)
BY DEF Report

LEMMA ReportsUntouched ==
    ASSUME UNCHANGED <<runs, rows, recorded, results>>, NEW n \in Run
    PROVE  Report(n)' = Report(n)
BY DEF Report, Committed

LEMMA OtherReports ==
    ASSUME IInv, NEW r \in Request, NEW n \in Run,
           requests[r].run # n \/ requests[r].pc = "remove" \/ requests[r].pc = "record",
           \/ UpdateWrite(r) \/ TransitionWrite(r) \/ RemoveCommit(r) \/ Include(r)
           \/ DeleteRow(r) \/ AssignWrite(r) \/ RecordInsert(r) \/ RecordCommit(r)
    PROVE  Report(n)' = Report(n)
<1> DEFINE q == requests[r]
<1>1. /\ Sound(r) /\ runs \in [Run -> RunRecord] /\ rows \in [Row -> RowRecord]
      /\ recorded \in Nat /\ results \in [1..recorded -> ResultRecord]
  BY DEF IInv, TypeOK
<1>2. \A c \in TestCase : <<n, c>> \in Row /\ <<n, c>>[1] = n
  BY DEF Row
<1>3. CASE UpdateWrite(r) \/ TransitionWrite(r)
  <2>1. q.run \in Run /\ q.run # n /\ UNCHANGED <<rows, recorded, results>>
    BY <1>1, <1>3 DEF Sound, UpdateWrite, TransitionWrite
  <2>2. runs'[n] = runs[n]
    BY <1>1, <1>3, <2>1 DEF UpdateWrite, TransitionWrite
  <2>3. Committed(n)' = Committed(n)
    BY <2>1 DEF Committed
  <2> QED
    BY <2>1, <2>2, <2>3, ReportKept
<1>4. CASE RemoveCommit(r)
  <2>1. q.run \in Run /\ UNCHANGED <<rows, recorded, results>>
    BY <1>1, <1>4 DEF Sound, RemoveCommit
  <2>2. runs'[n].status = runs[n].status /\ runs'[n].edited = runs[n].edited
    BY <1>1, <1>4, <2>1 DEF RemoveCommit, RunRecord
  <2>3. Committed(n)' = Committed(n)
    BY <2>1 DEF Committed
  <2> QED
    BY <2>1, <2>2, <2>3, ReportKept
<1>5. CASE Include(r)
  <2>1. q.run \in Run /\ q.run # n /\ UNCHANGED <<recorded, results>>
    BY <1>1, <1>5 DEF Sound, Include
  <2>2. runs'[n] = runs[n]
    BY <1>1, <1>5, <2>1 DEF Include
  <2>3. \A k \in Row : k[1] # q.run => rows'[k] = rows[k]
    BY <1>5 DEF Include
  <2>4. Committed(n)' = Committed(n)
    BY <2>1 DEF Committed
  <2> QED
    BY <1>2, <2>1, <2>2, <2>3, <2>4, ReportKept
<1>6. CASE DeleteRow(r)
  <2>1. /\ q.row \in Row /\ q.row[1] = q.run /\ q.run # n /\ UNCHANGED <<runs, recorded>>
    BY <1>1, <1>6 DEF Sound, DeleteRow
  <2>2. \A k \in Row : k # q.row => rows'[k] = rows[k]
    BY <1>1, <1>6, <2>1 DEF DeleteRow
  <2>3. Committed(n)' = Committed(n)
    <3>1. ASSUME NEW i \in 1..recorded, results[i].run = n, results[i].state = "committed"
          PROVE  results'[i] = results[i]
      <4>1. i \notin OfRow(q.row)
        BY <2>1, <3>1 DEF IInv, Tables, ResultsInPlace, OfRow
      <4> QED
        BY <1>6, <4>1 DEF DeleteRow
    <3>2. ASSUME NEW i \in 1..recorded
          PROVE  /\ results'[i].run = results[i].run
                 /\ results'[i].state = "committed" => results[i].state = "committed"
      <4>1. results[i] \in ResultRecord
        BY <1>1
      <4>2. results'[i] \in {results[i], [results[i] EXCEPT !.state = "lost"]}
        BY <1>6 DEF DeleteRow
      <4> QED
        BY <4>1, <4>2 DEF ResultRecord
    <3> QED
      BY <2>1, <3>1, <3>2 DEF Committed
  <2> QED
    BY <1>2, <2>1, <2>2, <2>3, ReportKept
<1>7. CASE AssignWrite(r)
  <2>1. /\ q.row \in Row /\ q.row[1] = q.run /\ q.run # n
        /\ UNCHANGED <<runs, recorded, results>>
    BY <1>1, <1>7 DEF Sound, AssignWrite
  <2>2. \A k \in Row : k # q.row => rows'[k] = rows[k]
    BY <1>1, <1>7, <2>1 DEF AssignWrite
  <2>3. Committed(n)' = Committed(n)
    BY <2>1 DEF Committed
  <2> QED
    BY <1>2, <2>1, <2>2, <2>3, ReportKept
<1>8. CASE RecordInsert(r)
  <2>1. UNCHANGED <<runs, rows>>
    BY <1>8 DEF RecordInsert
  <2>2. Committed(n)' = Committed(n)
    <3>1. CASE recorded' = recorded /\ results' = results
      BY <3>1 DEF Committed
    <3>2. ASSUME recorded' = recorded + 1, NEW v \in Verdict,
                 results' = [i \in 1..(recorded + 1) |->
                     IF i = recorded + 1
                     THEN [state |-> "pending", run |-> q.run, row |-> q.row, status |-> v,
                           over |-> {}, doomed |-> FALSE]
                     ELSE results[i]]
          PROVE  Committed(n)' = Committed(n)
      <4>1. /\ \A i \in 1..recorded' : i = recorded + 1 \/ i \in 1..recorded
            /\ \A i \in 1..recorded : i \in 1..recorded' /\ i # recorded + 1
            /\ recorded + 1 \in 1..recorded'
        BY <1>1, <3>2
      <4>2. /\ results'[recorded + 1].state = "pending"
            /\ \A i \in 1..recorded : results'[i] = results[i]
        BY <1>1, <3>2, <4>1
      <4> QED
        BY <4>1, <4>2 DEF Committed
    <3> QED
      BY <1>8, <3>1, <3>2 DEF RecordInsert
  <2> QED
    BY <2>1, <2>2, ReportKept
<1>9. CASE RecordCommit(r)
  <2>1. /\ q.row \in Row /\ q.row[1] = q.run /\ q.run # n /\ q.run \in Run
        /\ q.pc = "commit" /\ q.result \in 1..recorded /\ results[q.result].run = q.run
        /\ recorded' = recorded
        /\ results' = WithCommitted(q.result, q.row)
    BY <1>1, <1>9 DEF Sound, RecordCommit
  <2>2. \A k \in Row : k # q.row => rows'[k] = rows[k]
    BY <1>1, <1>9, <2>1 DEF RecordCommit
  <2>3. runs'[n] = runs[n]
    BY <1>1, <1>9, <2>1 DEF RecordCommit
  <2>4. Committed(n)' = Committed(n)
    <3>1. /\ \A j \in 1..recorded : results'[j].run = results[j].run
          /\ \A j \in 1..recorded : j # q.result => results'[j] = results[j]
      BY <2>1 DEF WithCommitted, IInv, TypeOK, ResultRecord
    <3> QED
      BY <2>1, <3>1 DEF Committed
  <2> QED
    BY <1>2, <2>1, <2>2, <2>3, <2>4, ReportKept
<1> QED
  BY <1>3, <1>4, <1>5, <1>6, <1>7, <1>8, <1>9

\* The other steps: none touches the report of a closed run.
LEMMA QuietReports ==
    ASSUME IInv, NEW n \in Run, runs[n].status # "absent", NEW r \in Request,
           \/ Begin(r) \/ Crash(r) \/ LinkCreate(r)
           \/ RemoveRead(r) \/ SelectSteps(r) \/ SelectExisting(r)
           \/ \E S \in SUBSET TestCase : SelectCases(r, S)
           \/ \E k \in Row :
                 \/ RemoveCaseFind(r, k) \/ AssignFind(r, k)
                 \/ \E by \in Tester \cup {Senior} : RecordFind(r, k, by)
    PROVE  Report(n)' = Report(n)
<1>1. CASE LinkCreate(r) \/ RemoveRead(r) \/ SelectSteps(r) \/ SelectExisting(r)
  BY <1>1, ReportsUntouched DEF LinkCreate, RemoveRead, SelectSteps, SelectExisting
<1>2. ASSUME NEW S \in SUBSET TestCase, SelectCases(r, S) PROVE Report(n)' = Report(n)
  BY <1>2, ReportsUntouched DEF SelectCases
<1>3. ASSUME NEW k \in Row,
             \/ RemoveCaseFind(r, k) \/ AssignFind(r, k)
             \/ \E by \in Tester \cup {Senior} : RecordFind(r, k, by)
      PROVE  Report(n)' = Report(n)
  BY <1>3, ReportsUntouched DEF RemoveCaseFind, AssignFind, RecordFind, FindRow
<1>4. CASE Begin(r)
  <2>1. ASSUME NEW m \in Run, CreateEmpty(r, m) PROVE Report(n)' = Report(n)
    <3>1. m # n /\ runs' = [runs EXCEPT ![m].status = "planned"]
          /\ UNCHANGED <<rows, recorded, results>>
      BY <2>1 DEF CreateEmpty, Fresh
    <3>2. runs'[n] = runs[n] /\ Committed(n)' = Committed(n)
      BY <3>1 DEF IInv, TypeOK, Committed
    <3> QED
      BY <3>1, <3>2, ReportKept
  <2>2. ASSUME NEW m \in Run,
               \/ Update(r, m) \/ Remove(r, m) \/ Create(r, m)
               \/ AddCases(r, m) \/ RemoveCase(r, m) \/ Assign(r, m) \/ Record(r, m)
               \/ \E call \in {"start", "complete", "abort"} : Transition(r, m, call)
               \/ \E i \in 0..MaxResult : LinkLocate(r, m, i)
        PROVE  Report(n)' = Report(n)
    <3>1. UNCHANGED <<runs, rows, recorded, results>>
      BY <2>2 DEF Update, Remove, Create, AddCases, RemoveCase, Assign, Record, Transition,
             LinkLocate, RequireOpen, Require
    <3> QED
      BY <3>1, ReportsUntouched
  <2> QED
    BY <1>4, <2>1, <2>2 DEF Begin
<1>5. CASE Crash(r)
  <2>1. CASE requests[r].pc # "commit"
    BY <1>5, <2>1, ReportsUntouched DEF Crash
  <2>2. CASE requests[r].pc = "commit"
    <3>1. /\ results' = [results EXCEPT ![requests[r].result].state = "gone"]
          /\ UNCHANGED <<runs, rows, recorded>>
      BY <1>5, <2>2 DEF Crash
    <3>2. /\ results[requests[r].result].state = "pending"
          /\ requests[r].result \in 1..recorded
      BY <2>2 DEF IInv, Sound
    <3>3. /\ \A j \in 1..recorded : results'[j].run = results[j].run
          /\ \A j \in 1..recorded : j # requests[r].result => results'[j] = results[j]
          /\ results'[requests[r].result].state = "gone"
      BY <3>1, <3>2 DEF IInv, TypeOK, ResultRecord
    <3>4. Committed(n)' = Committed(n)
      BY <3>1, <3>2, <3>3 DEF Committed
    <3> QED
      BY <3>1, <3>4, ReportKept
  <2> QED
    BY <2>1, <2>2
<1> QED
  BY <1>1, <1>2, <1>3, <1>4, <1>5

\* The report of a closed run changes only at the hands of a request that read
\* that run while it was open (requireOpen and the moves of RUN_TRANSITIONS).
THEOREM OnlyStragglersHolds == Spec => OnlyStragglers
<1> DEFINE A == \A n \in Run : Closed(n) /\ Report(n) # Report(n)' =>
                   \E r \in Request :
                      /\ requests[r] # requests'[r]
                      /\ requests[r].run = n
                      /\ requests[r].seen \in Open
<1>1. ASSUME IInv, SeenOpen, Next, NEW n \in Run, Closed(n), Report(n) # Report(n)'
      PROVE  \E r \in Request :
                /\ requests[r] # requests'[r]
                /\ requests[r].run = n
                /\ requests[r].seen \in Open
  <2>1. runs[n].status # "absent"
    BY <1>1 DEF Closed
  <2>2. PICK r \in Request :
           \/ UpdateWrite(r) \/ TransitionWrite(r) \/ RemoveCommit(r) \/ Include(r)
           \/ DeleteRow(r) \/ AssignWrite(r) \/ RecordInsert(r) \/ RecordCommit(r)
    <3>1. ASSUME NEW c \in TestCase, EditCase(c) \/ OfferCase(c) PROVE FALSE
      BY <1>1, <3>1, ReportsUntouched DEF EditCase, OfferCase
    <3>2. PICK r \in Request : Begin(r) \/ Continue(r) \/ Crash(r)
      BY <1>1, <3>1 DEF Next
    <3> QED
      BY <1>1, <2>1, <3>2, QuietReports DEF Continue
  <2>3. requests[r].run = n /\ requests[r].pc \notin {"remove", "record"}
    BY <1>1, <2>2, OtherReports
  <2>4. requests[r].pc \notin {"idle", "remove_read", "remove", "link"}
    BY <2>2, <2>3 DEF UpdateWrite, TransitionWrite, RemoveCommit, Include, DeleteRow, AssignWrite,
           RecordInsert, RecordCommit
  <2>5. requests[r].call # "create"
    BY <1>1, <2>1, <2>3, <2>4 DEF IInv, Sound
  <2>6. requests'[r] = Idle
    BY <1>1, <2>2, <2>3 DEF IInv, TypeOK, Finish, UpdateWrite, TransitionWrite, RemoveCommit,
           Include, DeleteRow, AssignWrite, RecordInsert, RecordCommit
  <2>7. requests[r] # requests'[r]
    BY <2>4, <2>6 DEF Idle
  <2> QED
    BY <1>1, <2>3, <2>4, <2>5, <2>7 DEF SeenOpen
<1>2. IInv /\ SeenOpen /\ [Next]_vars => [A]_vars
  BY <1>1
<1>3. Init => SeenOpen
  BY DEF Init, SeenOpen, Idle
<1> QED
  BY <1>2, <1>3, Invariance, SeenNext, PTL DEF Spec, OnlyStragglers
=============================================================================
