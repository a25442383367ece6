--------------------------- MODULE TrackersProofs ---------------------------
(***************************************************************************)
(* What is proved of Trackers for every set of items, requests and texts    *)
(* and every bound: its types; that it implements Workflow, and what        *)
(* follows for the statuses of its items; its keys, dates and histories.    *)
(***************************************************************************)
EXTENDS Trackers, TLAPS

\* An item is a row that was never written, or one whose status is of its kind
\* and among those it has had.
Known(i) ==
    \/ items[i] = NoRow /\ past[i] = {}
    \/ /\ items[i].kind \in Kind
       /\ items[i].text \in Text
       /\ items[i].status \in DOMAIN Flow[items[i].kind]
       /\ items[i].status \in past[i]

\* What a request about to write a row of that kind goes by.
Basis(q, kind) ==
    /\ q.item \in Item
    /\ items[q.item].kind = kind
    /\ q.seen \in Snapshot
    /\ q.seen.status \in DOMAIN Flow[kind]
    /\ q.seen.status \in past[q.item]
    /\ q.goal \in Text \/ q.goal \in Flow[kind][q.seen.status]

Founded(q) ==
    /\ q.pc = "insert" => q.goal \in Kind
    /\ q.pc \in {"requirement_write", "append_version"} => Basis(q, "requirement")
    /\ q.pc = "defect_write" => Basis(q, "defect")
    /\ q.pc = "remove" => q.item \in Item /\ items[q.item].kind \in Kind

Tables ==
    /\ counters \in [Kind -> Nat]
    /\ items \in [Item -> Row]
    /\ versions \in [Item -> Seq(Snapshot)]
    /\ past \in [Item -> SUBSET Status]
    /\ overtaken \subseteq Item
    /\ \A i \in Item : Known(i)

Callers ==
    /\ requests \in [Request -> RequestState]
    /\ served \in 0..MaxServed
    /\ \A r \in Request : Founded(requests[r])

IInv == Tables /\ Callers

USE TrackersAssumption

-----------------------------------------------------------------------------
(* The tables of moves.                                                    *)

LEMMA RequirementMoves ==
    /\ DOMAIN RequirementFlow = {"draft", "in_review", "approved", "implemented", "obsolete"}
    /\ \A s \in DOMAIN RequirementFlow : RequirementFlow[s] \subseteq DOMAIN RequirementFlow
BY DEF RequirementFlow

LEMMA DefectMoves ==
    /\ DOMAIN DefectFlow = {"open", "triaged", "in_progress", "resolved", "closed",
                            "rejected", "reopened"}
    /\ \A s \in DOMAIN DefectFlow : DefectFlow[s] \subseteq DOMAIN DefectFlow
BY DEF DefectFlow

LEMMA Moves ==
    /\ Flow["requirement"] = RequirementFlow /\ Flow["defect"] = DefectFlow
    /\ Start["requirement"] \in DOMAIN RequirementFlow
    /\ Start["defect"] \in DOMAIN DefectFlow
    /\ Status = DOMAIN RequirementFlow \cup DOMAIN DefectFlow
    /\ DOMAIN RequirementFlow \cap DOMAIN DefectFlow = {}
<1>1. Flow["requirement"] = RequirementFlow /\ Flow["defect"] = DefectFlow
  BY DEF Flow
<1>2. Status = DOMAIN RequirementFlow \cup DOMAIN DefectFlow
  BY <1>1 DEF Status, Kind
<1> QED
  BY <1>1, <1>2, RequirementMoves, DefectMoves DEF Start

LEMMA KindMoves ==
    ASSUME NEW kind \in Kind
    PROVE  /\ DOMAIN Flow[kind] \subseteq Status
           /\ \A s \in DOMAIN Flow[kind] : Flow[kind][s] \subseteq DOMAIN Flow[kind]
           /\ Start[kind] \in DOMAIN Flow[kind]
BY Moves, RequirementMoves, DefectMoves DEF Kind

LEMMA Typed == IInv => TypeOK
<1> SUFFICES ASSUME IInv PROVE TypeOK
  OBVIOUS
<1>1. \A i \in Item : items[i] # NoRow => items[i].status \in DOMAIN Flow[items[i].kind]
  BY DEF IInv, Tables, Known
<1> QED
  BY <1>1 DEF IInv, Tables, Callers, TypeOK

LEMMA IdleTyped == Idle \in RequestState /\ Idle.pc = "idle"
BY DEF Idle, RequestState, Step

LEMMA InitSound == Init => IInv
<1> SUFFICES ASSUME Init PROVE IInv
  OBVIOUS
<1>1. NoRow \in Row /\ <<>> \in Seq(Snapshot)
  BY DEF NoRow, Row
<1>2. Tables
  BY <1>1 DEF Init, Tables, Known
<1>3. Callers
  BY IdleTyped DEF Init, Callers, Founded
<1> QED
  BY <1>2, <1>3 DEF IInv

-----------------------------------------------------------------------------
(* What a step does to the requests.                                       *)

\* Rows keep their kind and the statuses they have had.
Grows ==
    \A i \in Item : items[i].kind \in Kind =>
        items'[i].kind = items[i].kind /\ past[i] \subseteq past'[i]

\* A step writes the record of one request, on the tables as it finds them.
LEMMA CallersStay ==
    ASSUME IInv, Grows, served' \in 0..MaxServed, NEW r \in Request,
           NEW new \in RequestState, Founded(new),
           requests' = [requests EXCEPT ![r] = new]
    PROVE  Callers'
<1>1. /\ requests' \in [Request -> RequestState]
      /\ requests'[r] = new
      /\ \A q \in Request : q # r => requests'[q] = requests[q]
  BY DEF IInv, Callers
<1>2. "requirement" \in Kind /\ "defect" \in Kind
  BY DEF Kind
<1>3. ASSUME NEW q \in Request PROVE Founded(requests[q])'
  <2>1. CASE q = r
    BY <1>1, <1>2, <2>1 DEF Founded, Basis, Grows
  <2>2. CASE q # r
    <3>1. Founded(requests[q]) /\ requests'[q] = requests[q]
      BY <1>1, <2>2 DEF IInv, Callers
    <3> QED
      BY <1>2, <3>1 DEF Founded, Basis, Grows
  <2> QED
    BY <2>1, <2>2
<1> QED
  BY <1>1, <1>3 DEF Callers

LEMMA FinishStays ==
    ASSUME IInv, Grows, NEW r \in Request, Finish(r)
    PROVE  Callers'
<1>1. Founded(Idle)
  BY IdleTyped DEF Founded
<1>2. served' \in 0..MaxServed
  BY DEF Finish, IInv, Callers
<1> QED
  BY <1>1, <1>2, IdleTyped, CallersStay DEF Finish

\* The reads that open a request touch no table.
LEMMA BeginStays ==
    ASSUME IInv, NEW r \in Request, NEW new \in RequestState, Founded(new),
           Begin(r, new), UNCHANGED <<counters, items, versions, past, overtaken>>
    PROVE  IInv'
<1>1. Tables'
  BY DEF IInv, Tables, Known
<1>2. Grows
  BY DEF Grows
<1>3. served' \in 0..MaxServed /\ requests' = [requests EXCEPT ![r] = new]
  BY DEF Begin, IInv, Callers
<1>4. Callers'
  BY <1>2, <1>3, CallersStay
<1> QED
  BY <1>1, <1>4 DEF IInv

\* What a handler has read of a row is what the row is.
LEMMA RequireStays ==
    ASSUME IInv, NEW r \in Request, NEW i \in Item, NEW kind \in Kind, NEW goal,
           NEW next \in {"requirement_write", "defect_write", "remove"},
           Require(r, i, kind, next, goal),
           next = "requirement_write" => kind = "requirement",
           next = "defect_write" => kind = "defect",
           \/ next = "remove" /\ goal = Nothing
           \/ goal \in Text
           \/ goal \in Flow[kind][items[i].status]
    PROVE  IInv'
<1> DEFINE seen == snapshotOf(items[i])
           new == [pc |-> next, item |-> i, seen |-> seen, goal |-> goal]
<1>1. items[i].kind = kind /\ items[i] # NoRow
  BY DEF Require, NoRow, Kind
<1>2. /\ items[i].text \in Text
      /\ items[i].status \in DOMAIN Flow[kind]
      /\ items[i].status \in past[i]
  BY <1>1 DEF IInv, Tables, Known
<1>3. items[i].status \in Status
  BY <1>2, KindMoves
<1>4. seen \in Snapshot /\ seen.status = items[i].status
  BY <1>2, <1>3 DEF snapshotOf, Snapshot
<1>5. goal \in Status \cup Text \cup Kind \cup {Nothing}
  BY <1>2, KindMoves
<1> HIDE DEF seen
<1>6. new \in RequestState /\ new.pc = next /\ new.item = i /\ new.seen = seen
      /\ new.goal = goal
  BY <1>4, <1>5 DEF RequestState, Step
<1>7. Begin(r, new) /\ UNCHANGED <<counters, items, versions, past, overtaken>>
  BY DEF Require, seen
<1> HIDE DEF new
<1>8. Founded(new)
  BY <1>1, <1>2, <1>4, <1>6 DEF Founded, Basis
<1> QED
  BY <1>6, <1>7, <1>8, BeginStays

LEMMA ReadSound ==
    ASSUME IInv, NEW r \in Request, Read(r)
    PROVE  IInv'
<1>1. "requirement" \in Kind /\ "defect" \in Kind
  BY DEF Kind
<1>2. ASSUME NEW kind \in Kind, Reserve(r, kind) PROVE IInv'
  <2> DEFINE new == [Idle EXCEPT !.pc = "insert", !.goal = kind]
  <2>1. new \in RequestState /\ new.pc = "insert" /\ new.goal = kind
    BY IdleTyped DEF RequestState, Step
  <2>2. Founded(new)
    BY <2>1 DEF Founded
  <2>3. Begin(r, new) /\ UNCHANGED <<counters, items, versions, past, overtaken>>
    BY <1>2 DEF Reserve
  <2> HIDE DEF new
  <2> QED
    BY <2>1, <2>2, <2>3, BeginStays
<1>3. ASSUME NEW i \in Item, Remove(r, i) PROVE IInv'
  BY <1>3, RequireStays DEF Remove
<1>4. ASSUME NEW i \in Item, NEW t \in Text, UpdateRequirement(r, i, t) PROVE IInv'
  BY <1>1, <1>4, RequireStays DEF UpdateRequirement
<1>5. ASSUME NEW i \in Item, NEW t \in Text, UpdateDefect(r, i, t) PROVE IInv'
  BY <1>1, <1>5, RequireStays DEF UpdateDefect
<1>6. ASSUME NEW i \in Item, NEW to \in Status, ChangeRequirementStatus(r, i, to) PROVE IInv'
  BY <1>1, <1>6, Moves, RequireStays DEF ChangeRequirementStatus
<1>7. ASSUME NEW i \in Item, NEW to \in Status, ChangeDefectStatus(r, i, to) PROVE IInv'
  BY <1>1, <1>7, Moves, RequireStays DEF ChangeDefectStatus
<1> QED
  BY <1>2, <1>3, <1>4, <1>5, <1>6, <1>7 DEF Read

-----------------------------------------------------------------------------
(* Writes.                                                                 *)

\* A row written by a request is the row it was, but for its text or its status.
LEMMA WrittenRow ==
    ASSUME IInv, NEW r \in Request, NEW kind \in Kind, Basis(requests[r], kind),
           NEW row,
           \/ row = Rewritten(items[requests[r].item], requests[r].goal)
           \/ /\ requests[r].goal \notin Text
              /\ row = Dated(items[requests[r].item], requests[r].goal)
    PROVE  /\ row \in Row /\ row.kind = kind /\ row.text \in Text
           /\ row.status \in DOMAIN Flow[kind]
           /\ \/ row.status \in past[requests[r].item]
              \/ row.status \in Flow[kind][requests[r].seen.status]
<1> DEFINE old == items[requests[r].item]
           goal == requests[r].goal
<1>1. /\ old \in Row /\ old.kind = kind /\ old.text \in Text
      /\ old.status \in DOMAIN Flow[kind]
      /\ old.status \in past[requests[r].item]
  BY DEF IInv, Tables, Known, Basis, NoRow, Kind
<1>2. goal \in Text \/ /\ goal \in Flow[kind][requests[r].seen.status]
                       /\ goal \in DOMAIN Flow[kind] /\ goal \in Status
  BY KindMoves DEF Basis
<1> HIDE DEF old, goal
<1>3. CASE goal \in Text /\ row = [old EXCEPT !.text = goal]
  BY <1>1, <1>3 DEF Row
<1>4. CASE goal \notin Text /\ row = [old EXCEPT !.status = goal]
  BY <1>1, <1>2, <1>4 DEF Row
<1>5. CASE goal \notin Text /\ row = Dated(old, goal)
  <2>1. row = [old EXCEPT !.status = goal,
                          !.resolvedAt = goal # "reopened" /\ (@ \/ goal = "resolved"),
                          !.closedAt = goal # "reopened" /\ (@ \/ goal \in {"closed", "rejected"})]
    BY <1>5 DEF Dated
  <2> QED
    BY <1>1, <1>2, <1>5, <2>1 DEF Row
<1> QED
  BY <1>3, <1>4, <1>5 DEF Rewritten, old, goal

\* The row, the statuses it has had, and nothing else of the items.
LEMMA MovedSound ==
    ASSUME IInv, NEW r \in Request, NEW kind \in Kind, Basis(requests[r], kind),
           NEW row \in Row, row.kind = kind, row.text \in Text,
           row.status \in DOMAIN Flow[kind],
           Moved(r, row)
    PROVE  /\ Grows
           /\ items' \in [Item -> Row]
           /\ past' \in [Item -> SUBSET Status]
           /\ overtaken' \subseteq Item
           /\ \A i \in Item : Known(i)'
<1> DEFINE i == requests[r].item
<1>1. i \in Item /\ items[i].kind = kind /\ row.status \in Status
  BY KindMoves DEF Basis
<1>2. /\ items' = [items EXCEPT ![i] = row]
      /\ past' = [past EXCEPT ![i] = @ \cup {row.status}]
      /\ overtaken' \in {overtaken, overtaken \cup {i}}
  BY DEF Moved
<1>3. /\ items \in [Item -> Row] /\ past \in [Item -> SUBSET Status]
      /\ overtaken \subseteq Item /\ \A j \in Item : Known(j)
  BY DEF IInv, Tables
<1> HIDE DEF i
<1>4. /\ items' \in [Item -> Row] /\ items'[i] = row
      /\ \A j \in Item : j # i => items'[j] = items[j]
  BY <1>1, <1>2, <1>3
<1>5. /\ past' \in [Item -> SUBSET Status] /\ past'[i] = past[i] \cup {row.status}
      /\ \A j \in Item : j # i => past'[j] = past[j]
  BY <1>1, <1>2, <1>3
<1>6. \A j \in Item : Known(j)'
  BY <1>3, <1>4, <1>5 DEF Known
<1>7. Grows
  BY <1>1, <1>4, <1>5 DEF Grows
<1> QED
  BY <1>1, <1>2, <1>3, <1>4, <1>5, <1>6, <1>7

LEMMA CreateSound ==
    ASSUME IInv, NEW r \in Request, NEW i \in Item, NEW text \in Text, Create(r, i, text)
    PROVE  /\ IInv'
           /\ \E kind \in Kind : past[i] = {} /\ past' = [past EXCEPT ![i] = {Start[kind]}]
<1> DEFINE kind == requests[r].goal
           row == Created(kind, text)
<1>1. kind \in Kind /\ items[i] = NoRow
  BY DEF Create, IInv, Callers, Founded
<1>2. past[i] = {}
  BY <1>1 DEF IInv, Tables, Known, NoRow, Kind
<1>3. /\ counters \in [Kind -> Nat] /\ items \in [Item -> Row]
      /\ versions \in [Item -> Seq(Snapshot)] /\ past \in [Item -> SUBSET Status]
      /\ overtaken \subseteq Item /\ \A j \in Item : Known(j)
  BY DEF IInv, Tables
<1>4. Start[kind] \in DOMAIN Flow[kind] /\ Start[kind] \in Status
  BY <1>1, KindMoves
<1> HIDE DEF kind
<1>5. /\ row \in Row /\ row.kind = kind /\ row.text = text /\ row.status = Start[kind]
  <2>1. counters[kind] + 1 \in Nat
    BY <1>1, <1>3
  <2> QED
    BY <1>1, <1>4, <2>1 DEF Created, NoRow, Row
<1>6. /\ counters' = [counters EXCEPT ![kind] = @ + 1]
      /\ items' = [items EXCEPT ![i] = row]
      /\ versions' = [versions EXCEPT ![i] =
            IF kind = "requirement" THEN <<snapshotOf(row)>> ELSE <<>>]
      /\ past' = [past EXCEPT ![i] = {row.status}]
      /\ Finish(r) /\ overtaken' = overtaken
  BY DEF Create, kind
<1> HIDE DEF row
<1>7. snapshotOf(row) \in Snapshot
  BY <1>4, <1>5 DEF snapshotOf, Snapshot
<1>8. versions' \in [Item -> Seq(Snapshot)]
  <2>1. <<snapshotOf(row)>> \in Seq(Snapshot) /\ <<>> \in Seq(Snapshot)
    BY <1>7
  <2> QED
    BY <1>3, <1>6, <2>1
<1>9. counters' \in [Kind -> Nat]
  BY <1>1, <1>3, <1>6
<1>10. /\ items' \in [Item -> Row] /\ items'[i] = row
       /\ \A j \in Item : j # i => items'[j] = items[j]
  BY <1>3, <1>5, <1>6
<1>11. /\ past' \in [Item -> SUBSET Status] /\ past'[i] = {row.status}
       /\ \A j \in Item : j # i => past'[j] = past[j]
  BY <1>3, <1>4, <1>5, <1>6
<1>12. \A j \in Item : Known(j)'
  BY <1>1, <1>3, <1>4, <1>5, <1>10, <1>11 DEF Known
<1>13. Grows
  BY <1>1, <1>10, <1>11 DEF Grows, NoRow, Kind
<1>14. Callers'
  BY <1>6, <1>13, FinishStays
<1>15. IInv'
  BY <1>3, <1>6, <1>8, <1>9, <1>10, <1>11, <1>12, <1>14 DEF IInv, Tables
<1> QED
  BY <1>1, <1>2, <1>5, <1>6, <1>15

LEMMA AppendSound ==
    ASSUME IInv, NEW r \in Request, AppendVersion(r)
    PROVE  IInv'
<1> DEFINE i == requests[r].item
           row == Rewritten(items[i], requests[r].goal)
<1>1. Basis(requests[r], "requirement") /\ "requirement" \in Kind
  BY DEF AppendVersion, IInv, Callers, Founded, Kind
<1>2. /\ row \in Row /\ row.kind = "requirement" /\ row.text \in Text
      /\ row.status \in DOMAIN Flow["requirement"]
  BY <1>1, WrittenRow
<1>3. /\ versions' = [versions EXCEPT ![i] = Append(@, snapshotOf(row))]
      /\ Moved(r, row) /\ Finish(r) /\ counters' = counters
  BY DEF AppendVersion
<1> HIDE DEF row
<1>4. /\ Grows /\ items' \in [Item -> Row] /\ past' \in [Item -> SUBSET Status]
      /\ overtaken' \subseteq Item /\ \A j \in Item : Known(j)'
  BY <1>1, <1>2, <1>3, MovedSound
<1>5. versions' \in [Item -> Seq(Snapshot)]
  <2>1. snapshotOf(row) \in Snapshot
    BY <1>1, <1>2, KindMoves DEF snapshotOf, Snapshot
  <2>2. i \in Item /\ versions \in [Item -> Seq(Snapshot)]
    BY <1>1 DEF Basis, IInv, Tables
  <2> HIDE DEF i
  <2>3. Append(versions[i], snapshotOf(row)) \in Seq(Snapshot)
    BY <2>1, <2>2
  <2> QED
    BY <1>3, <2>2, <2>3
<1>6. Callers'
  BY <1>3, <1>4, FinishStays
<1>7. counters' \in [Kind -> Nat]
  BY <1>3 DEF IInv, Tables
<1> QED
  BY <1>4, <1>5, <1>6, <1>7 DEF IInv, Tables

LEMMA DefectSound ==
    ASSUME IInv, NEW r \in Request, DefectWrite(r)
    PROVE  IInv'
<1> DEFINE i == requests[r].item
           goal == requests[r].goal
           row == IF goal \in Text THEN Rewritten(items[i], goal) ELSE Dated(items[i], goal)
<1>1. Basis(requests[r], "defect") /\ "defect" \in Kind
  BY DEF DefectWrite, IInv, Callers, Founded, Kind
<1>2. /\ row \in Row /\ row.kind = "defect" /\ row.text \in Text
      /\ row.status \in DOMAIN Flow["defect"]
  BY <1>1, WrittenRow
<1>3. /\ Moved(r, row) \/ UNCHANGED <<items, past, overtaken>>
      /\ Finish(r) /\ counters' = counters /\ versions' = versions
  BY DEF DefectWrite
<1> HIDE DEF row
<1>4. /\ Grows /\ items' \in [Item -> Row] /\ past' \in [Item -> SUBSET Status]
      /\ overtaken' \subseteq Item /\ \A j \in Item : Known(j)'
  <2>1. CASE Moved(r, row)
    BY <1>1, <1>2, <2>1, MovedSound
  <2>2. CASE UNCHANGED <<items, past, overtaken>>
    BY <2>2 DEF IInv, Tables, Grows, Known
  <2> QED
    BY <1>3, <2>1, <2>2
<1>5. Callers'
  BY <1>3, <1>4, FinishStays
<1> QED
  BY <1>3, <1>4, <1>5 DEF IInv, Tables

LEMMA SoftDeleteSound ==
    ASSUME IInv, NEW r \in Request, SoftDelete(r)
    PROVE  IInv'
<1> DEFINE i == requests[r].item
<1>1. i \in Item /\ items[i].kind \in Kind
  BY DEF SoftDelete, IInv, Callers, Founded
<1>2. /\ items' = [items EXCEPT ![i].live = FALSE]
      /\ Finish(r) /\ UNCHANGED <<counters, versions, past, overtaken>>
  BY DEF SoftDelete
<1>3. items \in [Item -> Row] /\ \A j \in Item : Known(j)
  BY DEF IInv, Tables
<1> HIDE DEF i
<1>4. [items[i] EXCEPT !.live = FALSE] \in Row
  BY <1>1, <1>3 DEF Row
<1>5. /\ items' \in [Item -> Row] /\ items'[i] = [items[i] EXCEPT !.live = FALSE]
      /\ \A j \in Item : j # i => items'[j] = items[j]
  BY <1>1, <1>2, <1>3, <1>4
<1>6. /\ items'[i].kind = items[i].kind /\ items'[i].text = items[i].text
      /\ items'[i].status = items[i].status
  BY <1>1, <1>3, <1>5 DEF Row
<1>7. \A j \in Item : Known(j)'
  <2>1. items[i] # NoRow
    BY <1>1 DEF NoRow, Kind
  <2> QED
    BY <1>1, <1>2, <1>3, <1>5, <1>6, <2>1 DEF Known
<1>8. Grows
  BY <1>2, <1>5, <1>6 DEF Grows
<1>9. Callers'
  BY <1>2, <1>8, FinishStays
<1> QED
  BY <1>2, <1>5, <1>7, <1>9 DEF IInv, Tables

LEMMA RequirementWriteSound ==
    ASSUME IInv, NEW r \in Request, RequirementWrite(r)
    PROVE  IInv'
<1> DEFINE new == [requests[r] EXCEPT !.pc = "append_version"]
<1>1. Tables' /\ Grows
  BY DEF RequirementWrite, IInv, Tables, Known, Grows
<1>2. CASE Finish(r)
  BY <1>1, <1>2, FinishStays DEF IInv
<1>3. CASE Goto(r, "append_version")
  <2>1. requests[r] \in RequestState /\ Basis(requests[r], "requirement")
    BY DEF RequirementWrite, IInv, Callers, Founded
  <2>2. /\ new \in RequestState /\ new.pc = "append_version"
        /\ new.item = requests[r].item /\ new.seen = requests[r].seen
        /\ new.goal = requests[r].goal
    BY <2>1 DEF RequestState, Step
  <2>3. requests' = [requests EXCEPT ![r] = new] /\ served' \in 0..MaxServed
    BY <1>3 DEF Goto, IInv, Callers
  <2> HIDE DEF new
  <2>4. Founded(new)
    BY <2>1, <2>2 DEF Founded, Basis
  <2> QED
    BY <1>1, <2>2, <2>3, <2>4, CallersStay DEF IInv
<1> QED
  BY <1>2, <1>3 DEF RequirementWrite

LEMMA NextSound == IInv /\ [Next]_vars => IInv'
<1> SUFFICES ASSUME IInv, [Next]_vars PROVE IInv'
  OBVIOUS
<1>1. ASSUME NEW r \in Request, Continue(r) PROVE IInv'
  BY <1>1, CreateSound, RequirementWriteSound, AppendSound, DefectSound, SoftDeleteSound
     DEF Continue
<1>2. ASSUME NEW r \in Request, Crash(r) PROVE IInv'
  <2>1. Tables' /\ Grows /\ Finish(r)
    BY <1>2 DEF Crash, IInv, Tables, Known, Grows
  <2> QED
    BY <2>1, FinishStays DEF IInv
<1>3. CASE UNCHANGED vars
  BY <1>3 DEF vars, IInv, Tables, Known, Callers, Founded, Basis
<1> QED
  BY <1>1, <1>2, <1>3, ReadSound DEF Next

LEMMA SpecSound == Spec => []IInv
BY InitSound, NextSound, PTL DEF Spec

\* The types hold, and each row's status is one of its kind's, for any number of
\* items, requests and texts.
THEOREM TypeCorrect == Spec => []TypeOK
BY SpecSound, Typed, PTL

-----------------------------------------------------------------------------
(* The refinement.                                                         *)

\* A write goes to a status the item has had, or to one listed after one it has had.
LEMMA MovedMaps ==
    ASSUME IInv, NEW r \in Request, NEW kind \in Kind, Basis(requests[r], kind),
           NEW row, Moved(r, row),
           \/ row.status \in past[requests[r].item]
           \/ row.status \in Flow[kind][requests[r].seen.status]
    PROVE  [Stages!Next]_past
<1> DEFINE i == requests[r].item
           from == requests[r].seen.status
           Listed == [s \in Status |-> IF s \in DOMAIN RequirementFlow
                                       THEN RequirementFlow[s] ELSE DefectFlow[s]]
<1>1. i \in Item /\ from \in past[i] /\ from \in DOMAIN Flow[kind]
  BY DEF Basis
<1>2. past' = [past EXCEPT ![i] = past[i] \cup {row.status}]
      /\ past \in [Item -> SUBSET Status]
  BY DEF Moved, IInv, Tables
<1>3. CASE row.status \in past[i]
  BY <1>1, <1>2, <1>3
<1>4. CASE row.status \in Flow[kind][from]
  <2>1. Listed[from] = Flow[kind][from]
    BY <1>1, Moves DEF Kind
  <2>2. \E f \in past[i] : \E to \in Listed[f] : past' = [past EXCEPT ![i] = @ \cup {to}]
    BY <1>1, <1>2, <1>4, <2>1
  <2>3. Stages!Move(i)
    BY <2>2 DEF Stages!Move
  <2> QED
    BY <1>1, <2>3 DEF Stages!Next
<1> QED
  BY <1>3, <1>4

LEMMA NextMaps == IInv /\ [Next]_vars => [Stages!Next]_past
<1> SUFFICES ASSUME IInv, [Next]_vars PROVE [Stages!Next]_past
  OBVIOUS
<1>1. ASSUME past' = past PROVE [Stages!Next]_past
  BY <1>1
<1>2. ASSUME NEW r \in Request, NEW i \in Item, NEW text \in Text, Create(r, i, text)
      PROVE  [Stages!Next]_past
  <2>1. PICK kind \in Kind : past[i] = {} /\ past' = [past EXCEPT ![i] = {Start[kind]}]
    BY <1>2, CreateSound
  <2>2. Stages!Open(i)
    BY <2>1 DEF Stages!Open
  <2> QED
    BY <2>2 DEF Stages!Next
<1>3. ASSUME NEW r \in Request, AppendVersion(r) PROVE [Stages!Next]_past
  <2> DEFINE row == Rewritten(items[requests[r].item], requests[r].goal)
  <2>1. Basis(requests[r], "requirement") /\ "requirement" \in Kind /\ Moved(r, row)
    BY <1>3 DEF AppendVersion, IInv, Callers, Founded, Kind
  <2>2. \/ row.status \in past[requests[r].item]
        \/ row.status \in Flow["requirement"][requests[r].seen.status]
    BY <2>1, WrittenRow
  <2> HIDE DEF row
  <2> QED
    BY <2>1, <2>2, MovedMaps
<1>4. ASSUME NEW r \in Request, DefectWrite(r) PROVE [Stages!Next]_past
  <2> DEFINE i == requests[r].item
             goal == requests[r].goal
             row == IF goal \in Text THEN Rewritten(items[i], goal) ELSE Dated(items[i], goal)
  <2>1. Basis(requests[r], "defect") /\ "defect" \in Kind /\ (Moved(r, row) \/ past' = past)
    BY <1>4 DEF DefectWrite, IInv, Callers, Founded, Kind
  <2>2. \/ row.status \in past[requests[r].item]
        \/ row.status \in Flow["defect"][requests[r].seen.status]
    BY <2>1, WrittenRow
  <2> HIDE DEF row
  <2> QED
    BY <1>1, <2>1, <2>2, MovedMaps
<1>5. ASSUME NEW r \in Request,
             Read(r) \/ Crash(r) \/ RequirementWrite(r) \/ SoftDelete(r) \/ UNCHANGED vars
      PROVE  past' = past
  BY <1>5 DEF Read, Reserve, Remove, UpdateRequirement, UpdateDefect,
     ChangeRequirementStatus, ChangeDefectStatus, Require, Crash, RequirementWrite,
     SoftDelete, vars
<1>6. CASE UNCHANGED vars
  BY <1>1, <1>6 DEF vars
<1> QED
  BY <1>1, <1>2, <1>3, <1>4, <1>5, <1>6 DEF Next, Continue

\* Requirements and defects implement the abstract workflow: whichever moves
\* overtake each other, an item takes only statuses listed after ones it has had.
THEOREM Refinement == Spec => FollowsWorkflow
<1>1. Init => Stages!Init
  BY DEF Init, Stages!Init
<1> QED
  BY <1>1, NextMaps, SpecSound, PTL DEF Spec, FollowsWorkflow, Stages!Spec

-----------------------------------------------------------------------------
(* What Trackers inherits from Workflow.                                   *)

\* An implementation of Workflow's steps adds statuses listed after ones the item
\* has had and takes none away.
LEMMA ReachedIsKept ==
    ASSUME past \in [Item -> SUBSET Status], Stages!Reached, [Stages!Next]_past
    PROVE  Stages!Reached'
<1> DEFINE Listed == [s \in Status |-> IF s \in DOMAIN RequirementFlow
                                       THEN RequirementFlow[s] ELSE DefectFlow[s]]
           Starts == {Start[k] : k \in Kind}
           Told(i, had) == \A s \in had \ Starts : \E from \in had : s \in Listed[from]
<1>1. Stages!Reached <=> \A i \in Item : Told(i, past[i])
  BY DEF Stages!Reached
<1>2. Stages!Reached' <=> \A i \in Item : Told(i, past'[i])
  BY DEF Stages!Reached
<1> HIDE DEF Listed, Starts
<1>3. CASE UNCHANGED past
  BY <1>1, <1>2, <1>3
<1>4. ASSUME NEW j \in Item, Stages!Open(j) PROVE Stages!Reached'
  <2>1. PICK t \in Starts : past' = [past EXCEPT ![j] = {t}]
    BY <1>4 DEF Stages!Open, Starts
  <2>2. past'[j] = {t} /\ \A i \in Item \ {j} : past'[i] = past[i]
    BY <2>1
  <2> QED
    BY <1>1, <1>2, <2>2
<1>5. ASSUME NEW j \in Item, Stages!Move(j) PROVE Stages!Reached'
  <2>1. PICK from \in past[j] : \E to \in Listed[from] : past' = [past EXCEPT ![j] = @ \cup {to}]
    BY <1>5 DEF Stages!Move, Listed
  <2>2. PICK to \in Listed[from] : past' = [past EXCEPT ![j] = @ \cup {to}]
    BY <2>1
  <2>3. past'[j] = past[j] \cup {to} /\ \A i \in Item \ {j} : past'[i] = past[i]
    BY <2>2
  <2>4. Told(j, past'[j])
    BY <1>1, <2>3
  <2> QED
    BY <1>1, <1>2, <2>3, <2>4
<1> QED
  BY <1>3, <1>4, <1>5 DEF Stages!Next

\* Every status an item has had is a start or listed after another it has had,
\* whatever status its moves were checked against.
THEOREM ReachedHolds == Spec => []Stages!Reached
<1>1. Init => Stages!Reached
  BY DEF Init, Stages!Reached
<1>2. IInv /\ Stages!Reached /\ [Next]_vars => Stages!Reached'
  BY NextMaps, ReachedIsKept DEF IInv, Tables
<1> QED
  BY <1>1, <1>2, SpecSound, PTL DEF Spec

\* The road to each of these statuses has one gate.
Gated ==
    \A i \in Item :
        /\ items[i].status = "implemented" => "approved" \in past[i]
        /\ items[i].status = "closed" => "resolved" \in past[i]

\* No requirement is implemented that was never approved, and no defect closed
\* that was never resolved, although each move is checked against a status that
\* may have changed by the time it is written.
THEOREM GatedHolds == Spec => []Gated
<1>1. IInv /\ Stages!Reached => Gated
  <2> SUFFICES ASSUME IInv, Stages!Reached, NEW i \in Item
               PROVE  /\ items[i].status = "implemented" => "approved" \in past[i]
                      /\ items[i].status = "closed" => "resolved" \in past[i]
    BY DEF Gated
  <2> DEFINE Listed == [s \in Status |-> IF s \in DOMAIN RequirementFlow
                                         THEN RequirementFlow[s] ELSE DefectFlow[s]]
  <2>1. \A s \in past[i] \ {"draft", "open"} : \E from \in past[i] : s \in Listed[from]
    BY DEF Stages!Reached, Kind, Start
  <2>2. past[i] \subseteq Status
    BY DEF IInv, Tables
  <2>3. \A s \in Status : /\ "implemented" \in Listed[s] => s = "approved"
                          /\ "closed" \in Listed[s] => s = "resolved"
    <3>1. \A s \in DOMAIN RequirementFlow : /\ "implemented" \in RequirementFlow[s] => s = "approved"
                                            /\ "closed" \notin RequirementFlow[s]
      BY DEF RequirementFlow
    <3>2. \A s \in DOMAIN DefectFlow : /\ "closed" \in DefectFlow[s] => s = "resolved"
                                       /\ "implemented" \notin DefectFlow[s]
      BY DEF DefectFlow
    <3> QED
      BY <3>1, <3>2, Moves
  <2>4. items[i].status \in {"implemented", "closed"} => items[i].status \in past[i]
    BY DEF IInv, Tables, Known, NoRow
  <2> QED
    BY <2>1, <2>2, <2>3, <2>4
<1> QED
  BY <1>1, ReachedHolds, SpecSound, PTL

-----------------------------------------------------------------------------
(* What a step can do to a row.                                            *)

\* No row changes but in being deleted.
Quiet ==
    /\ UNCHANGED <<counters, versions, past, overtaken>>
    /\ \A i \in Item :
          /\ items'[i].kind = items[i].kind /\ items'[i].key = items[i].key
          /\ items'[i].status = items[i].status /\ items'[i].text = items[i].text
          /\ items'[i].resolvedAt = items[i].resolvedAt
          /\ items'[i].closedAt = items[i].closedAt

LEMMA StepShapes ==
    ASSUME IInv, [Next]_vars
    PROVE  \/ \E r \in Request, i \in Item, text \in Text : Create(r, i, text)
           \/ \E r \in Request : AppendVersion(r) \/ DefectWrite(r)
           \/ Quiet
<1>1. ASSUME NEW r \in Request, SoftDelete(r) PROVE Quiet
  <2> DEFINE i == requests[r].item
  <2>1. i \in Item /\ items \in [Item -> Row]
    BY <1>1 DEF SoftDelete, IInv, Tables, Callers, Founded
  <2>2. items' = [items EXCEPT ![i].live = FALSE] /\ UNCHANGED <<counters, versions, past, overtaken>>
    BY <1>1 DEF SoftDelete
  <2> HIDE DEF i
  <2>3. ASSUME NEW j \in Item
        PROVE  items'[j] = items[j] \/ items'[j] = [items[j] EXCEPT !.live = FALSE]
    BY <2>1, <2>2
  <2>4. \A j \in Item : items[j] \in Row
    BY <2>1
  <2> QED
    BY <2>2, <2>3, <2>4 DEF Quiet, Row
<1>2. ASSUME NEW r \in Request, Read(r) \/ Crash(r) \/ RequirementWrite(r) PROVE Quiet
  BY <1>2 DEF Read, Reserve, Remove, UpdateRequirement, UpdateDefect,
     ChangeRequirementStatus, ChangeDefectStatus, Require, Crash, RequirementWrite, Quiet
<1>3. CASE UNCHANGED vars
  BY <1>3 DEF vars, Quiet
<1> QED
  BY <1>1, <1>2, <1>3 DEF Next, Continue

\* A write touches one row, of the kind the request is for, and leaves its key.
LEMMA WriteShape ==
    ASSUME IInv, NEW r \in Request, AppendVersion(r) \/ DefectWrite(r)
    PROVE  /\ counters' = counters
           /\ requests[r].item \in Item
           /\ items[requests[r].item].kind
                 = IF requests[r].pc = "append_version" THEN "requirement" ELSE "defect"
           /\ \A i \in Item : /\ items'[i].kind = items[i].kind
                              /\ items'[i].key = items[i].key
           /\ \A i \in Item \ {requests[r].item} : items'[i] = items[i]
<1> DEFINE i == requests[r].item
<1>1. i \in Item /\ items[i].kind
                 = IF requests[r].pc = "append_version" THEN "requirement" ELSE "defect"
  BY DEF AppendVersion, DefectWrite, IInv, Callers, Founded, Basis
<1>2. items \in [Item -> Row] /\ counters' = counters
  BY DEF IInv, Tables, AppendVersion, DefectWrite
<1>3. \/ items' = items
      \/ items' = [items EXCEPT ![i] = Rewritten(items[i], requests[r].goal)]
      \/ items' = [items EXCEPT ![i] = Dated(items[i], requests[r].goal)]
  BY DEF AppendVersion, DefectWrite, Moved
<1> HIDE DEF i
<1>4. items[i] \in Row
  BY <1>1, <1>2
<1>5. /\ Rewritten(items[i], requests[r].goal).kind = items[i].kind
      /\ Rewritten(items[i], requests[r].goal).key = items[i].key
      /\ Dated(items[i], requests[r].goal).kind = items[i].kind
      /\ Dated(items[i], requests[r].goal).key = items[i].key
  BY <1>4 DEF Rewritten, Dated, Row
<1>6. \A j \in Item \ {i} : items'[j] = items[j]
  BY <1>1, <1>2, <1>3
<1>7. items'[i].kind = items[i].kind /\ items'[i].key = items[i].key
  BY <1>1, <1>2, <1>3, <1>5
<1> QED
  BY <1>1, <1>2, <1>6, <1>7 DEF i

-----------------------------------------------------------------------------
(* Keys.                                                                   *)

\* KeysHaveNoHoles alone would let the next key be one that is taken already.
Numbered ==
    /\ \A i \in Item : items[i].kind \in Kind => items[i].key \in 1..counters[items[i].kind]
    /\ KeysHaveNoHoles

LEMMA NumberedStays == IInv /\ Numbered /\ [Next]_vars => Numbered'
<1> SUFFICES ASSUME IInv, Numbered, [Next]_vars PROVE Numbered'
  OBVIOUS
<1>1. counters \in [Kind -> Nat] /\ items \in [Item -> Row]
  BY DEF IInv, Tables
<1>2. ASSUME counters' = counters,
             \A i \in Item : items'[i].kind = items[i].kind /\ items'[i].key = items[i].key
      PROVE  Numbered'
  BY <1>2 DEF Numbered, KeysHaveNoHoles
<1>3. ASSUME NEW r \in Request, NEW i \in Item, NEW text \in Text, Create(r, i, text)
      PROVE  Numbered'
  <2> DEFINE kind == requests[r].goal
             row == Created(kind, text)
             key == counters[kind] + 1
  <2>1. /\ kind \in Kind /\ items[i] = NoRow
        /\ counters' = [counters EXCEPT ![kind] = @ + 1]
        /\ items' = [items EXCEPT ![i] = row]
    BY <1>3 DEF Create, IInv, Callers, Founded
  <2>2. row.kind = kind /\ row.key = key
    BY DEF Created, NoRow
  <2>3. items[i].kind \notin Kind
    BY <2>1 DEF NoRow, Kind
  <2> HIDE DEF row, kind
  <2>4. /\ counters'[kind] = key /\ key \in Nat
        /\ \A k \in Kind \ {kind} : counters'[k] = counters[k]
        /\ \A k \in Kind : counters[k] \in Nat
    BY <1>1, <2>1
  <2>5. /\ items'[i] = row
        /\ \A j \in Item \ {i} : items'[j] = items[j]
    BY <1>1, <2>1
  <2>6. ASSUME NEW j \in Item, items'[j].kind \in Kind
        PROVE  items'[j].key \in 1..counters'[items'[j].kind]
    <3>1. CASE j = i
      BY <2>1, <2>2, <2>4, <2>5, <3>1
    <3>2. CASE j # i
      <4>1. items[j].kind \in Kind /\ items'[j] = items[j]
        BY <2>5, <2>6, <3>2
      <4>2. items[j].key \in 1..counters[items[j].kind]
        BY <4>1 DEF Numbered
      <4>3. counters'[items[j].kind] >= counters[items[j].kind]
            /\ counters'[items[j].kind] \in Nat /\ counters[items[j].kind] \in Nat
        BY <2>1, <2>4, <4>1
      <4> QED
        BY <4>1, <4>2, <4>3
    <3> QED
      BY <3>1, <3>2
  <2>7. ASSUME NEW k \in Kind, NEW n \in 1..counters'[k]
        PROVE  \E j \in Item : /\ items'[j].kind = k /\ items'[j].key = n
                               /\ \A m \in Item \ {j} : items'[m].kind = k => items'[m].key # n
    <3>1. CASE k = kind /\ n = key
      <4>1. ASSUME NEW m \in Item \ {i}, items'[m].kind = k PROVE items'[m].key # n
        <5>1. items[m].key \in 1..counters[kind] /\ items'[m] = items[m]
          BY <2>1, <2>5, <3>1, <4>1 DEF Numbered
        <5> QED
          BY <2>1, <2>4, <3>1, <5>1
      <4> QED
        BY <2>2, <2>5, <3>1, <4>1
    <3>2. CASE ~(k = kind /\ n = key)
      <4>1. n \in 1..counters[k]
        BY <2>1, <2>4, <3>2
      <4>2. PICK j \in Item : /\ items[j].kind = k /\ items[j].key = n
                              /\ \A m \in Item \ {j} : items[m].kind = k => items[m].key # n
        BY <4>1 DEF Numbered, KeysHaveNoHoles
      <4>3. j # i
        BY <2>3, <4>2
      <4>4. items'[i].kind = k => items'[i].key # n
        BY <2>2, <2>5, <3>2
      <4> QED
        BY <2>5, <4>2, <4>3, <4>4
    <3> QED
      BY <3>1, <3>2
  <2> QED
    BY <2>6, <2>7 DEF Numbered, KeysHaveNoHoles
<1>4. ASSUME NEW r \in Request, AppendVersion(r) \/ DefectWrite(r) PROVE Numbered'
  BY <1>2, <1>4, WriteShape
<1>5. CASE Quiet
  BY <1>2, <1>5 DEF Quiet
<1> QED
  BY <1>3, <1>4, <1>5, StepShapes

\* The keys of a kind are the numbers up to its counter, each given once: nextKey
\* and the insert are one transaction, whatever requests fail in between.
THEOREM KeysHaveNoHolesHolds == Spec => []KeysHaveNoHoles
<1>1. Init => Numbered
  BY DEF Init, Numbered, KeysHaveNoHoles, NoRow, Kind
<1>2. Numbered => KeysHaveNoHoles
  BY DEF Numbered
<1> QED
  BY <1>1, <1>2, NumberedStays, SpecSound, PTL DEF Spec

-----------------------------------------------------------------------------
(* Dates.                                                                  *)

\* The body of DatesTellTheStatus, for one item.
Told(i) ==
    items[i].kind = "defect" =>
        LET d == items[i] IN
        /\ d.status \in {"closed", "rejected"} => d.closedAt
        /\ d.status = "resolved" => d.resolvedAt
        /\ i \notin overtaken =>
              /\ d.closedAt <=> d.status \in {"closed", "rejected"}
              /\ d.resolvedAt <=> d.status \in {"resolved", "closed"}

\* A move of a defect that nothing overtook goes to a status listed after the one
\* it leaves; the dates that follow are those of the new status.
LEMMA MoveIsDated ==
    ASSUME NEW old \in Row, NEW to,
           old.status \in DOMAIN DefectFlow, to \in DefectFlow[old.status],
           old.closedAt <=> old.status \in {"closed", "rejected"},
           old.resolvedAt <=> old.status \in {"resolved", "closed"}
    PROVE  /\ Dated(old, to).closedAt <=> to \in {"closed", "rejected"}
           /\ Dated(old, to).resolvedAt <=> to \in {"resolved", "closed"}
<1>1. /\ Dated(old, to).closedAt
            = (to # "reopened" /\ (old.closedAt \/ to \in {"closed", "rejected"}))
      /\ Dated(old, to).resolvedAt
            = (to # "reopened" /\ (old.resolvedAt \/ to = "resolved"))
  BY DEF Dated, Row
<1>2. /\ old.status \in {"open", "triaged", "in_progress", "reopened"}
            => to \in {"open", "triaged", "in_progress", "resolved", "rejected"}
      /\ old.status = "resolved" => to \in {"closed", "reopened"}
      /\ old.status \in {"closed", "rejected"} => to = "reopened"
  BY DEF DefectFlow
<1>3. old.status \in {"open", "triaged", "in_progress", "resolved", "closed",
                      "rejected", "reopened"}
  BY DefectMoves
<1>4. CASE old.status = "resolved"
  BY <1>1, <1>2, <1>4
<1>5. CASE old.status \in {"closed", "rejected"}
  BY <1>1, <1>2, <1>5
<1>6. CASE old.status \in {"open", "triaged", "in_progress", "reopened"}
  BY <1>1, <1>2, <1>6
<1> QED
  BY <1>3, <1>4, <1>5, <1>6

LEMMA DefectWriteTold ==
    ASSUME IInv, NEW r \in Request, DefectWrite(r), \A j \in Item : Told(j)
    PROVE  \A j \in Item : Told(j)'
<1>0. PICK i \in Item : i = requests[r].item
  BY WriteShape
<1> DEFINE goal == requests[r].goal
           seen == requests[r].seen.status
<1>1. /\ i \in Item /\ items[i] \in Row /\ items[i].kind = "defect"
      /\ seen \in DOMAIN DefectFlow
      /\ goal \in Text \/ goal \in DefectFlow[seen]
  BY <1>0, Moves DEF DefectWrite, IInv, Tables, Callers, Founded, Basis
<1>2. \/ UNCHANGED <<items, overtaken>>
      \/ /\ goal \in Text /\ Moved(r, Rewritten(items[i], goal))
      \/ /\ goal \notin Text /\ Moved(r, Dated(items[i], goal))
  BY <1>0 DEF DefectWrite
<1>3. /\ \A j \in Item \ {i} : items'[j] = items[j]
      /\ items \in [Item -> Row]
  BY <1>0, WriteShape DEF IInv, Tables
<1>4. overtaken \subseteq overtaken'
  BY <1>0, <1>2 DEF Moved
<1>5. ASSUME NEW j \in Item \ {i} PROVE Told(j)'
  BY <1>3, <1>4, <1>5 DEF Told
<1> HIDE DEF seen, goal
<1>6. CASE UNCHANGED <<items, overtaken>>
  BY <1>6 DEF Told
<1>7. CASE goal \in Text /\ Moved(r, Rewritten(items[i], goal))
  <2>1. items'[i] = [items[i] EXCEPT !.text = goal]
    BY <1>0, <1>1, <1>3, <1>7 DEF Moved, Rewritten
  <2>2. /\ items'[i].status = items[i].status /\ items'[i].kind = items[i].kind
        /\ items'[i].closedAt = items[i].closedAt
        /\ items'[i].resolvedAt = items[i].resolvedAt
    BY <1>1, <2>1 DEF Row
  <2>3. Told(i)'
    BY <1>1, <1>4, <2>2 DEF Told
  <2> QED
    BY <1>5, <2>3
<1>8. CASE goal \notin Text /\ Moved(r, Dated(items[i], goal))
  <2>1. items'[i] = Dated(items[i], goal)
    BY <1>0, <1>1, <1>3, <1>8 DEF Moved
  <2>2. /\ items'[i].status = goal /\ items'[i].kind = "defect"
        /\ items'[i].closedAt
              = (goal # "reopened" /\ (items[i].closedAt \/ goal \in {"closed", "rejected"}))
        /\ items'[i].resolvedAt
              = (goal # "reopened" /\ (items[i].resolvedAt \/ goal = "resolved"))
    BY <1>1, <2>1 DEF Dated, Row
  <2>3. /\ goal \in {"closed", "rejected"} => items'[i].closedAt
        /\ goal = "resolved" => items'[i].resolvedAt
    BY <2>2
  <2>4. ASSUME i \notin overtaken'
        PROVE  /\ items'[i].closedAt <=> goal \in {"closed", "rejected"}
               /\ items'[i].resolvedAt <=> goal \in {"resolved", "closed"}
    <3>1. /\ items[i].closedAt <=> items[i].status \in {"closed", "rejected"}
          /\ items[i].resolvedAt <=> items[i].status \in {"resolved", "closed"}
      BY <1>1, <1>4, <2>4 DEF Told
    <3>2. items[i].status = seen \/ items[i].status = goal
      BY <1>0, <1>8, <2>1, <2>2, <2>4 DEF Moved, seen
    <3>3. CASE items[i].status = seen
      <4>1. goal \in DefectFlow[items[i].status]
        BY <1>1, <1>8, <3>3
      <4>2. items[i].status \in DOMAIN DefectFlow
        BY <1>1, <3>3
      <4> QED
        BY <1>1, <2>1, <3>1, <4>1, <4>2, MoveIsDated
    <3>4. CASE items[i].status = goal
      BY <2>2, <3>1, <3>4
    <3> QED
      BY <3>2, <3>3, <3>4
  <2>5. Told(i)'
    BY <1>1, <2>2, <2>3, <2>4 DEF Told
  <2> QED
    BY <1>5, <2>5
<1> QED
  BY <1>2, <1>6, <1>7, <1>8 DEF goal

LEMMA ToldStays == IInv /\ DatesTellTheStatus /\ [Next]_vars => DatesTellTheStatus'
<1> SUFFICES ASSUME IInv, [Next]_vars, \A j \in Item : Told(j)
             PROVE  \A j \in Item : Told(j)'
  BY DEF DatesTellTheStatus, Told
<1>1. items \in [Item -> Row]
  BY DEF IInv, Tables
<1>2. ASSUME NEW r \in Request, NEW i \in Item, NEW text \in Text, Create(r, i, text)
      PROVE  \A j \in Item : Told(j)'
  <2> DEFINE kind == requests[r].goal
             row == Created(kind, text)
  <2>1. items' = [items EXCEPT ![i] = row] /\ overtaken' = overtaken
    BY <1>2 DEF Create
  <2>2. /\ row.kind = kind /\ row.status = Start[kind]
        /\ row.resolvedAt = FALSE /\ row.closedAt = FALSE
    BY DEF Created, NoRow
  <2> HIDE DEF row, kind
  <2>3. items'[i] = row /\ \A j \in Item \ {i} : items'[j] = items[j]
    BY <1>1, <2>1
  <2>4. kind = "defect" => row.status = "open"
    BY <2>2 DEF Start
  <2>5. Told(i)'
    BY <2>2, <2>3, <2>4 DEF Told
  <2> QED
    BY <2>1, <2>3, <2>5 DEF Told
<1>3. ASSUME NEW r \in Request, AppendVersion(r) PROVE \A j \in Item : Told(j)'
  <2> DEFINE i == requests[r].item
  <2>1. items[i].kind = "requirement" /\ i \in Item
    BY <1>3 DEF AppendVersion, IInv, Callers, Founded, Basis
  <2>2. /\ items'[i].kind = items[i].kind
        /\ \A j \in Item \ {i} : items'[j] = items[j]
    BY <1>3, <2>1, WriteShape
  <2>3. overtaken \subseteq overtaken'
    BY <1>3 DEF AppendVersion, Moved
  <2> QED
    BY <2>1, <2>2, <2>3 DEF Told
<1>4. CASE Quiet
  BY <1>4 DEF Quiet, Told
<1> QED
  BY <1>2, <1>3, <1>4, DefectWriteTold, StepShapes

\* A closed, rejected or resolved defect has its date, however its moves overlap;
\* the dates are exactly those of its status if none overtook another.
THEOREM DatesTellTheStatusHolds == Spec => []DatesTellTheStatus
<1>1. Init => DatesTellTheStatus
  BY DEF Init, DatesTellTheStatus, NoRow
<1> QED
  BY <1>1, ToldStays, SpecSound, PTL DEF Spec

-----------------------------------------------------------------------------
(* Versions.                                                               *)

\* What VersionsTellTheRow says of one history, and that it has all the statuses
\* the requirement has had: a move is listed after one of them.
History(v, row, had) ==
    /\ v \in Seq(Snapshot) /\ v # <<>>
    /\ v[Len(v)] = snapshotOf(row)
    /\ \A n \in 2..Len(v) :
          \/ v[n].status = v[n - 1].status
          \/ \E m \in 1..(n - 1) : v[n].status \in RequirementFlow[v[m].status]
    /\ \A s \in had : \E m \in 1..Len(v) : v[m].status = s

Recorded ==
    \A i \in Item : items[i].kind = "requirement" => History(versions[i], items[i], past[i])

LEMMA RecordedTells == Recorded => VersionsTellTheRow
BY DEF Recorded, History, VersionsTellTheRow

LEMMA HistoryGrows ==
    ASSUME NEW v, NEW old, NEW had, History(v, old, had),
           NEW row, snapshotOf(row) \in Snapshot,
           \/ row.status = old.status
           \/ \E s \in had : row.status \in RequirementFlow[s]
    PROVE  History(Append(v, snapshotOf(row)), row, had \cup {row.status})
<1> DEFINE snap == snapshotOf(row)
           w == Append(v, snap)
<1>1. snap.status = row.status /\ v[Len(v)].status = old.status
  BY DEF snapshotOf, History
<1>2. v \in Seq(Snapshot) /\ v # <<>> /\ Len(v) \in Nat \ {0}
  BY DEF History
<1> HIDE DEF snap
<1>3. /\ w \in Seq(Snapshot) /\ Len(w) = Len(v) + 1 /\ w[Len(v) + 1] = snap
      /\ \A n \in 1..Len(v) : w[n] = v[n]
  BY <1>2 DEF snap
<1> HIDE DEF w
<1>4. w # <<>> /\ w[Len(w)] = snap
  BY <1>2, <1>3
<1>5. ASSUME NEW n \in 2..Len(w)
      PROVE  \/ w[n].status = w[n - 1].status
             \/ \E m \in 1..(n - 1) : w[n].status \in RequirementFlow[w[m].status]
  <2>1. CASE n \in 2..Len(v)
    <3>1. n - 1 \in 1..Len(v) /\ \A m \in 1..(n - 1) : m \in 1..Len(v)
      BY <1>2, <2>1
    <3>2. \/ v[n].status = v[n - 1].status
          \/ \E m \in 1..(n - 1) : v[n].status \in RequirementFlow[v[m].status]
      BY <2>1 DEF History
    <3> QED
      BY <1>2, <1>3, <2>1, <3>1, <3>2
  <2>2. CASE n = Len(v) + 1
    <3>1. n - 1 = Len(v) /\ Len(v) \in 1..Len(v) /\ w[n].status = row.status
      BY <1>1, <1>2, <1>3, <2>2
    <3>2. CASE row.status = old.status
      BY <1>1, <1>3, <3>1, <3>2
    <3>3. CASE \E s \in had : row.status \in RequirementFlow[s]
      <4>1. PICK s \in had : row.status \in RequirementFlow[s]
        BY <3>3
      <4>2. PICK m \in 1..Len(v) : v[m].status = s
        BY DEF History
      <4> QED
        BY <1>3, <3>1, <4>1, <4>2
    <3> QED
      BY <3>2, <3>3
  <2> QED
    BY <1>2, <1>3, <2>1, <2>2
<1>6. ASSUME NEW s \in had \cup {row.status}
      PROVE  \E m \in 1..Len(w) : w[m].status = s
  <2>1. CASE s = row.status
    BY <1>1, <1>2, <1>3, <2>1
  <2>2. CASE s \in had
    <3>1. PICK m \in 1..Len(v) : v[m].status = s
      BY <2>2 DEF History
    <3> QED
      BY <1>2, <1>3, <3>1
  <2> QED
    BY <2>1, <2>2
<1> QED
  BY <1>3, <1>4, <1>5, <1>6 DEF History, snap, w

LEMMA RecordedStays == IInv /\ Recorded /\ [Next]_vars => Recorded'
<1> SUFFICES ASSUME IInv, Recorded, [Next]_vars PROVE Recorded'
  OBVIOUS
<1>1. /\ items \in [Item -> Row] /\ versions \in [Item -> Seq(Snapshot)]
      /\ past \in [Item -> SUBSET Status]
  BY DEF IInv, Tables
<1>2. ASSUME NEW r \in Request, NEW i \in Item, NEW text \in Text, Create(r, i, text)
      PROVE  Recorded'
  <2> DEFINE kind == requests[r].goal
             row == Created(kind, text)
             snap == snapshotOf(row)
  <2>1. /\ items' = [items EXCEPT ![i] = row]
        /\ versions' = [versions EXCEPT ![i] = IF kind = "requirement" THEN <<snap>> ELSE <<>>]
        /\ past' = [past EXCEPT ![i] = {row.status}]
        /\ kind \in Kind
    BY <1>2 DEF Create, IInv, Callers, Founded
  <2>2. row.kind = kind /\ row.status = Start[kind] /\ row.text = text
    BY DEF Created, NoRow
  <2> HIDE DEF row, kind
  <2>3. snap \in Snapshot /\ snap.status = row.status
    BY <2>1, <2>2, KindMoves DEF snapshotOf, Snapshot
  <2> HIDE DEF snap
  <2>4. /\ items'[i] = row /\ past'[i] = {row.status}
        /\ versions'[i] = IF kind = "requirement" THEN <<snap>> ELSE <<>>
        /\ \A j \in Item \ {i} : /\ items'[j] = items[j] /\ versions'[j] = versions[j]
                                 /\ past'[j] = past[j]
    BY <1>1, <2>1
  <2>5. History(<<snap>>, row, {row.status})
    <3>1. <<snap>> \in Seq(Snapshot) /\ Len(<<snap>>) = 1 /\ <<snap>>[1] = snap
          /\ <<snap>> # <<>>
      BY <2>3
    <3> QED
      BY <2>3, <3>1 DEF History, snap
  <2> QED
    BY <2>2, <2>4, <2>5 DEF Recorded
<1>3. ASSUME NEW r \in Request, AppendVersion(r) PROVE Recorded'
  <2> DEFINE i == requests[r].item
             row == Rewritten(items[i], requests[r].goal)
             snap == snapshotOf(row)
             seen == requests[r].seen.status
  <2>1. /\ Basis(requests[r], "requirement") /\ "requirement" \in Kind
        /\ versions' = [versions EXCEPT ![i] = Append(@, snap)]
        /\ items' = [items EXCEPT ![i] = row]
        /\ past' = [past EXCEPT ![i] = @ \cup {row.status}]
    BY <1>3 DEF AppendVersion, Moved, IInv, Callers, Founded, Kind
  <2>2. row \in Row /\ row.text \in Text /\ row.status \in Status
    BY <2>1, WrittenRow, KindMoves
  <2>3. snap \in Snapshot
    BY <2>2 DEF snapshotOf, Snapshot
  <2>4. /\ i \in Item /\ seen \in past[i] /\ items[i].kind = "requirement"
        /\ items[i] \in Row
        /\ requests[r].goal \in Text \/ requests[r].goal \in RequirementFlow[seen]
    BY <1>1, <2>1, Moves DEF Basis
  <2>5. row.status = items[i].status \/ \E s \in past[i] : row.status \in RequirementFlow[s]
    BY <2>4 DEF Rewritten, Row
  <2>6. History(versions[i], items[i], past[i])
    BY <2>4 DEF Recorded
  <2> HIDE DEF i, row, snap
  <2>7. History(Append(versions[i], snap), row, past[i] \cup {row.status})
    BY <2>3, <2>5, <2>6, HistoryGrows DEF snap
  <2>8. /\ versions'[i] = Append(versions[i], snap) /\ items'[i] = row
        /\ past'[i] = past[i] \cup {row.status}
        /\ \A j \in Item \ {i} : /\ items'[j] = items[j] /\ versions'[j] = versions[j]
                                 /\ past'[j] = past[j]
    BY <1>1, <2>1, <2>4
  <2> QED
    BY <2>7, <2>8 DEF Recorded
<1>4. ASSUME NEW r \in Request, DefectWrite(r) PROVE Recorded'
  <2> DEFINE i == requests[r].item
  <2>1. i \in Item /\ items[i].kind = "defect"
    BY <1>4 DEF DefectWrite, IInv, Callers, Founded, Basis
  <2>2. versions' = versions /\ \A j \in Item \ {i} : items'[j] = items[j] /\ past'[j] = past[j]
    BY <1>1, <1>4 DEF DefectWrite, Moved
  <2>3. items'[i].kind = "defect"
    BY <1>4, <2>1, WriteShape
  <2> QED
    BY <2>2, <2>3 DEF Recorded
<1>5. CASE Quiet
  BY <1>5 DEF Quiet, Recorded, History, snapshotOf
<1> QED
  BY <1>2, <1>3, <1>4, <1>5, StepShapes

\* The last version of a requirement is the row, and its history follows the
\* table of moves, however edits and moves of it overlap.
THEOREM VersionsTellTheRowHolds == Spec => []VersionsTellTheRow
<1>1. Init => Recorded
  BY DEF Init, Recorded, NoRow
<1> QED
  BY <1>1, RecordedStays, RecordedTells, SpecSound, PTL DEF Spec
=============================================================================
