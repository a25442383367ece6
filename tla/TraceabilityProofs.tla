------------------------- MODULE TraceabilityProofs -------------------------
(* TLAPS proofs about Traceability, for every set of requirements, cases,  *)
(* defects and requests, and every number of changes.                      *)
EXTENDS Traceability, TLAPS

USE TraceabilityAssumption

\* Links and the requests about to make one are of the shapes the matrix reads,
\* and start at something that was created.
Shaped(s, t) == <<s, t>> \in Linkable /\ things[s].life # "absent"

\* Links and deletions that are under way: an end that was located is still there
\* unless the request was overtaken, and the sound links of what a deletion has
\* deleted are those it has purged, but for those of a case it has not listed.
Followed(q) ==
    /\ q.pc \in {"locate_target", "find", "insert"} /\ ~q.overtaken => Live(q.source)
    /\ q.pc \in {"find", "insert"} /\ ~q.overtaken => Live(q.target)

Covers(q) ==
    \A l \in links : l.sound /\ (l.source \in q.doomed \/ l.target \in q.doomed) =>
        \/ l \in q.purged
        \/ q.pc = "suite_commit" /\ l.source \notin q.doomed /\ l.target \notin q.ids

Located(q) ==
    /\ q.pc \in {"locate_target", "find", "insert"} => Shaped(q.source, q.target)
    /\ q.pc = "remove" => q.source \in Thing
    /\ q.pc = "defect_insert" => q.ids \subseteq Requirement
    /\ q.pc \notin {"remove_commit", "suite_commit"} => q.doomed = {}
    /\ q.pc = "suite_commit" => q.doomed \subseteq Case
    /\ \A t \in Thing : t \in q.doomed => things[t].life # "absent"
    /\ Followed(q)
    /\ Covers(q)

Tables ==
    /\ things \in [Thing -> [life: {"absent", "live", "deleted"}, aside: BOOLEAN]]
    /\ suiteLive \in BOOLEAN
    /\ latest \in [Case -> Verdict]
    /\ links \subseteq Link
    /\ \A l \in links : Shaped(l.source, l.target)
    /\ \A k, l \in links : k.source = l.source /\ k.target = l.target => k = l
    /\ made \in Nat
    /\ missed \subseteq Case
    /\ LinksDieWithTheirEnds

Callers ==
    /\ requests \in [Request -> RequestState]
    /\ served \in 0..MaxServed
    /\ \A r \in Request : Located(requests[r])

DInv == Tables /\ Callers

-----------------------------------------------------------------------------
(* What a step does to the requests.                                       *)

LEMMA IdleTyped == Idle \in RequestState /\ Idle.pc = "idle"
BY DEF Idle, RequestState, Step

\* A step that deletes nothing, and adds no sound link to what is being deleted.
Created == \A t \in Thing : things[t].life # "absent" => things'[t].life # "absent"
Gentle ==
    /\ Created
    /\ \A t \in Thing : Live(t) => Live(t)'
    /\ \A l \in links' : l.sound /\ l \notin links =>
          \A q \in Request : l.source \notin requests[q].doomed
                             /\ l.target \notin requests[q].doomed

LEMMA Stays ==
    ASSUME Gentle, NEW q, Located(q),
           \A l \in links' : l.sound /\ l \notin links =>
               l.source \notin q.doomed /\ l.target \notin q.doomed
    PROVE  Located(q)'
<1>1. \A s, t : Shaped(s, t) => Shaped(s, t)' /\ s \in Thing /\ t \in Thing
  BY DEF Gentle, Created, Shaped, Linkable, Thing
<1>2. Followed(q)'
  BY <1>1 DEF Gentle, Located, Followed
<1>3. Covers(q)'
  BY DEF Gentle, Located, Covers
<1> QED
  BY <1>1, <1>2, <1>3 DEF Located, Gentle, Created

LEMMA CallersStay ==
    ASSUME DInv, Gentle, served' \in 0..MaxServed, NEW r \in Request,
           NEW new \in RequestState, Located(new), new.doomed = {},
           requests' = [requests EXCEPT ![r] = new]
    PROVE  Callers'
<1>1. /\ requests' \in [Request -> RequestState]
      /\ requests'[r] = new
      /\ \A q \in Request : q # r => requests'[q] = requests[q]
  BY DEF DInv, Callers
<1>2. ASSUME NEW q \in Request PROVE Located(requests[q])'
  <2>1. CASE q = r
    <3>1. Located(new)'
      BY Stays
    <3> QED
      BY <1>1, <2>1, <3>1 DEF Located, Followed, Covers
  <2>2. CASE q # r
    <3>1. PICK old \in RequestState : old = requests[q]
      BY DEF DInv, Callers
    <3>2. Located(old)
      BY <3>1 DEF DInv, Callers
    <3>3. Located(old)'
      BY <3>1, <3>2, Stays DEF Gentle
    <3> QED
      BY <1>1, <2>2, <3>1, <3>3 DEF Located, Followed, Covers
  <2> QED
    BY <2>1, <2>2
<1> QED
  BY <1>1, <1>2 DEF Callers

LEMMA IdleLocated == Located(Idle) /\ Idle.doomed = {}
BY DEF Idle, Located, Followed, Covers

LEMMA FinishStays ==
    ASSUME DInv, Gentle, NEW r \in Request, Finish(r)
    PROVE  Callers'
<1>1. served' \in 0..MaxServed /\ requests' = [requests EXCEPT ![r] = Idle]
  BY DEF Finish, DInv, Callers
<1> QED
  BY <1>1, IdleTyped, IdleLocated, CallersStay

LEMMA TablesStay == DInv /\ UNCHANGED data => Tables' /\ Gentle
BY DEF DInv, Tables, data, Shaped, LinksDieWithTheirEnds, Live, Created, Gentle

LEMMA BeginStays ==
    ASSUME DInv, NEW r \in Request, NEW new \in RequestState, Located(new),
           new.doomed = {}, Begin(r, new), UNCHANGED data
    PROVE  DInv'
<1>1. served' \in 0..MaxServed /\ requests' = [requests EXCEPT ![r] = new]
  BY DEF Begin, Count, DInv, Callers
<1> QED
  BY <1>1, TablesStay, CallersStay DEF DInv

\* A read that lets the request go on, or ends it.
LEMMA CheckStays ==
    ASSUME DInv, NEW r \in Request, NEW ok, NEW next \in Step, Check(r, ok, next),
           \/ /\ next \in {"unlink_target", "unlink"}
              /\ requests[r].pc \in {"unlink_source", "unlink_target"}
           \/ next = "find" /\ requests[r].pc = "locate_target" /\ (ok => Live(requests[r].target))
           \/ next = "insert" /\ requests[r].pc = "find"
    PROVE  DInv'
<1> DEFINE new == IF ok THEN [requests[r] EXCEPT !.pc = next] ELSE Idle
<1>1. requests[r] \in RequestState /\ Located(requests[r])
  BY DEF DInv, Callers
<1>2. CASE ok
  <2>1. /\ new \in RequestState /\ new.pc = next /\ new.source = requests[r].source
        /\ new.target = requests[r].target /\ new.ids = requests[r].ids
        /\ new.doomed = requests[r].doomed /\ new.overtaken = requests[r].overtaken
    BY <1>1, <1>2 DEF RequestState
  <2>2. served' \in 0..MaxServed /\ requests' = [requests EXCEPT ![r] = new] /\ UNCHANGED data
    BY <1>2 DEF Check, DInv, Callers
  <2> HIDE DEF new
  <2>3. new.doomed = {}
    BY <1>1, <2>1 DEF Located
  <2>4. Followed(new)
    BY <1>1, <1>2, <2>1 DEF Located, Followed
  <2>5. Located(new)
    BY <1>1, <2>1, <2>3, <2>4 DEF Located, Covers
  <2> QED
    BY <2>1, <2>2, <2>3, <2>5, TablesStay, CallersStay DEF DInv
<1>3. CASE ~ok
  <2>1. Finish(r) /\ UNCHANGED data
    BY <1>3 DEF Check, Finish
  <2> QED
    BY <2>1, TablesStay, FinishStays DEF DInv
<1> QED
  BY <1>2, <1>3

LEMMA StartSound ==
    ASSUME DInv, NEW r \in Request, Start(r)
    PROVE  DInv'
<1>1. ASSUME NEW e \in Linkable, CreateLink(r, e[1], e[2]) PROVE DInv'
  <2> DEFINE new == [Idle EXCEPT !.pc = "locate_target", !.source = e[1], !.target = e[2]]
  <2>1. e = <<e[1], e[2]>> /\ e[1] \in Thing /\ e[2] \in Thing
    BY DEF Linkable, Thing
  <2>2. /\ new \in RequestState /\ new.doomed = {}
        /\ new.pc = "locate_target" /\ new.source = e[1] /\ new.target = e[2]
    BY <2>1, IdleTyped, IdleLocated DEF RequestState, Step
  <2>3. Begin(r, new) /\ UNCHANGED data /\ Live(e[1])
    BY <1>1 DEF CreateLink
  <2> HIDE DEF new
  <2>4. Located(new)
    BY <2>1, <2>2, <2>3 DEF Located, Followed, Covers, Shaped, Live
  <2> QED
    BY <2>2, <2>3, <2>4, BeginStays
<1>2. ASSUME NEW l \in links, RemoveLink(r, l) PROVE DInv'
  <2> DEFINE new == [Idle EXCEPT !.pc = "unlink_source", !.source = l.source,
                                 !.target = l.target, !.id = l.id]
  <2>1. l.source \in Thing /\ l.target \in Thing /\ l.id \in Nat
    BY DEF DInv, Tables, Link
  <2>2. new \in RequestState /\ new.pc = "unlink_source" /\ new.doomed = {}
    BY <2>1, IdleTyped, IdleLocated DEF RequestState, Step
  <2>3. Begin(r, new) /\ UNCHANGED data
    BY <1>2 DEF RemoveLink
  <2> HIDE DEF new
  <2>4. Located(new)
    BY <2>2 DEF Located, Followed, Covers
  <2> QED
    BY <2>2, <2>3, <2>4, BeginStays
<1>3. ASSUME NEW t \in Thing, Remove(r, t) PROVE DInv'
  <2> DEFINE new == [Idle EXCEPT !.pc = "remove", !.source = t]
  <2>1. new \in RequestState /\ new.pc = "remove" /\ new.source = t /\ new.doomed = {}
    BY IdleTyped, IdleLocated DEF RequestState, Step
  <2>2. Begin(r, new) /\ UNCHANGED data
    BY <1>3 DEF Remove
  <2> HIDE DEF new
  <2>3. Located(new)
    BY <2>1 DEF Located, Followed, Covers
  <2> QED
    BY <2>1, <2>2, <2>3, BeginStays
<1>4. ASSUME NEW about \in SUBSET Requirement, CreateDefect(r, about) PROVE DInv'
  <2> DEFINE new == [Idle EXCEPT !.pc = "defect_insert", !.ids = about]
  <2>1. new \in RequestState /\ new.pc = "defect_insert" /\ new.ids = about /\ new.doomed = {}
    BY IdleTyped, IdleLocated DEF RequestState, Step, Thing
  <2>2. Begin(r, new) /\ UNCHANGED data
    BY <1>4 DEF CreateDefect
  <2> HIDE DEF new
  <2>3. Located(new)
    BY <2>1 DEF Located, Followed, Covers
  <2> QED
    BY <2>1, <2>2, <2>3, BeginStays
<1>5. ASSUME NEW pc \in {"suite_ids", "case_insert"},
             Begin(r, [Idle EXCEPT !.pc = pc]), UNCHANGED data
      PROVE  DInv'
  <2> DEFINE new == [Idle EXCEPT !.pc = pc]
  <2>1. new \in RequestState /\ new.pc = pc /\ new.doomed = {}
    BY IdleTyped, IdleLocated DEF RequestState, Step
  <2>2. Begin(r, new) /\ UNCHANGED data
    BY <1>5
  <2> HIDE DEF new
  <2>3. Located(new)
    BY <2>1 DEF Located, Followed, Covers
  <2> QED
    BY <2>1, <2>2, <2>3, BeginStays
<1>6. ASSUME DeleteSuite(r) \/ CreateCase(r) PROVE DInv'
  BY <1>5, <1>6 DEF DeleteSuite, CreateCase
<1> QED
  BY <1>1, <1>2, <1>3, <1>4, <1>6 DEF Start

-----------------------------------------------------------------------------
(* Writes.                                                                 *)

LEMMA LinkTyped ==
    ASSUME NEW n \in Nat, NEW s \in Thing, NEW t \in Thing, NEW sound \in BOOLEAN
    PROVE  LET l == [id |-> n, source |-> s, target |-> t, sound |-> sound] IN
           l \in Link /\ l.source = s /\ l.target = t /\ l.sound = sound
BY DEF Link

LEMMA InsertSound ==
    ASSUME DInv, NEW r \in Request, InsertLink(r)
    PROVE  DInv'
<1> DEFINE new == NewLink(r)
           sound == ~requests[r].overtaken /\ requests[r].source \notin Doomed
                                           /\ requests[r].target \notin Doomed
<1>1. PICK s, t : s = requests[r].source /\ t = requests[r].target /\ Shaped(s, t)
  BY DEF InsertLink, DInv, Callers, Located
<1>2. /\ new \in Link /\ new.source = s /\ new.target = t /\ made + 1 \in Nat
      /\ new.sound = sound
  <2>1. made + 1 \in Nat /\ s \in Thing /\ t \in Thing /\ sound \in BOOLEAN
    BY <1>1 DEF Shaped, Linkable, Thing, DInv, Tables
  <2>2. new = [id |-> made + 1, source |-> s, target |-> t, sound |-> sound]
    BY <1>1 DEF NewLink
  <2> HIDE DEF new, sound
  <2> QED
    BY <2>1, <2>2, LinkTyped
<1>3. /\ \/ Between(s, t) = {} /\ made' = made + 1 /\ links' = links \cup {new}
         \/ UNCHANGED <<made, links>>
      /\ UNCHANGED <<things, suiteLive, latest, missed>>
      /\ Finish(r)
  BY <1>1 DEF InsertLink
<1> HIDE DEF new
\* Both ends were located, nothing has overtaken the request, and no deletion is about to.
<1>4. sound => /\ Live(s) /\ Live(t)
               /\ \A q \in Request : s \notin requests[q].doomed /\ t \notin requests[q].doomed
  <2>1. Followed(requests[r]) /\ requests[r].pc = "insert"
    BY DEF InsertLink, DInv, Callers, Located
  <2> QED
    BY <1>1, <2>1 DEF Followed, Doomed
<1> HIDE DEF sound
<1>5. CASE UNCHANGED <<made, links>>
  BY <1>3, <1>5, TablesStay, FinishStays DEF data, DInv
<1>6. CASE Between(s, t) = {} /\ made' = made + 1 /\ links' = links \cup {new}
  <2>1. \A l \in links' : Shaped(l.source, l.target)'
    BY <1>1, <1>2, <1>3, <1>6 DEF DInv, Tables, Shaped
  <2>2. \A k, l \in links' : k.source = l.source /\ k.target = l.target => k = l
    BY <1>2, <1>6 DEF DInv, Tables, Between
  <2>3. LinksDieWithTheirEnds'
    BY <1>2, <1>3, <1>4, <1>6 DEF DInv, Tables, LinksDieWithTheirEnds, Live
  <2>4. Gentle
    BY <1>2, <1>3, <1>4, <1>6 DEF Gentle, Created, Live
  <2> QED
    BY <1>2, <1>3, <1>6, <2>1, <2>2, <2>3, <2>4, FinishStays DEF DInv, Tables
<1> QED
  BY <1>3, <1>5, <1>6

LEMMA DefectInsertSound ==
    ASSUME DInv, NEW r \in Request, NEW d \in Defect, DefectInsert(r, d)
    PROVE  DInv'
<1> DEFINE about(q) == [id |-> made + 1, source |-> d, target |-> q,
                        sound |-> Live(q) /\ q \notin Doomed]
           ids == requests[r].ids
<1>1. /\ ids \subseteq Requirement
      /\ things[d].life = "absent" /\ d \in Thing
      /\ things' = [things EXCEPT ![d] = Fresh]
      /\ made' = made + 1 /\ made' \in Nat
      /\ links' = links \cup {about(q) : q \in ids}
      /\ UNCHANGED <<suiteLive, latest, missed>>
      /\ Finish(r)
  BY DEF DefectInsert, DInv, Tables, Callers, Located, Absent, Thing
<1>2. ASSUME NEW q \in ids
      PROVE  /\ about(q) \in Link /\ about(q).source = d /\ about(q).target = q
             /\ about(q).sound => Live(q) /\ q \notin Doomed
  <2>1. made + 1 \in Nat /\ q \in Thing /\ (Live(q) /\ q \notin Doomed) \in BOOLEAN
    BY <1>1, <1>2 DEF Thing, Live
  <2> QED
    BY <1>1, <2>1, LinkTyped
<1> HIDE DEF about, ids
<1>3. things \in [Thing -> [life: {"absent", "live", "deleted"}, aside: BOOLEAN]]
  BY DEF DInv, Tables
<1>4. /\ things' \in [Thing -> [life: {"absent", "live", "deleted"}, aside: BOOLEAN]]
      /\ things'[d].life = "live"
      /\ \A t \in Thing \ {d} : things'[t] = things[t]
  BY <1>1, <1>3 DEF Fresh
<1>5. Created
  BY <1>1, <1>4 DEF Created
<1>6. \A l \in links : l.source # d /\ l.source \in Thing /\ l.target \in Thing
                       /\ Shaped(l.source, l.target)
  BY <1>1 DEF DInv, Tables, Shaped, Link
<1>7. ASSUME NEW l \in links'
      PROVE  \/ l \in links
             \/ \E q \in ids : l = about(q)
  BY <1>1
<1>8. \A l \in links' : Shaped(l.source, l.target)'
  <2>1. \A l \in links : Shaped(l.source, l.target)'
    BY <1>5, <1>6 DEF Shaped, Created
  <2>2. \A q \in Requirement : Shaped(d, q)'
    BY <1>4 DEF Shaped, Linkable
  <2>3. \A l \in links' : l \in links \/ \E q \in Requirement : l.source = d /\ l.target = q
    BY <1>1, <1>2, <1>7
  <2> QED
    BY <2>1, <2>2, <2>3 DEF Shaped
<1>9. \A k, l \in links' : k.source = l.source /\ k.target = l.target => k = l
  BY <1>2, <1>6, <1>7 DEF DInv, Tables
<1>10. LinksDieWithTheirEnds'
  <2>1. \A t \in Thing : Live(t) => Live(t)'
    BY <1>1, <1>4 DEF Live
  <2>2. \A q \in ids : Live(q) => Live(q)'
    BY <1>1, <2>1 DEF Thing
  <2>3. Live(d)'
    BY <1>4 DEF Live
  <2> QED
    BY <1>1, <1>2, <1>6, <1>7, <2>1, <2>2, <2>3 DEF DInv, Tables, LinksDieWithTheirEnds
<1>11. links' \subseteq Link
  BY <1>2, <1>7 DEF DInv, Tables
<1>12. Gentle
  <2>1. \A t \in Thing : Live(t) => Live(t)'
    BY <1>1, <1>4 DEF Live
  <2>2. \A q \in Request : d \notin requests[q].doomed
    BY <1>1 DEF DInv, Callers, Located
  <2>3. \A l \in links' : l.sound /\ l \notin links => l.source = d /\ l.target \notin Doomed
    BY <1>2, <1>7
  <2> QED
    BY <1>5, <2>1, <2>2, <2>3 DEF Gentle, Doomed
<1> QED
  BY <1>1, <1>4, <1>8, <1>9, <1>10, <1>11, <1>12, FinishStays DEF DInv, Tables

\* A deletion that goes on has deleted live rows, and purged all links of those it knows.
LEMMA PurgeStays ==
    ASSUME DInv, NEW r \in Request, NEW some \in BOOLEAN, NEW rows \in SUBSET Thing,
           NEW ends \in SUBSET Thing, NEW next \in {"remove_commit", "suite_commit"},
           Delete(r, some, rows, ends, next),
           some => \A t \in rows : Live(t),
           next = "remove_commit" => rows \subseteq ends,
           next = "suite_commit" => rows \subseteq Case /\ ends = requests[r].ids
    PROVE  DInv'
<1>1. CASE ~some
  <2>1. Finish(r) /\ UNCHANGED data
    BY <1>1 DEF Delete, Finish
  <2> QED
    BY <2>1, TablesStay, FinishStays DEF DInv
<1>2. CASE some
  <2>1. requests[r] \in RequestState /\ Purged(ends) \subseteq Link /\ next \in Step
    BY DEF DInv, Callers, Tables, Purged, Touching, Step
  <2>2. PICK new \in RequestState :
            /\ new = [requests[r] EXCEPT !.pc = next, !.doomed = rows, !.purged = Purged(ends)]
            /\ new.pc = next /\ new.doomed = rows
            /\ new.purged = Purged(ends) /\ new.ids = requests[r].ids
    <3> DEFINE n == [requests[r] EXCEPT !.pc = next, !.doomed = rows, !.purged = Purged(ends)]
    <3>1. /\ n \in RequestState /\ n.pc = next /\ n.doomed = rows
          /\ n.purged = Purged(ends) /\ n.ids = requests[r].ids
      BY <2>1 DEF RequestState
    <3>2. n = [requests[r] EXCEPT !.pc = next, !.doomed = rows, !.purged = Purged(ends)]
      OBVIOUS
    <3> HIDE DEF n
    <3> QED
      BY <3>1, <3>2
  <2>3. served' \in 0..MaxServed /\ requests' = [requests EXCEPT ![r] = new] /\ UNCHANGED data
    BY <1>2, <2>2 DEF Delete, DInv, Callers
  <2>4. Covers(new)
    <3>1. \A l \in links : l.source \in ends \/ l.target \in ends => l \in new.purged
      BY <2>2 DEF Purged, Touching
    <3>2. \A l \in links : l.source \notin Case
      BY DEF DInv, Tables, Shaped, Linkable
    <3> QED
      BY <2>2, <3>1, <3>2 DEF Covers
  <2>5. Located(new)
    BY <1>2, <2>2, <2>4 DEF Located, Followed, Live
  <2>6. Tables' /\ Gentle
    BY <2>3, TablesStay
  <2>7. ASSUME NEW q \in Request PROVE Located(requests[q])'
    <3>1. PICK old \in RequestState : old = requests[q] /\ Located(old)
      BY DEF DInv, Callers
    <3>2. Gentle /\ links' = links
      BY <2>3, <2>6 DEF data
    <3>3. Located(old)'
      BY <3>1, <3>2, Stays
    <3>4. Located(new)'
      BY <2>5, <3>2, Stays
    <3>5. CASE requests'[q] = old
      BY <3>3, <3>5 DEF Located, Followed, Covers
    <3>6. CASE requests'[q] = new
      BY <3>4, <3>6 DEF Located, Followed, Covers
    <3> QED
      BY <2>3, <3>1, <3>5, <3>6 DEF DInv, Callers
  <2> QED
    BY <2>2, <2>3, <2>6, <2>7 DEF DInv, Callers
<1> QED
  BY <1>1, <1>2

\* What remains when rows are deleted and links purged: no sound link into a row
\* that is gone, but for the cases remembered as missed; and whoever had located
\* one of the rows is overtaken.
LEMMA CommitSound ==
    ASSUME DInv, NEW r \in Request, Commit(r),
           requests[r].pc \in {"remove_commit", "suite_commit"},
           suiteLive' \in BOOLEAN, missed \subseteq missed', missed' \subseteq Case,
           requests[r].pc = "suite_commit" =>
               requests[r].doomed \ requests[r].ids \subseteq missed'
    PROVE  DInv'
<1> DEFINE gone == requests[r].doomed
           next(q) == [requests[q] EXCEPT !.overtaken =
                          @ \/ Checked(requests[q]) \cap gone # {}]
           after(t) == IF t \in gone THEN [things[t] EXCEPT !.life = "deleted"] ELSE things[t]
<1>1. /\ things \in [Thing -> [life: {"absent", "live", "deleted"}, aside: BOOLEAN]]
      /\ requests[r] \in RequestState /\ gone \subseteq Thing
      /\ Covers(requests[r])
      /\ \A l \in links : l.source \in Thing /\ l.target \in Thing /\ Shaped(l.source, l.target)
  BY DEF DInv, Tables, Callers, Located, RequestState, Link
<1>2. /\ things' = [t \in Thing |-> after(t)]
      /\ requests' = [q \in Request |-> IF q = r THEN Idle ELSE next(q)]
      /\ links' = links \ requests[r].purged
      /\ UNCHANGED <<served, latest, made>>
  BY DEF Commit
<1>3. ASSUME NEW t \in Thing
      PROVE  /\ after(t) \in [life: {"absent", "live", "deleted"}, aside: BOOLEAN]
             /\ t \in gone => after(t).life = "deleted"
             /\ t \notin gone => after(t) = things[t]
  BY <1>1
<1>4. ASSUME NEW q \in Request
      PROVE  /\ next(q) \in RequestState /\ next(q).pc = requests[q].pc
             /\ next(q).source = requests[q].source /\ next(q).target = requests[q].target
             /\ next(q).ids = requests[q].ids /\ next(q).doomed = requests[q].doomed
             /\ next(q).purged = requests[q].purged
             /\ ~next(q).overtaken => /\ ~requests[q].overtaken
                                      /\ Checked(requests[q]) \cap gone = {}
  <2>1. requests[q] \in RequestState
    BY DEF DInv, Callers
  <2> DEFINE more == Checked(requests[q]) \cap gone # {}
  <2>2. more \in BOOLEAN /\ (~more => Checked(requests[q]) \cap gone = {})
    OBVIOUS
  <2> HIDE DEF more
  <2> QED
    BY <2>1, <2>2 DEF RequestState, more
<1> HIDE DEF next, after
<1>5. /\ things' \in [Thing -> [life: {"absent", "live", "deleted"}, aside: BOOLEAN]]
      /\ \A t \in gone : things'[t].life = "deleted"
      /\ \A t \in Thing \ gone : things'[t] = things[t]
  BY <1>1, <1>2, <1>3
<1>6. Created
  BY <1>5 DEF Created
<1> HIDE DEF gone
<1>7. Tables'
  <2>1. \A l \in links' : Shaped(l.source, l.target)'
    BY <1>1, <1>2, <1>6 DEF Created, Shaped
  <2>2. ASSUME NEW l \in links', l.sound
        PROVE  l.source \notin gone /\ (l.target \in gone => l.target \in missed')
    <3>1. l \in links /\ l \notin requests[r].purged
      BY <1>2
    <3> QED
      BY <1>1, <2>2, <3>1 DEF Covers, gone
  <2>3. LinksDieWithTheirEnds'
    <3> SUFFICES ASSUME NEW l \in links', l.sound
                 PROVE  Live(l.source)' /\ (Live(l.target)' \/ l.target \in missed')
      BY DEF LinksDieWithTheirEnds
    <3>1. l \in links /\ l.source \in Thing /\ l.target \in Thing
      BY <1>1, <1>2
    <3>2. Live(l.source) /\ (Live(l.target) \/ l.target \in missed)
      BY <3>1 DEF DInv, Tables, LinksDieWithTheirEnds
    <3> QED
      BY <1>5, <2>2, <3>1, <3>2 DEF Live
  <2> QED
    BY <1>2, <1>5, <2>1, <2>3 DEF DInv, Tables
<1>8. Callers'
  <2>1. \A s, t : Shaped(s, t) => Shaped(s, t)' /\ s \in Thing /\ t \in Thing
    BY <1>6 DEF Created, Shaped, Linkable, Thing
  <2>2. ASSUME NEW q \in Request, q # r PROVE Located(requests[q])'
    <3>1. requests'[q] = next(q) /\ Located(requests[q]) /\ links' \subseteq links
      BY <1>2, <2>2 DEF DInv, Callers
    <3>2. PICK new \in RequestState : new = requests'[q]
      BY <1>4, <3>1
    <3>3. Followed(new)'
      <4>1. CASE new.pc \in {"locate_target", "find", "insert"} /\ ~new.overtaken
        <5>1. /\ new.source \in Thing /\ new.target \in Thing
              /\ Followed(requests[q]) /\ ~requests[q].overtaken
          BY <1>4, <2>1, <3>1, <3>2, <4>1 DEF Located
        <5>2. /\ new.source \notin gone
              /\ new.pc \in {"find", "insert"} => new.target \notin gone
          BY <1>4, <3>1, <3>2, <4>1 DEF Checked
        <5> QED
          BY <1>4, <1>5, <3>1, <3>2, <4>1, <5>1, <5>2 DEF Followed, Live
      <4>2. CASE ~(new.pc \in {"locate_target", "find", "insert"} /\ ~new.overtaken)
        BY <4>2 DEF Followed
      <4> QED
        BY <4>1, <4>2
    <3>4. Covers(new)'
      BY <1>4, <3>1, <3>2 DEF Located, Covers
    <3>5. Located(new)'
      BY <1>4, <1>6, <2>1, <3>1, <3>2, <3>3, <3>4 DEF Located, Created
    <3> QED
      BY <3>2, <3>5 DEF Located, Followed, Covers
  <2>3. Located(requests[r])'
    <3>1. requests'[r] = Idle
      BY <1>2
    <3> QED
      BY <3>1, IdleTyped, IdleLocated DEF Located, Followed, Covers
  <2>4. requests' \in [Request -> RequestState] /\ served' \in 0..MaxServed
    BY <1>2, <1>4, IdleTyped DEF DInv, Callers
  <2> QED
    BY <2>2, <2>3, <2>4 DEF Callers
<1> QED
  BY <1>7, <1>8 DEF DInv

LEMMA DeletionsSound ==
    ASSUME DInv, NEW r \in Request,
           RemovePurge(r) \/ RemoveCommit(r) \/ SuitePurge(r) \/ SuiteCommit(r)
    PROVE  DInv'
<1>1. CASE RemovePurge(r)
  <2>1. PICK t \in Thing : t = requests[r].source
    BY <1>1 DEF RemovePurge, DInv, Callers, Located
  <2>2. Delete(r, Live(t), {t}, {t}, "remove_commit") /\ Live(t) \in BOOLEAN
    BY <1>1, <2>1 DEF RemovePurge, Live
  <2> QED
    BY <2>2, PurgeStays
<1>2. CASE RemoveCommit(r)
  <2>1. Commit(r) /\ requests[r].pc = "remove_commit" /\ UNCHANGED <<suiteLive, missed>>
    BY <1>2 DEF RemoveCommit
  <2>2. suiteLive \in BOOLEAN /\ missed \subseteq Case
    BY DEF DInv, Tables
  <2> QED
    BY <2>1, <2>2, CommitSound
<1>3. CASE SuitePurge(r)
  <2>1. Delete(r, suiteLive, LiveCases, requests[r].ids, "suite_commit")
    BY <1>3 DEF SuitePurge
  <2>2. /\ suiteLive \in BOOLEAN /\ LiveCases \in SUBSET Thing /\ LiveCases \subseteq Case
        /\ requests[r].ids \in SUBSET Thing /\ \A t \in LiveCases : Live(t)
    BY DEF DInv, Tables, Callers, RequestState, LiveCases, Thing
  <2> QED
    BY <2>1, <2>2, PurgeStays
<1>4. CASE SuiteCommit(r)
  <2>1. /\ Commit(r) /\ requests[r].pc = "suite_commit" /\ suiteLive' = FALSE
        /\ missed' = missed \cup (requests[r].doomed \ requests[r].ids)
    BY <1>4 DEF SuiteCommit
  <2>2. missed \subseteq Case /\ requests[r].doomed \subseteq Case
    BY <2>1 DEF DInv, Tables, Callers, Located
  <2> QED
    BY <2>1, <2>2, CommitSound
<1> QED
  BY <1>1, <1>2, <1>3, <1>4

LEMMA OtherContinueSound ==
    ASSUME DInv, NEW r \in Request,
           \/ LocateTarget(r) \/ FindLink(r) \/ UnlinkSource(r) \/ UnlinkTarget(r)
           \/ DeleteLink(r) \/ SuiteIds(r) \/ \E c \in Case : CaseInsert(r, c)
    PROVE  DInv'
<1>1. ASSUME LocateTarget(r) \/ FindLink(r) \/ UnlinkSource(r) \/ UnlinkTarget(r) PROVE DInv'
  <2>1. {"find", "insert", "unlink_target", "unlink"} \subseteq Step
    BY DEF Step
  <2>2. CASE LocateTarget(r)
    <3>1. requests[r].pc = "locate_target" /\ Check(r, Live(requests[r].target), "find")
      BY <2>2 DEF LocateTarget
    <3> QED
      BY <2>1, <3>1, CheckStays
  <2>3. CASE FindLink(r)
    <3>1. /\ requests[r].pc = "find"
          /\ Check(r, Between(requests[r].source, requests[r].target) = {}, "insert")
      BY <2>3 DEF FindLink
    <3> QED
      BY <2>1, <3>1, CheckStays
  <2>4. CASE UnlinkSource(r)
    <3>1. requests[r].pc = "unlink_source" /\ Check(r, Live(requests[r].source), "unlink_target")
      BY <2>4 DEF UnlinkSource
    <3> QED
      BY <2>1, <3>1, CheckStays
  <2>5. CASE UnlinkTarget(r)
    <3>1. requests[r].pc = "unlink_target" /\ Check(r, Live(requests[r].target), "unlink")
      BY <2>5 DEF UnlinkTarget
    <3> QED
      BY <2>1, <3>1, CheckStays
  <2> QED
    BY <1>1, <2>2, <2>3, <2>4, <2>5
<1>2. ASSUME DeleteLink(r) PROVE DInv'
  <2>1. links' \subseteq links /\ UNCHANGED <<things, suiteLive, latest, made, missed>>
        /\ Finish(r)
    BY <1>2 DEF DeleteLink
  <2>2. Tables' /\ Gentle
    BY <2>1 DEF DInv, Tables, Shaped, LinksDieWithTheirEnds, Live, Created, Gentle
  <2> QED
    BY <2>1, <2>2, FinishStays DEF DInv
<1>3. ASSUME SuiteIds(r) PROVE DInv'
  <2> DEFINE new == [requests[r] EXCEPT !.pc = "suite_purge", !.ids = LiveCases]
  <2>1. /\ requests[r] \in RequestState /\ LiveCases \subseteq Thing
        /\ requests[r].doomed = {}
    BY <1>3 DEF SuiteIds, DInv, Callers, Located, LiveCases, Thing
  <2>2. new \in RequestState /\ new.pc = "suite_purge" /\ new.doomed = {}
    BY <2>1 DEF RequestState, Step
  <2>3. served' \in 0..MaxServed /\ requests' = [requests EXCEPT ![r] = new] /\ UNCHANGED data
    BY <1>3 DEF SuiteIds, DInv, Callers
  <2> HIDE DEF new
  <2>4. Located(new)
    BY <2>2 DEF Located, Followed, Covers
  <2> QED
    BY <2>2, <2>3, <2>4, TablesStay, CallersStay DEF DInv
<1>4. ASSUME NEW c \in Case, CaseInsert(r, c) PROVE DInv'
  <2>1. /\ c \in Thing /\ things[c].life = "absent"
        /\ things' = [things EXCEPT ![c] = Fresh]
        /\ UNCHANGED <<suiteLive, latest, links, made, missed>> /\ Finish(r)
    BY <1>4 DEF CaseInsert, Absent, Thing
  <2>2. things \in [Thing -> [life: {"absent", "live", "deleted"}, aside: BOOLEAN]]
    BY DEF DInv, Tables
  <2>3. /\ things' \in [Thing -> [life: {"absent", "live", "deleted"}, aside: BOOLEAN]]
        /\ things'[c].life = "live" /\ \A t \in Thing \ {c} : things'[t] = things[t]
    BY <2>1, <2>2 DEF Fresh
  <2>4. Gentle /\ Created /\ \A t \in Thing : Live(t) => Live(t)'
    BY <2>1, <2>3 DEF Gentle, Created, Live
  <2>5. \A l \in links : l.source \in Thing /\ l.target \in Thing
    BY DEF DInv, Tables, Link
  <2>6. \A l \in links : Shaped(l.source, l.target)'
    BY <2>4, <2>5 DEF DInv, Tables, Created, Shaped
  <2>7. LinksDieWithTheirEnds'
    BY <2>1, <2>4, <2>5 DEF DInv, Tables, LinksDieWithTheirEnds
  <2>8. Callers'
    BY <2>1, <2>4, FinishStays
  <2> QED
    BY <2>1, <2>3, <2>6, <2>7, <2>8 DEF DInv, Tables
<1> QED
  BY <1>1, <1>2, <1>3, <1>4

LEMMA EnvironmentSound ==
    ASSUME DInv,
           \/ \E r \in Request : Crash(r)
           \/ \E t \in Thing : SetAside(t)
           \/ \E c \in Case, v \in Verdict \ {"untested"} : Record(c, v)
    PROVE  DInv'
<1>1. ASSUME NEW r \in Request, Crash(r) PROVE DInv'
  BY <1>1, TablesStay, FinishStays DEF Crash, DInv
<1>2. ASSUME Gentle, UNCHANGED <<requests, links>>, Count PROVE Callers'
  <2>1. ASSUME NEW q \in Request PROVE Located(requests[q])'
    <3>1. PICK old \in RequestState : old = requests[q] /\ Located(old)
      BY DEF DInv, Callers
    <3>2. Located(old)'
      BY <1>2, <3>1, Stays
    <3> QED
      BY <1>2, <3>1, <3>2 DEF Located, Followed, Covers
  <2> QED
    BY <1>2, <2>1 DEF DInv, Callers, Count
<1>3. ASSUME NEW t \in Thing, SetAside(t) PROVE DInv'
  <2>1. things' = [things EXCEPT ![t].aside = ~@]
        /\ UNCHANGED <<suiteLive, latest, links, made, requests, missed>> /\ Count
    BY <1>3 DEF SetAside
  <2>2. things \in [Thing -> [life: {"absent", "live", "deleted"}, aside: BOOLEAN]]
    BY DEF DInv, Tables
  <2>3. [things[t] EXCEPT !.aside = ~things[t].aside]
           \in [life: {"absent", "live", "deleted"}, aside: BOOLEAN]
        /\ [things[t] EXCEPT !.aside = ~things[t].aside].life = things[t].life
    BY <2>2
  <2>4. /\ things' \in [Thing -> [life: {"absent", "live", "deleted"}, aside: BOOLEAN]]
        /\ \A u \in Thing : things'[u].life = things[u].life
    BY <2>1, <2>2, <2>3
  <2>5. \A l \in links : l.source \in Thing /\ l.target \in Thing
    BY DEF DInv, Tables, Link
  <2>6. Gentle
    BY <2>1, <2>4 DEF Gentle, Created, Live
  <2> QED
    BY <1>2, <2>1, <2>4, <2>5, <2>6 DEF DInv, Tables, Shaped, LinksDieWithTheirEnds, Live
<1>4. ASSUME NEW c \in Case, NEW v \in Verdict, Record(c, v) PROVE DInv'
  <2>1. latest' = [latest EXCEPT ![c] = v] /\ Count
        /\ UNCHANGED <<things, suiteLive, links, made, requests, missed>>
    BY <1>4 DEF Record
  <2>2. latest' \in [Case -> Verdict]
    BY <2>1 DEF DInv, Tables
  <2>3. Tables'
    BY <2>1, <2>2 DEF DInv, Tables, Shaped, LinksDieWithTheirEnds, Live
  <2>4. Gentle
    BY <2>1 DEF Gentle, Created, Live
  <2> QED
    BY <1>2, <2>1, <2>3, <2>4 DEF DInv
<1> QED
  BY <1>1, <1>3, <1>4

LEMMA ChangeSound == DInv /\ Change => DInv'
BY StartSound, InsertSound, DefectInsertSound, DeletionsSound,
   OtherContinueSound, EnvironmentSound DEF Change, Continue

LEMMA DataSound == Spec => []DInv
<1>1. Init => DInv
  <2> SUFFICES ASSUME Init PROVE DInv
    OBVIOUS
  <2>1. things \in [Thing -> [life: {"absent", "live", "deleted"}, aside: BOOLEAN]]
    BY DEF Init, Absent, Fresh
  <2>2. requests \in [Request -> RequestState] /\ \A r \in Request : Located(requests[r])
    BY IdleTyped, IdleLocated DEF Init, Located, Followed, Covers
  <2> QED
    BY <2>1, <2>2 DEF Init, DInv, Tables, Callers, LinksDieWithTheirEnds, Verdict
<1>2. DInv /\ [Next]_vars => DInv'
  <2> SUFFICES ASSUME DInv, [Next]_vars PROVE DInv'
    OBVIOUS
  <2>1. CASE Change
    BY <2>1, ChangeSound
  <2>2. CASE UNCHANGED <<data, requests, served>>
    <3>1. Tables' /\ Callers'
      BY <2>2, TablesStay DEF DInv, Callers, Located, Followed, Covers, Shaped, Live, data
    <3> QED
      BY <3>1 DEF DInv
  <2> QED
    BY <2>1, <2>2 DEF Next, vars, data
<1> QED
  BY <1>1, <1>2, PTL DEF Spec

\* "A link to a deleted requirement is not history": by whichever deletion an end
\* goes, and whatever is linked between its purge and its commit, its links go with
\* it, but for those whose insertion a deletion of an end had come before, and
\* for those into a case its suite's deletion missed.
THEOREM LinksDieWithTheirEndsHolds == Spec => []LinksDieWithTheirEnds
BY DataSound, PTL DEF DInv, Tables

-----------------------------------------------------------------------------
(* What a report has read.                                                 *)

\* The queries that are still out, by the state of the report.
Phase ==
    /\ report \in Report
    /\ steady \subseteq Requirement
    /\ report.pc \in {"done", "counted"} => report.left = {}
    /\ report.pc = "lookups" => report.left \subseteq Query
    /\ report.pc = "aggregates" => report.left \subseteq Aggregate
    /\ report.pc \in {"idle", "case_links", "defect_links"} => report.left = {}
    /\ "find" \in report.left => "group" \notin report.left
    /\ "find" \in report.left \/ "group" \in report.left => report.covered = {}

Counts(q) == Live(q) /\ ~things[q].aside

\* For a requirement about which nothing has changed since the report was begun,
\* the answers it has are those it would get now.
ReadMatrix(q) ==
    /\ report.pc \in {"case_links", "defect_links", "lookups", "done"} =>
          (q \in report.requirements <=> Counts(q))
    /\ report.pc \in {"defect_links", "lookups", "done"} =>
          \A c \in Case :
              <<q, c>> \in report.caseLinks
                  <=> q \in report.requirements /\ Between(q, c) # {}
    /\ report.pc \in {"lookups", "done"} =>
          /\ \A d \in Defect : <<d, q>> \in report.defectLinks <=> Between(d, q) # {}
          /\ "cases" \notin report.left =>
                \A c \in Case : <<q, c>> \in report.caseLinks =>
                    /\ c \in report.cases <=> Live(c)
                    /\ c \in report.archived <=> Live(c) /\ things[c].aside
          /\ "statuses" \notin report.left =>
                \A c \in Case : <<q, c>> \in report.caseLinks =>
                    (c \in report.passed <=> latest[c] = "passed")
          /\ "defects" \notin report.left =>
                \A d \in Defect : <<d, q>> \in report.defectLinks =>
                    (d \in report.open <=> Counts(d))

ReadSummary(q) ==
    report.pc \in {"aggregates", "counted"} =>
        /\ "count" \notin report.left => (q \in report.counted <=> Counts(q))
        /\ "find" \notin report.left => (q \in report.requirements <=> Counts(q))
        /\ "find" \notin report.left /\ "group" \notin report.left =>
              (q \in report.covered <=> q \in report.requirements /\ HasCase(q))

RInv == Phase /\ \A q \in steady : ReadMatrix(q) /\ ReadSummary(q)

-----------------------------------------------------------------------------
(* A change elsewhere.                                                     *)

\* What the evidence of a requirement consists of.
LEMMA SameEvidence ==
    ASSUME DInv, DInv', NEW q \in Requirement, Evidence(q)' = Evidence(q)
    PROVE  /\ things'[q] = things[q]
           /\ \A t \in Thing : Between(q, t)' = Between(q, t) /\ Between(t, q)' = Between(t, q)
           /\ \A c \in Case : Between(q, c) # {} => things'[c] = things[c]
                                                    /\ latest'[c] = latest[c]
           /\ \A d \in Defect : Between(d, q) # {} => things'[d] = things[d]
<1> DEFINE Of(l) == <<l, things[l.source], things[l.target],
                      IF l.target \in Case THEN latest[l.target] ELSE "untested">>
           New(l) == <<l, things'[l.source], things'[l.target],
                       IF l.target \in Case THEN latest'[l.target] ELSE "untested">>
           T == Touching({q})
           U == {l \in links' : l.source \in {q} \/ l.target \in {q}}
<1>1. things'[q] = things[q] /\ {New(l) : l \in U} = {Of(l) : l \in T}
  BY DEF Evidence, Touching
<1> HIDE DEF T, U
<1>2. ASSUME NEW l \in T
      PROVE  l \in U /\ things'[l.source] = things[l.source]
                     /\ things'[l.target] = things[l.target]
                     /\ (l.target \in Case => latest'[l.target] = latest[l.target])
  <2>1. PICK m \in U : New(m) = Of(l)
    BY <1>1, <1>2
  <2> QED
    BY <2>1
<1>3. ASSUME NEW l \in U PROVE l \in T
  <2>1. PICK m \in T : New(l) = Of(m)
    BY <1>1, <1>3
  <2> QED
    BY <2>1
<1>4. \A t \in Thing : Between(q, t)' = Between(q, t) /\ Between(t, q)' = Between(t, q)
  BY <1>2, <1>3 DEF Between, Touching, T, U
<1>5. ASSUME NEW c \in Case, Between(q, c) # {}
      PROVE  things'[c] = things[c] /\ latest'[c] = latest[c]
  <2>1. PICK l \in T : l.source = q /\ l.target = c
    BY <1>5 DEF Between, Touching, T
  <2> QED
    BY <1>2, <2>1
<1>6. ASSUME NEW d \in Defect, Between(d, q) # {} PROVE things'[d] = things[d]
  <2>1. PICK l \in T : l.source = d /\ l.target = q
    BY <1>6 DEF Between, Touching, T
  <2> QED
    BY <1>2, <2>1
<1> QED
  BY <1>1, <1>4, <1>5, <1>6

LEMMA ChangeKeepsReport ==
    ASSUME DInv, DInv', RInv, UNCHANGED report, Watch
    PROVE  RInv'
<1>1. steady' \subseteq steady
      \/ report.pc = "idle"
  BY DEF Watch
<1>2. CASE report.pc = "idle"
  <2>1. steady' = {}
    BY <1>2 DEF Watch
  <2> QED
    BY <2>1 DEF RInv, Phase
<1>3. CASE report.pc # "idle"
  <2>1. steady' = {q \in steady : Evidence(q)' = Evidence(q)} /\ steady \subseteq Requirement
    BY <1>3 DEF Watch, RInv, Phase
  <2>2. Phase'
    BY <2>1 DEF RInv, Phase
  <2>3. ASSUME NEW q \in Requirement, q \in steady, Evidence(q)' = Evidence(q)
        PROVE  ReadMatrix(q)' /\ ReadSummary(q)'
    <3>1. /\ things'[q] = things[q]
          /\ \A t \in Thing : Between(q, t)' = Between(q, t) /\ Between(t, q)' = Between(t, q)
          /\ \A c \in Case : Between(q, c) # {} => things'[c] = things[c]
                                                   /\ latest'[c] = latest[c]
          /\ \A d \in Defect : Between(d, q) # {} => things'[d] = things[d]
      BY <2>3, SameEvidence
    <3>2. Case \subseteq Thing /\ Defect \subseteq Thing
      BY DEF Thing
    <3>3. ReadMatrix(q) /\ ReadSummary(q)
      BY <2>3 DEF RInv
    <3>4. ReadMatrix(q)'
      BY <3>1, <3>2, <3>3 DEF ReadMatrix, Counts, Live
    <3>5. ReadSummary(q)'
      BY <3>1, <3>2, <3>3 DEF ReadSummary, Counts, Live, HasCase
    <3> QED
      BY <3>4, <3>5
  <2> QED
    BY <2>1, <2>2, <2>3 DEF RInv
<1> QED
  BY <1>2, <1>3

-----------------------------------------------------------------------------
(* The queries.                                                            *)

\* A query changes no table, so nothing that has been read is out of date.
LEMMA QueryWatch ==
    ASSUME DInv, RInv, UNCHANGED <<data, requests, served>>, Watch,
           report.pc # "idle", report'.pc # "idle"
    PROVE  steady' = steady
<1>1. \A q \in steady : Evidence(q)' = Evidence(q)
  BY DEF Evidence, Touching, data
<1> QED
  BY <1>1 DEF Watch

\* One answer of several: what is left, and where the report goes on.
LEMMA AnsweredShape ==
    ASSUME Phase, NEW query, NEW answer \in Report, Answered(query, answer),
           answer.pc = report.pc
    PROVE  /\ report' \in Report
           /\ query \in report.left
           /\ report'.left = answer.left \ {query}
           /\ report'.pc \in {report.pc, "done", "counted"}
           /\ report'.pc = report.pc
              \/ /\ report'.left = {}
                 /\ report'.pc = IF report.pc = "lookups" THEN "done" ELSE "counted"
           /\ report'.requirements = answer.requirements
           /\ report'.counted = answer.counted /\ report'.covered = answer.covered
           /\ report'.caseLinks = answer.caseLinks
           /\ report'.defectLinks = answer.defectLinks
           /\ report'.cases = answer.cases /\ report'.archived = answer.archived
           /\ report'.passed = answer.passed /\ report'.open = answer.open
<1> DEFINE pc == IF answer.left # {query} THEN report.pc
                 ELSE IF report.pc = "lookups" THEN "done" ELSE "counted"
           left == answer.left \ {query}
<1>1. query \in report.left /\ report' = [answer EXCEPT !.left = left, !.pc = pc]
  BY DEF Answered
<1>2. left \subseteq Query \cup Aggregate
      /\ pc \in {"idle", "case_links", "defect_links", "lookups", "done", "aggregates", "counted"}
  BY DEF Phase, Report
<1>3. pc = report.pc \/ (left = {} /\ pc = IF report.pc = "lookups" THEN "done" ELSE "counted")
  OBVIOUS
<1> HIDE DEF left, pc
<1>4. report'.left = left /\ report'.pc = pc /\ report' \in Report
  BY <1>1, <1>2 DEF Report
<1>5. /\ report'.requirements = answer.requirements
      /\ report'.counted = answer.counted /\ report'.covered = answer.covered
      /\ report'.caseLinks = answer.caseLinks
      /\ report'.defectLinks = answer.defectLinks
      /\ report'.cases = answer.cases /\ report'.archived = answer.archived
      /\ report'.passed = answer.passed /\ report'.open = answer.open
  BY <1>1 DEF Report
<1>6. left = answer.left \ {query}
  BY DEF left
<1>7. pc \in {report.pc, "done", "counted"}
  BY DEF pc
<1> QED
  BY <1>1, <1>3, <1>4, <1>5, <1>6, <1>7

LEMMA NoReportTyped ==
    /\ NoReport \in Report /\ NoReport.pc = "idle" /\ NoReport.left = {}
    /\ NoReport.covered = {}
BY DEF NoReport, Report

\* The queries of the matrix that are sent one after the other.
LEMMA MatrixReads ==
    ASSUME DInv, RInv, UNCHANGED <<data, requests, served>>, Watch,
           ReadRequirements \/ ReadCaseLinks \/ ReadDefectLinks \/ Summary \/ Respond
    PROVE  RInv'
<1>1. \A q : /\ Counts(q)' = Counts(q) /\ HasCase(q)' = HasCase(q)
             /\ \A t : Between(q, t)' = Between(q, t) /\ Between(t, q)' = Between(t, q)
  BY DEF Counts, Live, HasCase, Between, data
<1>2. CASE ReadRequirements
  <2> DEFINE new == [NoReport EXCEPT !.pc = "case_links", !.requirements = InScope]
  <2>1. InScope \subseteq Requirement /\ \A q \in Requirement : q \in InScope <=> Counts(q)
    BY DEF InScope, Counts
  <2>2. /\ new \in Report /\ new.pc = "case_links" /\ new.requirements = InScope
        /\ new.left = {}
    BY <2>1, NoReportTyped DEF Report
  <2>3. report' = new /\ report.pc = "idle"
    BY <1>2 DEF ReadRequirements
  <2> HIDE DEF new
  <2>4. steady' = Requirement
    BY <2>2, <2>3 DEF Watch
  <2>5. Phase'
    BY <2>2, <2>3, <2>4 DEF Phase
  <2>6. ASSUME NEW q \in Requirement PROVE ReadMatrix(q)' /\ ReadSummary(q)'
    BY <1>1, <2>1, <2>2, <2>3 DEF ReadMatrix, ReadSummary
  <2> QED
    BY <2>4, <2>5, <2>6 DEF RInv
<1>3. CASE ReadCaseLinks
  <2> DEFINE pairs == {e \in Requirement \X Case :
                          e[1] \in report.requirements /\ Between(e[1], e[2]) # {}}
             new == [report EXCEPT !.pc = "defect_links", !.caseLinks = pairs]
  <2>1. pairs \subseteq Requirement \X Case
        /\ \A q \in Requirement, c \in Case :
              <<q, c>> \in pairs <=> q \in report.requirements /\ Between(q, c) # {}
    OBVIOUS
  <2> HIDE DEF pairs
  <2>2. report \in Report /\ report' = new /\ report.pc = "case_links" /\ report.left = {}
        /\ steady \subseteq Requirement
    BY <1>3 DEF ReadCaseLinks, RInv, Phase, pairs
  <2>3. /\ new \in Report /\ new.pc = "defect_links" /\ new.caseLinks = pairs
        /\ new.left = {} /\ new.requirements = report.requirements
    BY <2>1, <2>2 DEF Report
  <2> HIDE DEF new
  <2>4. steady' = steady
    BY <2>2, <2>3, QueryWatch
  <2>5. Phase'
    BY <2>2, <2>3, <2>4 DEF Phase
  <2>6. ASSUME NEW q \in Requirement, q \in steady PROVE ReadMatrix(q)' /\ ReadSummary(q)'
    <3>1. ReadMatrix(q)
      BY <2>6 DEF RInv
    <3>2. ReadMatrix(q)'
      BY <1>1, <2>1, <2>2, <2>3, <3>1 DEF ReadMatrix
    <3> QED
      BY <2>2, <2>3, <3>2 DEF ReadSummary
  <2> QED
    BY <2>2, <2>4, <2>5, <2>6 DEF RInv
<1>4. CASE ReadDefectLinks
  <2> DEFINE pairs == {e \in Defect \X Requirement : Between(e[1], e[2]) # {}}
             new == [report EXCEPT !.pc = "lookups", !.left = Query, !.defectLinks = pairs]
  <2>1. pairs \subseteq Defect \X Requirement
        /\ \A d \in Defect, q \in Requirement : <<d, q>> \in pairs <=> Between(d, q) # {}
    OBVIOUS
  <2> HIDE DEF pairs
  <2>2. report \in Report /\ report' = new /\ report.pc = "defect_links"
        /\ steady \subseteq Requirement
    BY <1>4 DEF ReadDefectLinks, RInv, Phase, pairs
  <2>3. /\ new \in Report /\ new.pc = "lookups" /\ new.caseLinks = report.caseLinks
        /\ new.left = Query /\ new.requirements = report.requirements
        /\ new.defectLinks = pairs
    BY <2>1, <2>2 DEF Report
  <2> HIDE DEF new
  <2>4. steady' = steady
    BY <2>2, <2>3, QueryWatch
  <2>5. Phase'
    BY <2>2, <2>3, <2>4 DEF Phase, Query
  <2>6. ASSUME NEW q \in Requirement, q \in steady PROVE ReadMatrix(q)' /\ ReadSummary(q)'
    <3>1. ReadMatrix(q)
      BY <2>6 DEF RInv
    <3>2. ReadMatrix(q)'
      BY <1>1, <2>1, <2>2, <2>3, <3>1 DEF ReadMatrix, Query
    <3> QED
      BY <2>2, <2>3, <3>2 DEF ReadSummary
  <2> QED
    BY <2>2, <2>4, <2>5, <2>6 DEF RInv
<1>5. CASE Summary
  <2> DEFINE new == [NoReport EXCEPT !.pc = "aggregates", !.left = {"count", "find"}]
  <2>1. /\ new \in Report /\ new.pc = "aggregates" /\ new.left = {"count", "find"}
        /\ new.covered = {}
    BY NoReportTyped DEF Report, Aggregate
  <2>2. report' = new /\ report.pc = "idle"
    BY <1>5 DEF Summary
  <2> HIDE DEF new
  <2>3. steady' = Requirement
    BY <2>1, <2>2 DEF Watch
  <2>4. Phase'
    BY <2>1, <2>2, <2>3 DEF Phase, Aggregate
  <2>5. \A q : ReadMatrix(q)' /\ ReadSummary(q)'
    BY <2>1, <2>2 DEF ReadMatrix, ReadSummary
  <2> QED
    BY <2>4, <2>5 DEF RInv
<1>6. CASE Respond
  <2>1. report' = NoReport /\ steady' = {}
    BY <1>6, NoReportTyped DEF Respond, Watch
  <2> QED
    BY <2>1, NoReportTyped DEF RInv, Phase
<1> QED
  BY <1>2, <1>3, <1>4, <1>5, <1>6

\* The queries sent at once, each answered when it may be.
LEMMA MatrixLookups ==
    ASSUME DInv, RInv, UNCHANGED <<data, requests, served>>, Watch,
           ReadCases \/ ReadStatuses \/ ReadDefects
    PROVE  RInv'
<1>1. /\ report \in Report /\ steady \subseteq Requirement
      /\ "find" \in report.left => "group" \notin report.left
  BY DEF RInv, Phase
<1>2. \A e \in report.caseLinks : e[2] \in Linked /\ e[2] \in Case
  BY <1>1 DEF Linked, Report
<1>3. Linked \subseteq Case
  BY <1>1 DEF Linked, Report
<1>4. report.pc = "lookups" \/ report.left \cap Query = {}
  BY DEF RInv, Phase, Query, Aggregate, Report
<1>5. ASSUME NEW query \in Query, NEW answer \in Report, Answered(query, answer),
             answer.pc = report.pc, answer.left = report.left,
             answer.requirements = report.requirements,
             answer.caseLinks = report.caseLinks, answer.defectLinks = report.defectLinks,
             answer.covered = report.covered,
             \A q \in steady : \A c \in Case : <<q, c>> \in report.caseLinks =>
                /\ query = "cases" => /\ c \in answer.cases <=> Live(c)
                                      /\ c \in answer.archived <=> Live(c) /\ things[c].aside
                /\ query = "statuses" => (c \in answer.passed <=> latest[c] = "passed"),
             \A d \in Defect : query = "defects" => (d \in answer.open <=> Counts(d)),
             query # "cases" => answer.cases = report.cases /\ answer.archived = report.archived,
             query # "statuses" => answer.passed = report.passed,
             query # "defects" => answer.open = report.open
      PROVE  RInv'
  <2>1. /\ report' \in Report
        /\ query \in report.left
        /\ report'.left = report.left \ {query}
        /\ report'.pc = report.pc
           \/ /\ report'.left = {}
              /\ report'.pc = IF report.pc = "lookups" THEN "done" ELSE "counted"
        /\ report'.requirements = report.requirements
        /\ report'.covered = report.covered
        /\ report'.caseLinks = report.caseLinks /\ report'.defectLinks = report.defectLinks
        /\ report'.cases = answer.cases /\ report'.archived = answer.archived
        /\ report'.passed = answer.passed /\ report'.open = answer.open
    <3>1. Phase
      BY DEF RInv
    <3> QED
      BY <1>5, <3>1, AnsweredShape
  <2>2. report.pc = "lookups"
    BY <1>4, <2>1
  <2>3. report'.pc \in {"lookups", "done"} /\ (report'.pc = "done" => report'.left = {})
    BY <2>1, <2>2
  <2>4. steady' = steady
    BY <2>2, <2>3, QueryWatch
  <2>5. Phase'
    BY <2>1, <2>2, <2>3, <2>4 DEF RInv, Phase
  <2>6. \A q : /\ Counts(q)' = Counts(q) /\ Live(q)' = Live(q)
               /\ \A t : Between(q, t)' = Between(q, t) /\ Between(t, q)' = Between(t, q)
    BY DEF Counts, Live, Between, data
  <2>7. things' = things /\ latest' = latest
    BY DEF data
  <2>8. ASSUME NEW q \in Requirement, q \in steady PROVE ReadMatrix(q)'
    <3>1. ReadMatrix(q)
      BY <2>8 DEF RInv
    <3>2. /\ q \in report'.requirements <=> Counts(q)'
          /\ \A c \in Case : <<q, c>> \in report'.caseLinks
                                <=> q \in report'.requirements /\ Between(q, c)' # {}
          /\ \A d \in Defect : <<d, q>> \in report'.defectLinks <=> Between(d, q)' # {}
      BY <2>1, <2>2, <2>6, <3>1 DEF ReadMatrix
    <3>3. "cases" \notin report'.left =>
              \A c \in Case : <<q, c>> \in report'.caseLinks =>
                  /\ c \in report'.cases <=> Live(c)'
                  /\ c \in report'.archived <=> Live(c)' /\ things'[c].aside
      BY <1>5, <2>1, <2>2, <2>6, <2>7, <2>8, <3>1 DEF ReadMatrix
    <3>4. "statuses" \notin report'.left =>
              \A c \in Case : <<q, c>> \in report'.caseLinks =>
                  (c \in report'.passed <=> latest'[c] = "passed")
      BY <1>5, <2>1, <2>2, <2>7, <2>8, <3>1 DEF ReadMatrix
    <3>5. "defects" \notin report'.left =>
              \A d \in Defect : <<d, q>> \in report'.defectLinks =>
                  (d \in report'.open <=> Counts(d)')
      BY <1>5, <2>1, <2>2, <2>6, <3>1 DEF ReadMatrix
    <3> QED
      BY <3>2, <3>3, <3>4, <3>5 DEF ReadMatrix
  <2>9. \A q : ReadSummary(q)'
    BY <2>3 DEF ReadSummary
  <2> QED
    BY <1>1, <2>4, <2>5, <2>8, <2>9 DEF RInv
<1>6. CASE ReadCases
  <2> DEFINE found == Linked \cap LiveCases
             aside == {c \in found : things[c].aside}
             answer == [report EXCEPT !.cases = found, !.archived = aside]
  <2>1. Answered("cases", answer) /\ found \subseteq Case /\ aside \subseteq Case
    BY <1>3, <1>6 DEF ReadCases
  <2>2. \A e \in report.caseLinks : /\ e[2] \in found <=> Live(e[2])
                                    /\ e[2] \in aside <=> Live(e[2]) /\ things[e[2]].aside
    BY <1>2 DEF LiveCases
  <2> HIDE DEF found, aside
  <2>3. /\ answer \in Report /\ answer.cases = found /\ answer.archived = aside
        /\ answer.pc = report.pc /\ answer.left = report.left
        /\ answer.requirements = report.requirements
        /\ answer.caseLinks = report.caseLinks /\ answer.defectLinks = report.defectLinks
        /\ answer.covered = report.covered /\ answer.passed = report.passed
        /\ answer.open = report.open
    BY <1>1, <2>1 DEF Report
  <2> HIDE DEF answer
  <2>4. "cases" \in Query
    BY DEF Query
  <2>5. \A q, c : <<q, c>> \in report.caseLinks =>
            /\ c \in answer.cases <=> Live(c)
            /\ c \in answer.archived <=> Live(c) /\ things[c].aside
    BY <2>2, <2>3
  <2> QED
    BY <1>5, <2>1, <2>3, <2>4, <2>5
<1>7. CASE ReadStatuses
  <2> DEFINE found == {c \in Linked : latest[c] = "passed"}
             answer == [report EXCEPT !.passed = found]
  <2>1. Answered("statuses", answer) /\ found \subseteq Case
    BY <1>3, <1>7 DEF ReadStatuses
  <2>2. \A e \in report.caseLinks : e[2] \in found <=> latest[e[2]] = "passed"
    BY <1>2
  <2> HIDE DEF found
  <2>3. /\ answer \in Report /\ answer.passed = found
        /\ answer.pc = report.pc /\ answer.left = report.left
        /\ answer.requirements = report.requirements
        /\ answer.caseLinks = report.caseLinks /\ answer.defectLinks = report.defectLinks
        /\ answer.covered = report.covered /\ answer.cases = report.cases
        /\ answer.archived = report.archived /\ answer.open = report.open
    BY <1>1, <2>1 DEF Report
  <2> HIDE DEF answer
  <2>4. "statuses" \in Query
    BY DEF Query
  <2>5. \A q, c : <<q, c>> \in report.caseLinks => (c \in answer.passed <=> latest[c] = "passed")
    BY <2>2, <2>3
  <2> QED
    BY <1>5, <2>1, <2>3, <2>4, <2>5
<1>8. CASE ReadDefects
  <2> DEFINE found == {d \in Defect : Live(d) /\ ~things[d].aside}
             answer == [report EXCEPT !.open = found]
  <2>1. Answered("defects", answer) /\ found \subseteq Defect
        /\ \A d \in Defect : d \in found <=> Counts(d)
    BY <1>8 DEF ReadDefects, Counts
  <2> HIDE DEF found
  <2>2. /\ answer \in Report /\ answer.open = found
        /\ answer.pc = report.pc /\ answer.left = report.left
        /\ answer.requirements = report.requirements
        /\ answer.caseLinks = report.caseLinks /\ answer.defectLinks = report.defectLinks
        /\ answer.covered = report.covered /\ answer.cases = report.cases
        /\ answer.archived = report.archived /\ answer.passed = report.passed
    BY <1>1, <2>1 DEF Report
  <2> HIDE DEF answer
  <2>3. "defects" \in Query
    BY DEF Query
  <2> QED
    BY <1>5, <2>1, <2>2, <2>3
<1> QED
  BY <1>6, <1>7, <1>8

\* The three queries of the dashboard, the last of which may not be needed.
LEMMA DashboardLookups ==
    ASSUME DInv, RInv, UNCHANGED <<data, requests, served>>, Watch,
           CountRequirements \/ FindRequirements \/ GroupLinks
    PROVE  RInv'
<1>1. /\ Phase /\ report \in Report /\ steady \subseteq Requirement
      /\ "find" \in report.left => "group" \notin report.left
      /\ "find" \in report.left \/ "group" \in report.left => report.covered = {}
  BY DEF RInv, Phase
<1>2. report.pc = "aggregates" \/ report.left \cap Aggregate = {}
  BY DEF RInv, Phase, Query, Aggregate, Report
<1>3. \A q : Counts(q)' = Counts(q) /\ HasCase(q)' = HasCase(q)
  BY DEF Counts, Live, HasCase, Between, data
<1>4. InScope \subseteq Requirement /\ \A q \in Requirement : q \in InScope <=> Counts(q)
  BY DEF InScope, Counts
<1>5. ASSUME NEW query \in Aggregate, NEW answer \in Report, Answered(query, answer),
             answer.pc = report.pc, answer.left \subseteq report.left \cup Aggregate
      PROVE  /\ report' \in Report
             /\ query \in report.left
             /\ report.pc = "aggregates" /\ steady' = steady
             /\ report'.pc \in {"aggregates", "counted"}
             /\ report'.pc = "counted" => report'.left = {}
             /\ report'.left = answer.left \ {query}
             /\ report'.left \subseteq Aggregate
             /\ report'.requirements = answer.requirements
             /\ report'.counted = answer.counted /\ report'.covered = answer.covered
  <2>1. /\ report' \in Report
        /\ query \in report.left
        /\ report'.pc = report.pc
           \/ /\ report'.left = {}
              /\ report'.pc = IF report.pc = "lookups" THEN "done" ELSE "counted"
        /\ report'.left = answer.left \ {query}
        /\ report'.requirements = answer.requirements
        /\ report'.counted = answer.counted /\ report'.covered = answer.covered
    BY <1>1, <1>5, AnsweredShape
  <2>2. report.pc = "aggregates"
    BY <1>2, <2>1
  <2>3. report.left \subseteq Aggregate
    BY <1>1, <2>2 DEF Phase
  <2>4. report'.pc \in {"aggregates", "counted"} /\ (report'.pc = "counted" => report'.left = {})
    BY <2>1, <2>2
  <2>5. steady' = steady
    BY <2>2, <2>4, QueryWatch
  <2> QED
    BY <1>5, <2>1, <2>2, <2>3, <2>4, <2>5
<1>6. ASSUME report' \in Report, report'.pc \in {"aggregates", "counted"},
             report'.pc = "counted" => report'.left = {},
             report'.left \subseteq Aggregate, steady' = steady,
             "find" \in report'.left => "group" \notin report'.left,
             "find" \in report'.left \/ "group" \in report'.left => report'.covered = {},
             \A q \in steady : ReadSummary(q)'
      PROVE  RInv'
  <2>1. Phase'
    BY <1>1, <1>6 DEF Phase
  <2>2. \A q : ReadMatrix(q)'
    BY <1>6 DEF ReadMatrix
  <2> QED
    BY <1>6, <2>1, <2>2 DEF RInv
<1>7. CASE CountRequirements
  <2> DEFINE answer == [report EXCEPT !.counted = InScope]
  <2>1. /\ answer \in Report /\ answer.counted = InScope
        /\ answer.pc = report.pc /\ answer.left = report.left
        /\ answer.requirements = report.requirements /\ answer.covered = report.covered
    BY <1>1, <1>4 DEF Report
  <2>2. Answered("count", answer) /\ "count" \in Aggregate
    BY <1>7 DEF CountRequirements, Aggregate
  <2> HIDE DEF answer
  <2>3. /\ report' \in Report /\ report.pc = "aggregates" /\ steady' = steady
        /\ report'.pc \in {"aggregates", "counted"}
        /\ report'.pc = "counted" => report'.left = {}
        /\ report'.left = report.left \ {"count"}
        /\ report'.left \subseteq Aggregate
        /\ report'.requirements = report.requirements
        /\ report'.counted = InScope /\ report'.covered = report.covered
    BY <1>5, <2>1, <2>2
  <2>4. ASSUME NEW q \in steady PROVE ReadSummary(q)'
    <3>1. ReadSummary(q) /\ q \in Requirement
      BY <1>1 DEF RInv
    <3> QED
      BY <1>3, <1>4, <2>3, <3>1 DEF ReadSummary
  <2> QED
    BY <1>1, <1>6, <2>3, <2>4
<1>8. CASE FindRequirements
  <2> DEFINE more == IF InScope = {} THEN report.left ELSE report.left \cup {"group"}
             answer == [report EXCEPT !.requirements = InScope, !.left = more]
  <2>1. Answered("find", answer) /\ "find" \in Aggregate /\ "find" \in report.left
    BY <1>8 DEF FindRequirements, Aggregate, Answered
  <2>2. /\ more \subseteq report.left \cup Aggregate
        /\ more \subseteq Query \cup Aggregate
        /\ InScope # {} => "group" \in more
        /\ InScope = {} => more = report.left
        /\ "count" \in more <=> "count" \in report.left
    BY <1>1 DEF Report, Aggregate
  <2> HIDE DEF more
  <2>3. /\ answer \in Report /\ answer.requirements = InScope
        /\ answer.pc = report.pc /\ answer.left = more
        /\ answer.counted = report.counted /\ answer.covered = report.covered
    BY <1>1, <1>4, <2>2 DEF Report
  <2> HIDE DEF answer
  <2>4. /\ report' \in Report /\ report.pc = "aggregates" /\ steady' = steady
        /\ report'.pc \in {"aggregates", "counted"}
        /\ report'.pc = "counted" => report'.left = {}
        /\ report'.left = more \ {"find"}
        /\ report'.left \subseteq Aggregate
        /\ report'.requirements = InScope
        /\ report'.counted = report.counted /\ report'.covered = report.covered
    BY <1>5, <2>1, <2>2, <2>3
  <2>5. report.covered = {}
    BY <1>1, <2>1
  <2>6. ASSUME NEW q \in steady PROVE ReadSummary(q)'
    <3>1. ReadSummary(q) /\ q \in Requirement
      BY <1>1 DEF RInv
    <3>2. "group" \notin report'.left => q \notin InScope
      BY <2>2, <2>4
    <3> QED
      BY <1>3, <1>4, <2>2, <2>4, <2>5, <3>1, <3>2 DEF ReadSummary
  <2> QED
    BY <1>1, <1>6, <2>4, <2>5, <2>6
<1>9. CASE GroupLinks
  <2> DEFINE found == {q \in report.requirements : HasCase(q)}
             answer == [report EXCEPT !.covered = found]
  <2>1. /\ Answered("group", answer) /\ "group" \in Aggregate /\ "group" \in report.left
        /\ found \subseteq Requirement
        /\ \A q : q \in found <=> q \in report.requirements /\ HasCase(q)
    BY <1>1, <1>9 DEF GroupLinks, Aggregate, Answered, Report
  <2> HIDE DEF found
  <2>2. /\ answer \in Report /\ answer.covered = found
        /\ answer.pc = report.pc /\ answer.left = report.left
        /\ answer.requirements = report.requirements /\ answer.counted = report.counted
    BY <1>1, <2>1 DEF Report
  <2> HIDE DEF answer
  <2>3. /\ report' \in Report /\ report.pc = "aggregates" /\ steady' = steady
        /\ report'.pc \in {"aggregates", "counted"}
        /\ report'.pc = "counted" => report'.left = {}
        /\ report'.left = report.left \ {"group"}
        /\ report'.left \subseteq Aggregate
        /\ report'.requirements = report.requirements
        /\ report'.counted = report.counted /\ report'.covered = found
    BY <1>5, <2>1, <2>2
  <2>4. ASSUME NEW q \in steady PROVE ReadSummary(q)'
    <3>1. ReadSummary(q) /\ q \in Requirement
      BY <1>1 DEF RInv
    <3> QED
      BY <1>3, <2>1, <2>3, <3>1 DEF ReadSummary
  <2>5. "find" \notin report'.left /\ "group" \notin report'.left
    BY <1>1, <2>1, <2>3
  <2> QED
    BY <1>6, <2>3, <2>4, <2>5
<1> QED
  BY <1>7, <1>8, <1>9

-----------------------------------------------------------------------------
(* The theorems about what is reported.                                    *)

LEMMA ReportSound == Spec => [](DInv /\ RInv)
<1>1. Init => RInv
  BY NoReportTyped DEF Init, RInv, Phase
<1>2. DInv /\ DInv' /\ RInv /\ [Next]_vars => RInv'
  <2> SUFFICES ASSUME DInv, DInv', RInv, [Next]_vars PROVE RInv'
    OBVIOUS
  <2>1. CASE Change /\ UNCHANGED report /\ Watch
    BY <2>1, ChangeKeepsReport
  <2>2. CASE Matrix /\ UNCHANGED <<data, requests, served>> /\ Watch
    BY <2>2, MatrixReads, MatrixLookups DEF Matrix
  <2>3. CASE Dashboard /\ UNCHANGED <<data, requests, served>> /\ Watch
    BY <2>3, MatrixReads, DashboardLookups DEF Dashboard
  <2>4. CASE UNCHANGED vars
    BY <2>4 DEF vars, RInv, Phase, ReadMatrix, ReadSummary, Counts, Live, HasCase, Between
  <2> QED
    BY <2>1, <2>2, <2>3, <2>4 DEF Next
<1> QED
  BY <1>1, <1>2, DataSound, PTL DEF Spec

\* TypeOK: the tables, what the requests hold, and what the reports have read.
THEOREM TypeCorrect == Spec => []TypeOK
<1>1. DInv /\ RInv => TypeOK
  BY DEF DInv, Tables, Callers, RInv, Phase, TypeOK
<1> QED
  BY <1>1, ReportSound, PTL

\* MatrixIsExact: a requirement about which nothing changed while the matrix was
\* read over its queries is reported as it is.
THEOREM MatrixIsExactHolds == Spec => []MatrixIsExact
<1>1. DInv /\ RInv => MatrixIsExact
  <2> SUFFICES ASSUME DInv, RInv, report.pc = "done", NEW q \in steady
               PROVE  LET tests == {c \in LiveCases : ~things[c].aside /\ Between(q, c) # {}}
                          broken == {d \in Defect : Live(d) /\ ~things[d].aside
                                                    /\ Between(d, q) # {}}
                      IN
                      /\ q \in report.requirements <=> Live(q) /\ ~things[q].aside
                      /\ q \in report.requirements =>
                            /\ Covered(q) <=> tests # {}
                            /\ Verified(q) <=> /\ tests # {} /\ broken = {}
                                               /\ \A c \in tests : latest[c] = "passed"
    BY DEF MatrixIsExact
  <2> DEFINE tests == {c \in LiveCases : ~things[c].aside /\ Between(q, c) # {}}
             broken == {d \in Defect : Live(d) /\ ~things[d].aside /\ Between(d, q) # {}}
  <2>1. ReadMatrix(q) /\ report.left = {} /\ report \in Report
    BY DEF RInv, Phase
  <2>2. /\ q \in report.requirements <=> Counts(q)
        /\ \A c \in Case : <<q, c>> \in report.caseLinks
                              <=> q \in report.requirements /\ Between(q, c) # {}
        /\ \A d \in Defect : <<d, q>> \in report.defectLinks <=> Between(d, q) # {}
        /\ \A c \in Case : <<q, c>> \in report.caseLinks =>
              /\ c \in report.cases <=> Live(c)
              /\ c \in report.archived <=> Live(c) /\ things[c].aside
              /\ c \in report.passed <=> latest[c] = "passed"
        /\ \A d \in Defect : <<d, q>> \in report.defectLinks =>
              (d \in report.open <=> Counts(d))
    BY <2>1 DEF ReadMatrix
  <2>3. report.cases \subseteq Case /\ report.open \subseteq Defect
    BY <2>1 DEF Report
  <2>4. CASE q \in report.requirements
    <3>1. Active(q) = tests
      BY <2>2, <2>3, <2>4 DEF Active, RowCases, LiveCases
    <3>2. RowDefects(q) = broken
      BY <2>2, <2>3 DEF RowDefects, Counts
    <3>3. \A c \in tests : c \in report.passed <=> latest[c] = "passed"
      BY <2>2, <2>4 DEF LiveCases
    <3> HIDE DEF tests, broken
    <3>4. Covered(q) <=> tests # {}
      BY <3>1 DEF Covered
    <3>5. Verified(q) <=> tests # {} /\ broken = {} /\ \A c \in tests : latest[c] = "passed"
      BY <3>1, <3>2, <3>3, <3>4 DEF Verified
    <3> QED
      BY <2>2, <3>4, <3>5 DEF Counts, tests, broken
  <2> QED
    BY <2>2, <2>4 DEF Counts
<1> QED
  BY <1>1, ReportSound, PTL

\* DashboardIsExact: and so does the dashboard count it, by its own definition.
THEOREM DashboardIsExactHolds == Spec => []DashboardIsExact
<1>1. DInv /\ RInv => DashboardIsExact
  BY DEF RInv, Phase, ReadSummary, Counts, DashboardIsExact
<1> QED
  BY <1>1, ReportSound, PTL
=============================================================================
