--------------------------- MODULE TestDesignProofs ---------------------------
(***************************************************************************)
(* What is proved of TestDesign for every value of its constants: its      *)
(* types; that no interleaving of moves, creations and deletions loses a   *)
(* row or closes a cycle that no overtaken request is on; that creations   *)
(* respect the limit on the depth; and that steps and versions agree.      *)
(***************************************************************************)
EXTENDS TestDesign, FiniteSetTheorems, NaturalsInduction, TLAPS

-----------------------------------------------------------------------------
(* Types.                                                                  *)

Rows ==
    /\ suites \in [Suite -> [life: Life, name: Name \cup {Nothing}]]
    /\ \A u, v \in Suite : suites[u].name = suites[v].name /\ suites[u] # NoSuite => u = v
    /\ sections \in [Section -> [life: Life, suite: Suite \cup {Nothing}, parent: Place]]
    /\ cases \in [Case -> [life: Life, suite: Suite \cup {Nothing}, section: Place,
                           archived: BOOLEAN, version: Nat, steps: List]]
    /\ served \in 0..MaxServed
    /\ stray \subseteq Section \cup Case
    /\ moved \subseteq Section
    /\ asked \in [Case -> List]
    /\ crossed \subseteq Case

OnCase == {"case_write", "case_delete", "edit_section", "edit_row", "edit_delete",
           "edit_wait", "edit_insert", "replace_delete", "replace_wait",
           "replace_insert", "replace_row"}
WithSteps == {"case_section", "case_insert", "edit_delete", "edit_wait", "edit_insert",
              "replace_delete", "replace_wait", "replace_insert", "replace_row"}
ToPlace == {"section_parent", "section_insert", "move_parent", "move_check",
            "section_write", "case_section", "case_insert"}
OnSection == {"move_parent", "move_check", "section_write", "sections_list",
              "sections_delete"}

\* The fields that each step of a request relies on.
Formed(q) ==
    /\ q \in RequestState
    /\ q.pc \in {"suite_insert", "suite_rename"} => q.name \in Name
    /\ q.pc \in {"suite_rename", "suite_delete"} => q.row \in Suite
    /\ q.pc \in {"section_parent", "section_insert"} => q.suite \in Suite
    /\ q.pc \in ToPlace => q.place \in Place
    /\ q.pc \in OnSection => q.row \in Section
    /\ q.pc \in OnCase => q.row \in Case
    /\ q.pc \in WithSteps => q.list \in List

Calls == requests \in [Request -> RequestState] /\ \A r \in Request : Formed(requests[r])

TInv == Rows /\ Calls

LEMMA IdleFormed == Formed(Idle)
BY DEF Formed, Idle, RequestState, Step, ToPlace, OnSection, OnCase, WithSteps

LEMMA CallsStay ==
    ASSUME Calls, NEW r \in Request, NEW q, Formed(q),
           requests' = [requests EXCEPT ![r] = q]
    PROVE  Calls'
<1>1. q \in RequestState
  BY DEF Formed
<1>2. \A x \in Request : requests'[x] = IF x = r THEN q ELSE requests[x]
  BY DEF Calls
<1>3. requests' \in [Request -> RequestState]
  BY <1>1 DEF Calls
<1> QED
  BY <1>2, <1>3 DEF Calls

LEMMA FinishTyped == ASSUME Calls, NEW r \in Request, Finish(r) PROVE Calls'
BY IdleFormed, CallsStay DEF Finish

LEMMA RowsStay ==
    ASSUME Rows, UNCHANGED <<tables, history>>, served' \in 0..MaxServed
    PROVE  Rows'
BY DEF Rows, tables, history

LEMMA CheckTyped ==
    ASSUME TInv, NEW r \in Request, NEW ok, NEW q, Formed(q), Check(r, ok, q)
    PROVE  TInv'
<1>1. Formed(IF ok THEN q ELSE Idle)
  BY IdleFormed
<1>2. Calls'
  BY <1>1, CallsStay DEF TInv, Check
<1>3. Rows'
  BY RowsStay DEF TInv, Rows, Check
<1> QED
  BY <1>2, <1>3 DEF TInv

LEMMA BeginTyped ==
    ASSUME TInv, NEW r \in Request, NEW q, Formed(q), Begin(r, q)
    PROVE  TInv'
<1>1. Calls'
  BY CallsStay DEF TInv, Begin
<1>2. served' \in 0..MaxServed
  BY TestDesignAssumption DEF TInv, Rows, Begin
<1>3. Rows'
  BY <1>2, RowsStay DEF TInv, Begin
<1> QED
  BY <1>1, <1>3 DEF TInv

\* What a request holds of a row it reads is of the right type.
LEMMA StartTyped ==
    ASSUME TInv, NEW r \in Request, Start(r)
    PROVE  TInv'
<1> USE DEF Formed, Idle, RequestState, Step, ToPlace, OnSection, OnCase, WithSteps, Place
<1>1. ASSUME NEW n \in Name, CreateSuite(r, n) PROVE TInv'
  BY <1>1, BeginTyped DEF CreateSuite
<1>2. ASSUME NEW u \in Suite, NEW n \in Name, UpdateSuite(r, u, n) PROVE TInv'
  BY <1>2, BeginTyped DEF UpdateSuite
<1>3. ASSUME NEW u \in Suite, DeleteSuite(r, u) PROVE TInv'
  BY <1>3, BeginTyped DEF DeleteSuite
<1>4. ASSUME NEW u \in Suite, NEW p \in Place, CreateSection(r, u, p) PROVE TInv'
  BY <1>4, BeginTyped DEF CreateSection
<1>5. ASSUME NEW u \in Suite, NEW p \in Place, NEW l \in List, CreateCase(r, u, p, l)
      PROVE  TInv'
  BY <1>5, BeginTyped DEF CreateCase
<1>6. ASSUME NEW s \in Section, DeleteSection(r, s) PROVE TInv'
  BY <1>6, BeginTyped DEF DeleteSection
<1>7. ASSUME NEW s \in Section, NEW p \in Place, MoveSection(r, s, p) PROVE TInv'
  BY <1>7, BeginTyped DEF MoveSection
<1>8. ASSUME NEW c \in Case, ArchiveCase(r, c) \/ RestoreCase(r, c) \/ DeleteCase(r, c)
      PROVE  TInv'
  BY <1>8, BeginTyped DEF ArchiveCase, RestoreCase, DeleteCase
<1>9. ASSUME NEW c \in Case, NEW p \in Place \cup {Nothing}, DuplicateCase(r, c, p)
      PROVE  TInv'
  <2>1. /\ cases[c].suite \in Suite \cup {Nothing}
        /\ cases[c].section \in Place /\ cases[c].steps \in List
    BY DEF TInv, Rows
  <2> QED
    BY <1>9, <2>1, BeginTyped DEF DuplicateCase
<1>10. ASSUME NEW c \in Case, NEW p \in Place \cup {Nothing}, NEW l \in List \cup {Nothing},
              UpdateCase(r, c, p, l)
       PROVE  TInv'
  <2>1. cases[c].suite \in Suite \cup {Nothing}
    BY DEF TInv, Rows
  <2> QED
    BY <1>10, <2>1, BeginTyped DEF UpdateCase
<1>11. ASSUME NEW c \in Case, NEW l \in List, ReplaceSteps(r, c, l) PROVE TInv'
  BY <1>11, BeginTyped DEF ReplaceSteps
<1> QED
  BY <1>1, <1>2, <1>3, <1>4, <1>5, <1>6, <1>7, <1>8, <1>9, <1>10, <1>11 DEF Start

\* A request goes on with one of its fields changed.
LEMMA GoesOn ==
    ASSUME TInv, NEW r \in Request, NEW next \in Step \ {"suite_insert", "suite_rename",
               "suite_delete"},
           next \in {"section_parent", "section_insert"} => requests[r].suite \in Suite,
           next \in ToPlace => requests[r].place \in Place,
           next \in OnSection => requests[r].row \in Section,
           next \in OnCase => requests[r].row \in Case,
           next \in WithSteps => requests[r].list \in List
    PROVE  /\ Formed([requests[r] EXCEPT !.pc = next])
           /\ \A ids \in SUBSET Section :
                 Formed([requests[r] EXCEPT !.pc = next, !.ids = ids])
           /\ \A holds \in BOOLEAN :
                 Formed([requests[r] EXCEPT !.pc = next, !.holds = holds])
<1>1. requests[r] \in RequestState
  BY DEF TInv, Calls
<1> DEFINE q == requests[r]
<1> HIDE DEF q
<1>2. q = requests[r]
  BY DEF q
<1>3. /\ [q EXCEPT !.pc = next] \in RequestState
      /\ [q EXCEPT !.pc = next].pc = next /\ [q EXCEPT !.pc = next].suite = q.suite
      /\ [q EXCEPT !.pc = next].place = q.place /\ [q EXCEPT !.pc = next].row = q.row
      /\ [q EXCEPT !.pc = next].list = q.list
  BY <1>1, <1>2 DEF RequestState
<1>4. ASSUME NEW ids \in SUBSET Section
      PROVE  Formed([q EXCEPT !.pc = next, !.ids = ids])
  <2> DEFINE x == [q EXCEPT !.pc = next, !.ids = ids]
  <2>1. /\ x \in RequestState /\ x.pc = next /\ x.suite = q.suite
        /\ x.place = q.place /\ x.row = q.row /\ x.list = q.list
    BY <1>1, <1>2 DEF RequestState
  <2> HIDE DEF x
  <2>2. Formed(x)
    BY <1>2, <2>1 DEF Formed
  <2> QED
    BY <2>2 DEF x
<1>5. ASSUME NEW holds \in BOOLEAN
      PROVE  Formed([q EXCEPT !.pc = next, !.holds = holds])
  <2> DEFINE x == [q EXCEPT !.pc = next, !.holds = holds]
  <2>1. /\ x \in RequestState /\ x.pc = next /\ x.suite = q.suite
        /\ x.place = q.place /\ x.row = q.row /\ x.list = q.list
    BY <1>1, <1>2 DEF RequestState
  <2> HIDE DEF x
  <2>2. Formed(x)
    BY <1>2, <2>1 DEF Formed
  <2> QED
    BY <2>2 DEF x
<1> QED
  BY <1>2, <1>3, <1>4, <1>5 DEF Formed

LEMMA SuitesTyped ==
    ASSUME TInv, NEW r \in Request,
           SuiteRename(r) \/ SuiteDelete(r) \/ \E u \in Suite : SuiteInsert(r, u)
    PROVE  TInv'
<1>1. Formed(requests[r]) /\ Rows /\ Calls
  BY DEF TInv, Calls
<1>2. CASE SuiteRename(r)
  <2> DEFINE u == requests[r].row
             n == requests[r].name
  <2>1. u \in Suite /\ n \in Name
    BY <1>1, <1>2 DEF Formed, SuiteRename
  <2>2. CASE LiveSuite(u) /\ Named(n) = {}
    <3>1. suites' = [suites EXCEPT ![u].name = n]
      BY <1>2, <2>2 DEF SuiteRename
    <3>2. \A v \in Suite : /\ suites'[v].name = IF v = u THEN n ELSE suites[v].name
                           /\ suites'[v].life = suites[v].life
      BY <1>1, <2>1, <3>1 DEF Rows
    <3>3. \A v \in Suite : suites'[v] # NoSuite => suites[v] # NoSuite
      BY <1>1, <2>1, <2>2, <3>1 DEF Rows, LiveSuite, NoSuite
    <3>4. suites' \in [Suite -> [life: Life, name: Name \cup {Nothing}]]
      BY <1>1, <2>1, <3>1 DEF Rows
    <3>5. \A v, w \in Suite : suites'[v].name = suites'[w].name /\ suites'[v] # NoSuite => v = w
      BY <1>1, <2>1, <2>2, <3>2, <3>3 DEF Rows, Named
    <3> QED
      BY <1>1, <1>2, <3>4, <3>5, FinishTyped DEF SuiteRename, TInv, Rows, Finish, history
  <2>3. CASE ~(LiveSuite(u) /\ Named(n) = {})
    BY <1>1, <1>2, <2>3, FinishTyped DEF SuiteRename, TInv, Rows, Finish, history
  <2> QED
    BY <2>2, <2>3
<1>3. CASE SuiteDelete(r)
  <2> DEFINE u == requests[r].row
  <2>1. u \in Suite
    BY <1>1, <1>3 DEF Formed, SuiteDelete
  <2>2. CASE LiveSuite(u)
    <3>1. /\ suites' = [suites EXCEPT ![u].life = "deleted"]
          /\ sections' = [s \in Section |-> Ended(sections[s], u)]
          /\ cases' = [c \in Case |-> Ended(cases[c], u)]
      BY <1>3, <2>2 DEF SuiteDelete
    <3>2. \A v \in Suite : suites'[v].name = suites[v].name
                           /\ (suites'[v] # NoSuite => suites[v] # NoSuite)
      BY <1>1, <2>1, <2>2, <3>1 DEF Rows, LiveSuite, NoSuite
    <3>3. suites' \in [Suite -> [life: Life, name: Name \cup {Nothing}]]
      <4>1. suites \in [Suite -> [life: Life, name: Name \cup {Nothing}]] /\ "deleted" \in Life
        BY <1>1 DEF Rows, Life
      <4> QED
        BY <2>1, <3>1, <4>1
    <3>4. \A s \in Section :
              Ended(sections[s], u) \in [life: Life, suite: Suite \cup {Nothing}, parent: Place]
      BY <1>1 DEF Rows, Ended, Life
    <3>5. \A c \in Case :
              Ended(cases[c], u) \in [life: Life, suite: Suite \cup {Nothing}, section: Place,
                                      archived: BOOLEAN, version: Nat, steps: List]
      BY <1>1 DEF Rows, Ended, Life
    <3>6. \A v, w \in Suite : suites'[v].name = suites'[w].name /\ suites'[v] # NoSuite => v = w
      BY <1>1, <3>2 DEF Rows
    <3> QED
      BY <1>1, <1>3, <3>1, <3>3, <3>4, <3>5, <3>6, FinishTyped
         DEF SuiteDelete, TInv, Rows, Finish, history
  <2>3. CASE ~LiveSuite(u)
    BY <1>1, <1>3, <2>3, FinishTyped DEF SuiteDelete, TInv, Rows, Finish, history, tables
  <2> QED
    BY <2>2, <2>3
<1>4. ASSUME NEW u \in Suite, SuiteInsert(r, u) PROVE TInv'
  <2> DEFINE n == requests[r].name
             new == [life |-> "live", name |-> n]
  <2>1. n \in Name
    BY <1>1, <1>4 DEF Formed, SuiteInsert
  <2>2. CASE Named(n) = {}
    <3>1. suites' = [suites EXCEPT ![u] = new]
      BY <1>4, <2>2 DEF SuiteInsert
    <3>2. new \in [life: Life, name: Name \cup {Nothing}] /\ new.name = n
      BY <2>1 DEF Life
    <3>3. \A v \in Suite : suites'[v] = IF v = u THEN new ELSE suites[v]
      BY <1>1, <3>1 DEF Rows
    <3>4. \A v \in Suite : v # u => suites[v].name # n
      BY <2>2 DEF Named
    <3> HIDE DEF new
    <3>5. \A v, w \in Suite : suites'[v].name = suites'[w].name /\ suites'[v] # NoSuite => v = w
      BY <1>1, <3>2, <3>3, <3>4 DEF Rows
    <3>6. suites' \in [Suite -> [life: Life, name: Name \cup {Nothing}]]
      BY <1>1, <3>1, <3>2 DEF Rows
    <3> QED
      BY <1>1, <1>4, <3>5, <3>6, FinishTyped DEF SuiteInsert, TInv, Rows, Finish, history
  <2>3. CASE Named(n) # {}
    BY <1>1, <1>4, <2>3, FinishTyped DEF SuiteInsert, TInv, Rows, Finish, history
  <2> QED
    BY <2>2, <2>3
<1> QED
  BY <1>2, <1>3, <1>4

\* The rows of the two tables.
SectionRow == [life: Life, suite: Suite \cup {Nothing}, parent: Place]
CaseRow == [life: Life, suite: Suite \cup {Nothing}, section: Place,
            archived: BOOLEAN, version: Nat, steps: List]

LEMMA SectionsTyped ==
    ASSUME TInv, NEW r \in Request,
           SectionWrite(r) \/ SectionsDelete(r) \/ \E s \in Section : SectionInsert(r, s)
    PROVE  TInv'
<1>1. /\ Formed(requests[r]) /\ Rows /\ Calls
      /\ sections \in [Section -> SectionRow] /\ cases \in [Case -> CaseRow]
  BY DEF TInv, Calls, Rows, SectionRow, CaseRow
<1>2. CASE SectionWrite(r)
  <2> DEFINE s == requests[r].row
             p == requests[r].place
  <2>1. s \in Section /\ p \in Place
    BY <1>1, <1>2 DEF Formed, SectionWrite, OnSection, ToPlace
  <2>2. CASE LiveSection(s)
    <3>1. /\ sections' = [sections EXCEPT ![s].parent = p] /\ moved' = moved \cup {s}
          /\ stray' \subseteq stray \cup {s}
      BY <1>2, <2>2 DEF SectionWrite
    <3>2. sections' \in [Section -> SectionRow]
      BY <1>1, <2>1, <3>1 DEF SectionRow
    <3> QED
      BY <1>1, <1>2, <2>1, <3>1, <3>2, FinishTyped
         DEF SectionWrite, TInv, Rows, Finish, SectionRow
  <2>3. CASE ~LiveSection(s)
    BY <1>1, <1>2, <2>3, FinishTyped DEF SectionWrite, TInv, Rows, Finish
  <2> QED
    BY <2>2, <2>3
<1>3. CASE SectionsDelete(r)
  <2> DEFINE ids == requests[r].ids
  <2>1. /\ sections' = [s \in Section |->
               IF s \in ids THEN [sections[s] EXCEPT !.life = "deleted"] ELSE sections[s]]
        /\ cases' = [c \in Case |->
               IF LiveCase(c) /\ cases[c].section \in ids
               THEN [cases[c] EXCEPT !.section = Root] ELSE cases[c]]
        /\ stray' \subseteq stray \cup Section
    BY <1>3 DEF SectionsDelete
  <2> HIDE DEF ids
  <2>2. \A s \in Section : [sections[s] EXCEPT !.life = "deleted"] \in SectionRow
    BY <1>1 DEF SectionRow, Life
  <2>3. \A c \in Case : [cases[c] EXCEPT !.section = Root] \in CaseRow
    BY <1>1 DEF CaseRow, Place
  <2>4. sections' \in [Section -> SectionRow] /\ cases' \in [Case -> CaseRow]
    BY <1>1, <2>1, <2>2, <2>3
  <2> QED
    BY <1>1, <1>3, <2>1, <2>4, FinishTyped
       DEF SectionsDelete, TInv, Rows, Finish, SectionRow, CaseRow
<1>4. ASSUME NEW s \in Section, SectionInsert(r, s) PROVE TInv'
  <2> DEFINE new == [life |-> "live", suite |-> requests[r].suite, parent |-> requests[r].place]
  <2>1. new \in SectionRow
    BY <1>1, <1>4 DEF Formed, SectionInsert, ToPlace, SectionRow, Life
  <2>2. /\ sections' = [sections EXCEPT ![s] = new]
        /\ stray' \subseteq stray \cup {s}
    BY <1>4 DEF SectionInsert
  <2> HIDE DEF new
  <2>3. sections' \in [Section -> SectionRow]
    BY <1>1, <2>1, <2>2
  <2> QED
    BY <1>1, <1>4, <2>2, <2>3, FinishTyped DEF SectionInsert, TInv, Rows, Finish, SectionRow
<1> QED
  BY <1>2, <1>3, <1>4

\* The end of a transaction lets those that wait for it go on.
LEMMA CommitTyped == ASSUME TInv, NEW r \in Request, Commit(r) PROVE Calls'
<1>1. requests \in [Request -> RequestState] /\ \A q \in Request : Formed(requests[q])
  BY DEF TInv, Calls
<1>2. ASSUME NEW q \in Request PROVE Formed(requests'[q])
  <2>1. \/ requests'[q] = Idle \/ requests'[q] = requests[q]
        \/ /\ requests[q].pc = "edit_wait"
           /\ requests'[q] = [requests[q] EXCEPT !.pc = "edit_insert"]
        \/ /\ requests[q].pc = "replace_wait"
           /\ requests'[q] = [requests[q] EXCEPT !.pc = "replace_insert"]
    BY DEF Commit
  <2>2. Formed(requests[q])
    BY <1>1
  <2>3. requests[q].pc = "edit_wait" => Formed([requests[q] EXCEPT !.pc = "edit_insert"])
    BY <2>2, GoesOn DEF Formed, Step, ToPlace, OnSection, OnCase, WithSteps
  <2>4. requests[q].pc = "replace_wait" => Formed([requests[q] EXCEPT !.pc = "replace_insert"])
    BY <2>2, GoesOn DEF Formed, Step, ToPlace, OnSection, OnCase, WithSteps
  <2> QED
    BY <2>1, <2>2, <2>3, <2>4, IdleFormed
<1>3. DOMAIN requests' = Request /\ requests' = [q \in Request |-> requests'[q]]
  BY DEF Commit
<1>4. \A q \in Request : requests'[q] \in RequestState
  BY <1>2 DEF Formed
<1> QED
  BY <1>2, <1>3, <1>4 DEF Calls

\* The row as an edit leaves it, and the steps it leaves.
LEMMA EditTyped ==
    ASSUME TInv, NEW r \in Request, requests[r].row \in Case
    PROVE  /\ Edited(requests[r].row, requests[r]) \in CaseRow
           /\ requests[r].list \in List =>
                 /\ Rewritten(r) \in List
                 /\ [Edited(requests[r].row, requests[r]) EXCEPT !.steps = Rewritten(r)]
                       \in CaseRow
<1> DEFINE c == requests[r].row
<1>1. /\ cases[c] \in CaseRow /\ requests[r] \in RequestState
  BY DEF TInv, Rows, Calls, CaseRow
<1>2. requests[r].place \in Place \cup {Nothing}
  BY <1>1 DEF RequestState
<1>3. Edited(c, requests[r]) \in CaseRow
  <2>1. \A v \in Nat, p \in Place : [cases[c] EXCEPT !.version = v, !.section = p] \in CaseRow
    BY <1>1 DEF CaseRow
  <2>2. cases[c].version + 1 \in Nat /\ cases[c].section \in Place
    BY <1>1 DEF CaseRow
  <2> QED
    BY <1>2, <2>1, <2>2 DEF Edited
<1>4. requests[r].list \in List => Rewritten(r) \in List
  BY <1>1 DEF Rewritten, CaseRow
<1>5. \A l \in List : [Edited(c, requests[r]) EXCEPT !.steps = l] \in CaseRow
  BY <1>3 DEF CaseRow
<1> QED
  BY <1>3, <1>4, <1>5

LEMMA CasesTyped ==
    ASSUME TInv, NEW r \in Request,
           \/ CaseWrite(r) \/ CaseDelete(r) \/ EditRow(r) \/ EditInsert(r) \/ ReplaceRow(r)
           \/ \E c \in Case : CaseInsert(r, c)
    PROVE  TInv'
<1>1. /\ Formed(requests[r]) /\ Rows /\ Calls
      /\ cases \in [Case -> CaseRow] /\ requests[r] \in RequestState
  BY DEF TInv, Calls, Rows, CaseRow
<1> DEFINE c == requests[r].row
<1>2. ASSUME CaseWrite(r) \/ CaseDelete(r) \/ EditRow(r) \/ EditInsert(r) \/ ReplaceRow(r)
      PROVE  c \in Case
  BY <1>1, <1>2 DEF Formed, OnCase, CaseWrite, CaseDelete, EditRow, EditInsert, ReplaceRow
<1>3. CASE CaseWrite(r) \/ CaseDelete(r)
  <2>1. c \in Case /\ requests[r].archived \in BOOLEAN
    BY <1>1, <1>2, <1>3 DEF RequestState
  <2>2. \/ cases' = cases
        \/ cases' = [cases EXCEPT ![c].archived = requests[r].archived]
        \/ cases' = [cases EXCEPT ![c].life = "deleted"]
    BY <1>3 DEF CaseWrite, CaseDelete
  <2>3. /\ [cases[c] EXCEPT !.archived = requests[r].archived] \in CaseRow
        /\ [cases[c] EXCEPT !.life = "deleted"] \in CaseRow
    BY <1>1, <2>1 DEF CaseRow, Life
  <2>4. cases' \in [Case -> CaseRow]
    BY <1>1, <2>1, <2>2, <2>3
  <2> QED
    BY <1>1, <1>3, <2>4, FinishTyped
       DEF CaseWrite, CaseDelete, TInv, Rows, Finish, CaseRow, history
<1>4. CASE EditRow(r)
  <2>1. c \in Case
    BY <1>2, <1>4
  <2>2. CASE cases' = cases /\ stray' = stray /\ Finish(r)
    BY <1>1, <1>4, <2>2, FinishTyped DEF EditRow, TInv, Rows, Finish
  <2>3. CASE LiveCase(c) /\ requests[r].list # Nothing
    <3>1. requests[r].list \in List
      BY <1>1, <2>3 DEF RequestState
    <3>2. Formed([requests[r] EXCEPT !.pc = "edit_delete"])
      BY <2>1, <3>1, GoesOn DEF Step, ToPlace, OnSection, OnCase, WithSteps
    <3> QED
      BY <1>4, <2>3, <3>2, CheckTyped DEF EditRow
  <2>4. CASE LiveCase(c) /\ requests[r].list = Nothing
    <3>1. /\ cases' = [cases EXCEPT ![c] = Edited(c, requests[r])]
          /\ stray' \subseteq stray \cup {c}
          /\ Finish(r)
      BY <1>4, <2>4 DEF EditRow, Lost
    <3>2. cases' \in [Case -> CaseRow]
      BY <1>1, <2>1, <3>1, EditTyped
    <3> QED
      BY <1>1, <1>4, <2>1, <3>1, <3>2, FinishTyped DEF EditRow, TInv, Rows, Finish, CaseRow
  <2> QED
    BY <1>4, <2>2, <2>3, <2>4 DEF EditRow
<1>5. CASE EditInsert(r)
  <2>1. c \in Case /\ requests[r].list \in List
    BY <1>1, <1>2, <1>5 DEF Formed, WithSteps, EditInsert
  <2>2. CASE Refused(r)
    BY <1>1, <1>5, <2>2, FinishTyped DEF EditInsert, TInv, Rows, Finish, history
  <2>3. CASE ~Refused(r)
    <3>1. /\ cases' = [cases EXCEPT ![c] = [Edited(c, requests[r]) EXCEPT !.steps = Rewritten(r)]]
          /\ stray' \subseteq stray \cup {c}
          /\ asked' = [asked EXCEPT ![c] = requests[r].list]
          /\ crossed' \subseteq crossed \cup {c}
          /\ Commit(r) /\ moved' = moved
      BY <1>5, <2>3 DEF EditInsert, Lost, Remember
    <3>2. cases' \in [Case -> CaseRow]
      BY <1>1, <2>1, <3>1, EditTyped
    <3> QED
      BY <1>1, <1>5, <2>1, <3>1, <3>2, CommitTyped
         DEF EditInsert, TInv, Rows, Commit, CaseRow
  <2> QED
    BY <2>2, <2>3
<1>6. CASE ReplaceRow(r)
  <2>1. c \in Case /\ requests[r].list \in List
    BY <1>1, <1>2, <1>6 DEF Formed, WithSteps, ReplaceRow
  <2>2. /\ cases' = [cases EXCEPT ![c].steps = Rewritten(r),
                                  ![c].version = IF LiveCase(c) THEN @ + 1 ELSE @]
        /\ asked' = [asked EXCEPT ![c] = requests[r].list]
        /\ crossed' \subseteq crossed \cup {c}
        /\ Commit(r)
    BY <1>6 DEF ReplaceRow, Remember
  <2>3. Rewritten(r) \in List
    BY <2>1, EditTyped
  <2>4. cases' \in [Case -> CaseRow]
    BY <1>1, <2>1, <2>2, <2>3 DEF CaseRow
  <2> QED
    BY <1>1, <1>6, <2>1, <2>2, <2>4, CommitTyped
       DEF ReplaceRow, TInv, Rows, Commit, CaseRow
<1>7. ASSUME NEW d \in Case, CaseInsert(r, d) PROVE TInv'
  <2> DEFINE new == [life |-> "live", suite |-> requests[r].suite,
                     section |-> requests[r].place, archived |-> FALSE,
                     version |-> 1, steps |-> requests[r].list]
  <2>1. new \in CaseRow
    BY <1>1, <1>7 DEF Formed, CaseInsert, ToPlace, WithSteps, RequestState, CaseRow, Life
  <2>2. /\ cases' = [cases EXCEPT ![d] = new]
        /\ asked' = [asked EXCEPT ![d] = requests[r].list]
        /\ stray' \subseteq stray \cup {d}
    BY <1>7 DEF CaseInsert
  <2>3. requests[r].list \in List
    BY <1>1, <1>7 DEF Formed, CaseInsert, WithSteps
  <2> HIDE DEF new
  <2>4. cases' \in [Case -> CaseRow]
    BY <1>1, <2>1, <2>2
  <2> QED
    BY <1>1, <1>7, <2>2, <2>3, <2>4, FinishTyped DEF CaseInsert, TInv, Rows, Finish, CaseRow
<1> QED
  BY <1>3, <1>4, <1>5, <1>6, <1>7

-----------------------------------------------------------------------------
(* Recursion over the naturals, and the sections below others.             *)

LEMMA NatLeast ==
    ASSUME NEW T, T \subseteq Nat, T # {}
    PROVE  \E n \in T : \A m \in T : n <= m
<1> DEFINE R == {ss \in Nat \X Nat : ss[1] < ss[2]}
<1>1. OpToRel(<, Nat) = R
  BY DEF OpToRel
<1>2. IsWellFoundedOn(R, Nat)
  BY <1>1, NatLessThanWellFounded
<1> HIDE DEF R
<1>3. \E x \in T : \A y \in T : ~(<<y, x>> \in R)
  BY <1>2, WFMin
<1>4. \A x, y \in T : y < x => <<y, x>> \in R
  BY DEF R
<1>5. PICK x \in T : \A y \in T : ~(y < x)
  BY <1>3, <1>4
<1> QED
  BY <1>5

LEMMA NatInducts ==
    ASSUME NEW T, 0 \in T, \A n \in Nat : n \in T => n + 1 \in T
    PROVE  Nat \subseteq T
<1> DEFINE U == {n \in Nat : n \notin T}
<1> SUFFICES ASSUME U # {} PROVE FALSE
  OBVIOUS
<1>1. PICK n \in U : \A m \in U : n <= m
  BY NatLeast
<1> QED
  BY <1>1

\* A function defined on an interval by the value before exists.
Recursive(A, a, F, k) == a \in A /\ F \in [Nat -> [A -> A]] /\ k \in Nat

LEMMA RecursionExists ==
    ASSUME NEW A, NEW a, NEW F, NEW k, Recursive(A, a, F, k)
    PROVE  \E f \in [0..k -> A] : f[0] = a /\ \A n \in 1..k : f[n] = F[n][f[n - 1]]
<1> USE DEF Recursive
<1> DEFINE Rec(f, m) == f \in [0..m -> A] /\ f[0] = a
                        /\ \A n \in 1..m : f[n] = F[n][f[n - 1]]
           T == {m \in Nat : \E f : Rec(f, m)}
<1>1. 0 \in T
  <2> DEFINE f == [n \in 0..0 |-> a]
  <2>1. Rec(f, 0)
    OBVIOUS
  <2> HIDE DEF Rec, f
  <2> QED
    BY <2>1
<1>2. ASSUME NEW m \in Nat, m \in T PROVE m + 1 \in T
  <2>1. PICK f : Rec(f, m)
    BY <1>2
  <2> DEFINE g == [n \in 0..(m + 1) |-> IF n <= m THEN f[n] ELSE F[n][f[n - 1]]]
  <2>2. \A n \in 0..m : f[n] \in A
    BY <2>1
  <2>3. \A n \in 0..(m + 1) : g[n] = IF n <= m THEN f[n] ELSE F[n][f[n - 1]]
    OBVIOUS
  <2> HIDE DEF g
  <2>4. ASSUME NEW n \in 0..(m + 1) PROVE g[n] = (IF n = 0 THEN a ELSE F[n][g[n - 1]])
                                          /\ g[n] \in A
    <3>1. CASE n = 0
      BY <2>1, <2>2, <2>3, <3>1
    <3>2. CASE n # 0
      <4>1. n - 1 \in 0..m /\ n - 1 \in 0..(m + 1) /\ n \in Nat
        BY <3>2
      <4>2. g[n - 1] = f[n - 1] /\ f[n - 1] \in A
        BY <2>2, <2>3, <4>1
      <4>3. n <= m => f[n] = F[n][f[n - 1]]
        BY <2>1, <3>2, <4>1
      <4>4. F[n][f[n - 1]] \in A
        BY <4>1, <4>2
      <4> QED
        BY <2>3, <3>2, <4>2, <4>3, <4>4
    <3> QED
      BY <3>1, <3>2
  <2>5. g = [n \in 0..(m + 1) |-> g[n]]
    BY DEF g
  <2>6. Rec(g, m + 1)
    <3> DEFINE D == 0..(m + 1)
    <3>1. 0 \in D /\ \A n \in 1..(m + 1) : n \in D /\ n # 0
      OBVIOUS
    <3> HIDE DEF D
    <3>2. \A n \in D : g[n] = (IF n = 0 THEN a ELSE F[n][g[n - 1]]) /\ g[n] \in A
      BY <2>4 DEF D
    <3>3. g \in [D -> A]
      BY <2>5, <3>2 DEF D
    <3>4. g[0] = a /\ \A n \in 1..(m + 1) : g[n] = F[n][g[n - 1]]
      BY <3>1, <3>2
    <3> QED
      BY <3>3, <3>4 DEF D
  <2> HIDE DEF Rec
  <2> QED
    BY <2>6
<1> HIDE DEF T
<1>3. k \in T
  BY <1>1, <1>2, NatInducts
<1> QED
  BY <1>3 DEF T

Below(X) == X \cup {t \in Section : LiveSection(t) /\ sections[t].parent \in X}

\* The recursion of Descendants, unfolded.
LEMMA DescendantsUnfold ==
    ASSUME NEW S \in SUBSET Section
    PROVE  \E below \in [0..Cardinality(Section) -> SUBSET Section] :
              /\ below[0] = S
              /\ \A n \in 1..Cardinality(Section) : below[n] = Below(below[n - 1])
              /\ Descendants(S) = below[Cardinality(Section)]
<1> DEFINE N == Cardinality(Section)
           A == SUBSET Section
           F == [n \in Nat |-> [X \in A |-> Below(X)]]
           Def(f) == f = [n \in 0..N |->
                            IF n = 0 THEN S
                            ELSE LET found == f[n - 1] IN
                                 found \cup {t \in Section : LiveSection(t)
                                                             /\ sections[t].parent \in found}]
           below == CHOOSE f : Def(f)
<1>1. N \in Nat
  BY TestDesignAssumption, FS_CardinalityType
<1>2. F \in [Nat -> [A -> A]]
  BY DEF Below
<1>3. \E f \in [0..N -> A] : f[0] = S /\ \A n \in 1..N : f[n] = F[n][f[n - 1]]
  <2> HIDE DEF F, A, N
  <2>1. Recursive(A, S, F, N)
    BY <1>1, <1>2 DEF A, Recursive
  <2> QED
    BY <2>1, RecursionExists
<1>4. PICK f \in [0..N -> A] : f[0] = S /\ \A n \in 1..N : f[n] = F[n][f[n - 1]]
  BY <1>3
<1>5. Def(f)
  <2>1. ASSUME NEW n \in 1..N PROVE f[n] = Below(f[n - 1])
    <3>1. n \in Nat /\ n - 1 \in 0..N
      BY <1>1
    <3>2. f[n - 1] \in A
      BY <1>4, <3>1
    <3> QED
      BY <1>4, <3>1, <3>2
  <2> HIDE DEF F, N, A
  <2>2. \A n \in 0..N : n # 0 => n \in 1..N
    BY <1>1
  <2>3. f = [n \in 0..N |-> f[n]]
    BY <1>4
  <2>4. \A n \in 0..N : f[n] = IF n = 0 THEN S ELSE Below(f[n - 1])
    BY <1>4, <2>1, <2>2
  <2> QED
    BY <2>3, <2>4 DEF Below
<1> HIDE DEF Def
<1>6. Def(below)
  BY <1>5
<1>7. Descendants(S) = below[N]
  BY DEF Descendants, Def
<1> HIDE DEF below, N
<1>8. /\ below[0] = S
      /\ \A n \in 1..N : below[n] = Below(below[n - 1])
      /\ below = [n \in 0..N |-> below[n]]
  BY <1>1, <1>6 DEF Def, Below
<1> DEFINE T == {n \in Nat : n <= N => below[n] \subseteq Section}
<1>9. Nat \subseteq T
  <2>1. 0 \in T
    BY <1>8
  <2>2. ASSUME NEW n \in Nat, n \in T PROVE n + 1 \in T
    <3>1. CASE n + 1 <= N
      <4>1. n <= N /\ n + 1 \in 1..N /\ (n + 1) - 1 = n
        BY <1>1, <3>1
      <4>2. below[n + 1] = Below(below[n]) /\ below[n] \subseteq Section
        BY <1>8, <2>2, <4>1
      <4> QED
        BY <4>2 DEF Below
    <3> QED
      BY <1>1, <3>1
  <2> HIDE DEF T
  <2> QED
    BY <2>1, <2>2, NatInducts
<1>10. below \in [0..N -> SUBSET Section]
  BY <1>1, <1>8, <1>9
<1> QED
  BY <1>7, <1>8, <1>10 DEF N

DownClosed(X) == \A t \in Section : LiveSection(t) /\ sections[t].parent \in X => t \in X

\* Descendants(S) is the least set that has S and whatever is directly below it:
\* the walk is long enough, since each round but the last finds a section more.
LEMMA DescendantsLeast ==
    ASSUME NEW S \in SUBSET Section
    PROVE  /\ S \subseteq Descendants(S) /\ Descendants(S) \subseteq Section
           /\ DownClosed(Descendants(S))
           /\ \A X : S \subseteq X /\ DownClosed(X) => Descendants(S) \subseteq X
<1> DEFINE N == Cardinality(Section)
<1>1. N \in Nat
  BY TestDesignAssumption, FS_CardinalityType
<1>2. PICK below \in [0..N -> SUBSET Section] :
            /\ below[0] = S
            /\ \A n \in 1..N : below[n] = Below(below[n - 1])
            /\ Descendants(S) = below[N]
  BY DescendantsUnfold
<1>3. N = Cardinality(Section)
  OBVIOUS
<1> HIDE DEF N
<1>4. \A n \in Nat : n + 1 <= N =>
          /\ n <= N /\ n \in 0..N /\ n + 1 \in 0..N
          /\ below[n + 1] = Below(below[n]) /\ below[n] \subseteq Section
  <2>1. ASSUME NEW n \in Nat, n + 1 <= N
        PROVE  /\ n <= N /\ n \in 0..N /\ n + 1 \in 0..N
               /\ below[n + 1] = Below(below[n]) /\ below[n] \subseteq Section
    <3>1. n \in 0..N /\ n + 1 \in 1..N /\ (n + 1) - 1 = n /\ n <= N
      BY <1>1, <2>1
    <3> QED
      BY <1>2, <3>1
  <2> QED
    BY <2>1
<1>5. N \in 0..N /\ 0 \in 0..N
  BY <1>1
<1>6. ASSUME NEW X, S \subseteq X, DownClosed(X) PROVE below[N] \subseteq X
  <2> DEFINE T == {n \in Nat : n <= N => below[n] \subseteq X}
  <2>1. 0 \in T
    BY <1>2, <1>6
  <2>2. ASSUME NEW n \in Nat, n \in T PROVE n + 1 \in T
    <3>1. CASE n + 1 <= N
      BY <1>4, <1>6, <2>2, <3>1 DEF Below, DownClosed
    <3> QED
      BY <3>1
  <2>3. T \subseteq Nat
    OBVIOUS
  <2> HIDE DEF T
  <2>4. N \in T
    BY <1>1, <2>1, <2>2, NatInducts
  <2> QED
    BY <1>1, <2>4 DEF T
<1>7. S \subseteq below[N]
  <2> DEFINE T == {n \in Nat : n <= N => S \subseteq below[n]}
  <2>1. 0 \in T
    BY <1>2
  <2>2. ASSUME NEW n \in Nat, n \in T PROVE n + 1 \in T
    <3>1. CASE n + 1 <= N
      BY <1>4, <2>2, <3>1 DEF Below
    <3> QED
      BY <3>1
  <2> HIDE DEF T
  <2>3. N \in T
    BY <1>1, <2>1, <2>2, NatInducts
  <2> QED
    BY <1>1, <2>3 DEF T
<1>8. DownClosed(below[N])
  <2> DEFINE T == {n \in Nat : n <= N => DownClosed(below[n])
                                         \/ /\ IsFiniteSet(below[n])
                                            /\ Cardinality(below[n]) >= n}
  <2>1. \A n \in 0..N : IsFiniteSet(below[n]) /\ Cardinality(below[n]) \in Nat
                        /\ below[n] \subseteq Section
    BY <1>2, TestDesignAssumption, FS_Subset, FS_CardinalityType
  <2>2. 0 \in T
    BY <1>5, <2>1
  <2>3. ASSUME NEW n \in Nat, n \in T PROVE n + 1 \in T
    <3> SUFFICES ASSUME n + 1 <= N
                 PROVE  DownClosed(below[n + 1]) \/ Cardinality(below[n + 1]) >= n + 1
      BY <1>4, <2>1
    <3>1. /\ n <= N /\ n \in 0..N /\ n + 1 \in 0..N
          /\ below[n + 1] = Below(below[n])
      BY <1>4
    <3>2. CASE DownClosed(below[n])
      <4>1. below[n + 1] = below[n]
        BY <3>1, <3>2 DEF DownClosed, Below
      <4> QED
        BY <3>2, <4>1
    <3>3. CASE ~DownClosed(below[n])
      <4>1. Cardinality(below[n]) >= n
        BY <2>3, <3>1, <3>3
      <4>2. below[n] \subseteq below[n + 1] /\ below[n] # below[n + 1]
        BY <3>1, <3>3 DEF DownClosed, Below
      <4>3. Cardinality(below[n]) < Cardinality(below[n + 1])
        BY <2>1, <3>1, <4>2, FS_Subset
      <4> QED
        BY <2>1, <3>1, <4>1, <4>3
    <3> QED
      BY <3>2, <3>3
  <2> HIDE DEF T
  <2>4. N \in T
    BY <1>1, <2>2, <2>3, NatInducts
  <2>5. DownClosed(below[N]) \/ Cardinality(below[N]) >= N
    BY <1>1, <2>4 DEF T
  <2>6. CASE Cardinality(below[N]) >= N
    <3>1. below[N] = Section
      BY <1>1, <1>3, <1>5, <2>1, <2>6, TestDesignAssumption, FS_Subset
    <3> QED
      BY <3>1 DEF DownClosed
  <2> QED
    BY <2>5, <2>6
<1> QED
  BY <1>2, <1>5, <1>6, <1>7, <1>8

\* Whatever is below S is in S, or directly below something that is.
LEMMA DescendantsBack ==
    ASSUME NEW S \in SUBSET Section, NEW t \in Descendants(S)
    PROVE  t \in S \/ (LiveSection(t) /\ sections[t].parent \in Descendants(S))
<1> DEFINE X == S \cup {x \in Section : LiveSection(x) /\ sections[x].parent \in Descendants(S)}
<1>1. X \subseteq Descendants(S)
  BY DescendantsLeast DEF DownClosed
<1>2. DownClosed(X)
  BY <1>1 DEF DownClosed
<1> HIDE DEF X
<1>3. S \subseteq X
  BY DEF X
<1>4. t \in X
  BY <1>2, <1>3, DescendantsLeast
<1> QED
  BY <1>4 DEF X

-----------------------------------------------------------------------------
(* The reads, and the theorem about the types.                             *)

LEMMA ReadsTyped ==
    ASSUME TInv, NEW r \in Request,
           \/ SectionParent(r) \/ MoveParent(r) \/ MoveCheck(r) \/ SectionsList(r)
           \/ CaseSection(r) \/ EditSection(r) \/ ReplaceInsert(r)
           \/ DeleteSteps(r, "edit_delete", "edit_wait", "edit_insert")
           \/ DeleteSteps(r, "replace_delete", "replace_wait", "replace_insert")
    PROVE  TInv'
<1>1. Formed(requests[r])
  BY DEF TInv, Calls
<1> USE DEF Step, ToPlace, OnSection, OnCase, WithSteps
<1>2. CASE SectionParent(r)
  BY <1>1, <1>2, GoesOn, CheckTyped DEF SectionParent, Formed
<1>3. CASE MoveParent(r) \/ MoveCheck(r)
  BY <1>1, <1>3, GoesOn, CheckTyped DEF MoveParent, MoveCheck, Formed
<1>4. CASE SectionsList(r)
  <2>1. requests[r].row \in Section
    BY <1>1, <1>4 DEF SectionsList, Formed
  <2>2. Descendants({requests[r].row}) \in SUBSET Section
    BY <2>1, DescendantsLeast
  <2>3. Formed([requests[r] EXCEPT !.pc = "sections_delete",
                                   !.ids = Descendants({requests[r].row})])
    BY <2>1, <2>2, GoesOn
  <2> QED
    BY <1>4, <2>3, CheckTyped DEF SectionsList
<1>5. CASE CaseSection(r) \/ EditSection(r)
  BY <1>1, <1>5, GoesOn, CheckTyped DEF CaseSection, EditSection, Formed
<1>6. CASE ReplaceInsert(r)
  BY <1>1, <1>6, GoesOn, CheckTyped DEF ReplaceInsert, Formed
<1>7. ASSUME NEW from \in OnCase \cap WithSteps, NEW wait \in OnCase \cap WithSteps,
             NEW next \in OnCase \cap WithSteps, DeleteSteps(r, from, wait, next)
      PROVE  TInv'
  <2>1. requests[r].row \in Case /\ requests[r].list \in List
    BY <1>1, <1>7 DEF DeleteSteps, Formed
  <2>2. /\ Formed([requests[r] EXCEPT !.pc = wait])
        /\ \A holds \in BOOLEAN : Formed([requests[r] EXCEPT !.pc = next, !.holds = holds])
    BY <2>1, GoesOn
  <2> QED
    BY <1>7, <2>2, CheckTyped DEF DeleteSteps
<1> QED
  BY <1>2, <1>3, <1>4, <1>5, <1>6, <1>7

LEMMA TypesStay == TInv /\ [Next]_vars => TInv'
<1> SUFFICES ASSUME TInv, [Next]_vars PROVE TInv'
  OBVIOUS
<1>1. ASSUME NEW r \in Request, Start(r) PROVE TInv'
  BY <1>1, StartTyped
<1>2. ASSUME NEW r \in Request, Continue(r) PROVE TInv'
  BY <1>2, SuitesTyped, SectionsTyped, CasesTyped, ReadsTyped DEF Continue
<1>3. ASSUME NEW r \in Request, Crash(r) PROVE TInv'
  BY <1>3, FinishTyped, RowsStay DEF TInv, Crash, Finish, Rows
<1>4. CASE UNCHANGED vars
  BY <1>4 DEF vars, tables, history, TInv, Rows, Calls
<1> QED
  BY <1>1, <1>2, <1>3, <1>4 DEF Next

\* The tables at first, when they are of a suite u named n and some old rows.
Initially(u, n, old) ==
    /\ suites = [v \in Suite |-> IF v = u THEN [life |-> "live", name |-> n] ELSE NoSuite]
    /\ sections = [s \in Section |->
          IF s \in old THEN [life |-> "live", suite |-> u, parent |-> Root] ELSE NoSection]
    /\ cases = [c \in Case |->
          IF c \in old THEN [NoCase EXCEPT !.life = "live", !.suite = u, !.version = 1]
          ELSE NoCase]
    /\ requests = [r \in Request |-> Idle]
    /\ served = 0 /\ stray = {} /\ moved = {} /\ crossed = {}
    /\ asked = [c \in Case |-> Empty]

LEMMA InitShape ==
    ASSUME Init
    PROVE  \E u \in Suite, n \in Name, old \in SUBSET (Section \cup Case) :
              Initially(u, n, old)
<1> DEFINE u == CHOOSE v \in Suite : TRUE
           n == CHOOSE m \in Name : TRUE
<1>1. u \in Suite /\ n \in Name
  BY TestDesignAssumption
<1>2. \E old \in SUBSET (Section \cup Case) : Initially(u, n, old)
  BY DEF Init, Initially
<1> HIDE DEF u, n
<1> QED
  BY <1>1, <1>2

LEMMA TypesHold == Spec => []TInv
<1>1. Init => TInv
  <2> USE DEF Initially
  <2> SUFFICES ASSUME Init PROVE TInv
    OBVIOUS
  <2>1. PICK u \in Suite, n \in Name, old \in SUBSET (Section \cup Case) :
             Initially(u, n, old)
    BY InitShape
  <2>2. Initially(u, n, old)
    BY <2>1
  <2>3. /\ NoSuite \in [life: Life, name: Name \cup {Nothing}] /\ NoSection \in SectionRow
        /\ NoCase \in CaseRow
    BY DEF NoSuite, NoSection, NoCase, Life, SectionRow, CaseRow, Place, List
  <2>4. /\ [life |-> "live", name |-> n] \in [life: Life, name: Name \cup {Nothing}]
        /\ [life |-> "live", suite |-> u, parent |-> Root] \in SectionRow
        /\ [NoCase EXCEPT !.life = "live", !.suite = u, !.version = 1] \in CaseRow
    BY <2>1, <2>3 DEF Life, SectionRow, CaseRow, Place
  <2>5. \A v, w \in Suite : suites[v].name = suites[w].name /\ suites[v] # NoSuite => v = w
    BY <2>1, <2>2, TestDesignAssumption DEF NoSuite
  <2>6. Calls
    BY <2>2, IdleFormed DEF Calls, Formed
  <2>7. Rows
    BY <2>2, <2>3, <2>4, <2>5, TestDesignAssumption DEF Rows, SectionRow, CaseRow, List
  <2> QED
    BY <2>6, <2>7 DEF TInv
<1> QED
  BY <1>1, TypesStay, PTL DEF Spec

\* TypeOK: among the rest, no two suites ever had one name.
THEOREM TypeCorrect == Spec => []TypeOK
<1>1. TInv => TypeOK
  BY DEF TInv, Rows, Calls, TypeOK
<1> QED
  BY <1>1, TypesHold, PTL

-----------------------------------------------------------------------------
(* Places.                                                                 *)

SectionsPlaced ==
    \A s \in Section \ stray : LiveSection(s) =>
        LiveSuite(sections[s].suite) /\ Found(sections[s].parent, sections[s].suite)

CasesPlaced ==
    \A c \in Case \ stray : LiveCase(c) =>
        LiveSuite(cases[c].suite) /\ Found(cases[c].section, cases[c].suite)

\* No live sections have each its parent among them, unless one of them is stray.
Rooted ==
    \A C \in SUBSET (Section \ stray) :
        (\A t \in C : LiveSection(t) /\ sections[t].parent \in C) => C = {}

PInv == SectionsPlaced /\ CasesPlaced /\ Rooted

\* Steps that change no suite and no section.
LEMMA CasesStayPlaced ==
    ASSUME TInv, TInv', PInv, UNCHANGED <<suites, sections>>, stray \subseteq stray',
           \A c \in Case \ stray' : LiveCase(c)' =>
              \/ LiveCase(c) /\ cases'[c].suite = cases[c].suite
                 /\ (cases'[c].section = cases[c].section
                     \/ Found(cases'[c].section, cases[c].suite))
              \/ LiveSuite(cases'[c].suite) /\ Found(cases'[c].section, cases'[c].suite)
    PROVE  PInv'
<1>1. SectionsPlaced' /\ Rooted'
  BY DEF PInv, SectionsPlaced, Rooted, LiveSection, LiveSuite, Found
<1>2. CasesPlaced'
  BY DEF PInv, CasesPlaced, LiveSection, LiveSuite, Found
<1> QED
  BY <1>1, <1>2 DEF PInv

LEMMA CaseStepsPlaced ==
    ASSUME TInv, TInv', PInv, NEW r \in Request,
           \/ CaseWrite(r) \/ CaseDelete(r) \/ EditRow(r) \/ EditInsert(r) \/ ReplaceRow(r)
           \/ \E c \in Case : CaseInsert(r, c)
    PROVE  PInv'
<1> DEFINE c == requests[r].row
<1>1. /\ Formed(requests[r]) /\ cases \in [Case -> CaseRow]
      /\ requests[r] \in RequestState
  BY DEF TInv, Calls, Rows, CaseRow
<1>2. CASE CaseWrite(r) \/ CaseDelete(r) \/ ReplaceRow(r)
  <2>1. c \in Case
    BY <1>1, <1>2 DEF Formed, OnCase, CaseWrite, CaseDelete, ReplaceRow
  <2>2. UNCHANGED <<suites, sections, stray>>
    BY <1>2 DEF CaseWrite, CaseDelete, ReplaceRow, history
  <2>3. \A d \in Case : LiveCase(d)' => LiveCase(d) /\ cases'[d].suite = cases[d].suite
                                                     /\ cases'[d].section = cases[d].section
    <3>1. CASE cases' = cases
      BY <3>1 DEF LiveCase
    <3>2. CASE cases' = [cases EXCEPT ![c].archived = requests[r].archived]
      BY <1>1, <2>1, <3>2 DEF LiveCase, CaseRow
    <3>3. CASE cases' = [cases EXCEPT ![c].life = "deleted"]
      BY <1>1, <2>1, <3>3 DEF LiveCase, CaseRow
    <3>4. CASE cases' = [cases EXCEPT ![c].steps = Rewritten(r),
                                      ![c].version = IF LiveCase(c) THEN @ + 1 ELSE @]
      BY <1>1, <2>1, <3>4 DEF LiveCase, CaseRow
    <3> QED
      BY <1>2, <3>1, <3>2, <3>3, <3>4 DEF CaseWrite, CaseDelete, ReplaceRow
  <2> QED
    BY <2>2, <2>3, CasesStayPlaced
<1>3. CASE EditRow(r) \/ EditInsert(r)
  <2>1. c \in Case
    BY <1>1, <1>3 DEF Formed, OnCase, EditRow, EditInsert
  <2>2. CASE cases' = cases /\ stray' = stray
    <3>1. UNCHANGED <<suites, sections, stray>>
      BY <1>3, <2>2 DEF EditRow, EditInsert
    <3> QED
      BY <2>2, <3>1, CasesStayPlaced DEF LiveCase
  <2>3. CASE /\ \/ cases' = [cases EXCEPT ![c] = Edited(c, requests[r])]
                \/ cases' = [cases EXCEPT ![c] =
                                [Edited(c, requests[r]) EXCEPT !.steps = Rewritten(r)]]
             /\ stray' = stray \cup Lost(c, requests[r])
    <3>1. UNCHANGED <<suites, sections>>
      BY <1>3 DEF EditRow, EditInsert
    <3>2. /\ Edited(c, requests[r]).suite = cases[c].suite
          /\ Edited(c, requests[r]).life = cases[c].life
          /\ Edited(c, requests[r]).section =
                IF requests[r].place = Nothing THEN cases[c].section ELSE requests[r].place
      BY <1>1, <2>1 DEF Edited, CaseRow
    <3>3. Edited(c, requests[r]) \in CaseRow
      BY <2>1, EditTyped
    <3>4. /\ \A d \in Case \ {c} : cases'[d] = cases[d]
          /\ cases'[c].suite = cases[c].suite /\ cases'[c].life = cases[c].life
          /\ cases'[c].section =
                IF requests[r].place = Nothing THEN cases[c].section ELSE requests[r].place
      BY <1>1, <2>1, <2>3, <3>2, <3>3 DEF CaseRow
    <3>5. c \notin stray' => \/ requests[r].place = Nothing
                             \/ Found(requests[r].place, cases[c].suite)
      BY <2>3 DEF Lost
    <3> QED
      BY <2>1, <2>3, <3>1, <3>4, <3>5, CasesStayPlaced DEF LiveCase
  <2> QED
    <3>1. CASE EditRow(r)
      BY <2>2, <2>3, <3>1 DEF EditRow, Check, history, tables
    <3>2. CASE EditInsert(r)
      BY <2>2, <2>3, <3>2 DEF EditInsert, history
    <3> QED
      BY <1>3, <3>1, <3>2
<1>4. ASSUME NEW d \in Case, CaseInsert(r, d) PROVE PInv'
  <2> DEFINE u == requests[r].suite
             p == requests[r].place
  <2>1. /\ UNCHANGED <<suites, sections>>
        /\ stray' = IF LiveSuite(u) /\ Found(p, u) THEN stray ELSE stray \cup {d}
        /\ cases' = [cases EXCEPT ![d] =
              [life |-> "live", suite |-> u, section |-> p,
               archived |-> FALSE, version |-> 1, steps |-> requests[r].list]]
    BY <1>4 DEF CaseInsert
  <2>2. /\ \A x \in Case \ {d} : cases'[x] = cases[x]
        /\ cases'[d].suite = u /\ cases'[d].section = p
    BY <1>1, <2>1
  <2>3. d \notin stray' => LiveSuite(u) /\ Found(p, u)
    BY <2>1
  <2>4. stray \subseteq stray'
    BY <2>1
  <2> HIDE DEF u, p
  <2> QED
    BY <2>1, <2>2, <2>3, <2>4, CasesStayPlaced DEF LiveCase
<1> QED
  BY <1>2, <1>3, <1>4

LEMMA SuiteStepsPlaced ==
    ASSUME TInv, TInv', PInv, NEW r \in Request,
           SuiteRename(r) \/ SuiteDelete(r) \/ \E u \in Suite : SuiteInsert(r, u)
    PROVE  PInv'
<1>1. /\ Formed(requests[r]) /\ cases \in [Case -> CaseRow] /\ stray' = stray
      /\ sections \in [Section -> SectionRow]
      /\ suites \in [Suite -> [life: Life, name: Name \cup {Nothing}]]
  BY DEF TInv, Calls, Rows, CaseRow, SectionRow, SuiteRename, SuiteDelete, SuiteInsert, history
<1>2. CASE UNCHANGED <<sections, cases>> /\ \A u \in Suite : LiveSuite(u) => LiveSuite(u)'
  <2>1. \A s \in Section : sections[s].suite \in Suite \cup {Nothing}
    BY <1>1 DEF SectionRow
  <2>2. \A c \in Case : cases[c].suite \in Suite \cup {Nothing}
    BY <1>1 DEF CaseRow
  <2>3. \A u \in Suite \cup {Nothing} : LiveSuite(u) => LiveSuite(u)'
    BY <1>2 DEF LiveSuite
  <2> QED
    BY <1>1, <1>2, <2>1, <2>2, <2>3
       DEF PInv, SectionsPlaced, CasesPlaced, Rooted, LiveSection, LiveCase, Found
<1>3. CASE SuiteRename(r)
  <2>1. requests[r].row \in Suite /\ requests[r].name \in Name
    BY <1>1, <1>3 DEF Formed, SuiteRename
  <2>2. \A u \in Suite : suites'[u].life = suites[u].life
    BY <1>1, <1>3, <2>1 DEF SuiteRename
  <2> QED
    BY <1>2, <1>3, <2>2 DEF SuiteRename, LiveSuite
<1>4. ASSUME NEW u \in Suite, SuiteInsert(r, u) PROVE PInv'
  <2>1. \A v \in Suite : LiveSuite(v) => LiveSuite(v)'
    BY <1>1, <1>4 DEF SuiteInsert, LiveSuite, NoSuite
  <2> QED
    BY <1>2, <1>4, <2>1 DEF SuiteInsert
<1>5. CASE SuiteDelete(r)
  <2> DEFINE u == requests[r].row
  <2>1. u \in Suite
    BY <1>1, <1>5 DEF Formed, SuiteDelete
  <2>2. CASE ~LiveSuite(u)
    BY <1>2, <1>5, <2>2 DEF SuiteDelete, tables, LiveSuite
  <2>3. CASE LiveSuite(u)
    <3>1. /\ suites' = [suites EXCEPT ![u].life = "deleted"]
          /\ sections' = [s \in Section |-> Ended(sections[s], u)]
          /\ cases' = [c \in Case |-> Ended(cases[c], u)]
      BY <1>5, <2>3 DEF SuiteDelete
    <3>2. \A s \in Section :
            /\ sections'[s].suite = sections[s].suite /\ sections'[s].parent = sections[s].parent
            /\ sections'[s].life = "live" <=> sections[s].life = "live" /\ sections[s].suite # u
      BY <1>1, <3>1 DEF Ended, SectionRow
    <3>3. \A c \in Case :
            /\ cases'[c].suite = cases[c].suite /\ cases'[c].section = cases[c].section
            /\ cases'[c].life = "live" <=> cases[c].life = "live" /\ cases[c].suite # u
      BY <1>1, <3>1 DEF Ended, CaseRow
    <3>4. \A v : v # u /\ v \in Suite => suites'[v] = suites[v]
      BY <1>1, <3>1
    <3>5. \A s \in Section : sections[s].parent \in Section \cup {Root}
                             /\ sections[s].suite \in Suite \cup {Nothing}
      BY <1>1 DEF SectionRow, Place
    <3>6. \A c \in Case : cases[c].section \in Section \cup {Root}
                          /\ cases[c].suite \in Suite \cup {Nothing}
      BY <1>1 DEF CaseRow, Place
    <3>7. SectionsPlaced'
      BY <1>1, <3>2, <3>4, <3>5 DEF PInv, SectionsPlaced, LiveSection, LiveSuite, Found
    <3>8. CasesPlaced'
      BY <1>1, <3>2, <3>3, <3>4, <3>6 DEF PInv, CasesPlaced, LiveSection, LiveCase, LiveSuite, Found
    <3>9. Rooted'
      BY <1>1, <3>2 DEF PInv, Rooted, LiveSection
    <3> QED
      BY <3>7, <3>8, <3>9 DEF PInv
  <2> QED
    BY <2>2, <2>3
<1> QED
  BY <1>3, <1>4, <1>5

\* A new row is no member of a closed set: nothing is below it yet.
LEMMA InsertPlaced ==
    ASSUME TInv, TInv', PInv, NEW r \in Request, NEW s \in Section, SectionInsert(r, s)
    PROVE  PInv'
<1> DEFINE u == requests[r].suite
           p == requests[r].place
           new == [life |-> "live", suite |-> u, parent |-> p]
<1>1. /\ sections \in [Section -> SectionRow] /\ cases \in [Case -> CaseRow]
      /\ sections[s] = NoSection /\ UNCHANGED <<suites, cases>>
      /\ sections' = [sections EXCEPT ![s] = new]
      /\ stray' = IF LiveSuite(u) /\ Found(p, u) THEN stray ELSE stray \cup {s}
  BY DEF TInv, Rows, SectionRow, CaseRow, SectionInsert
<1>2. ~LiveSection(s)
  BY <1>1 DEF LiveSection, NoSection
<1>3. /\ \A t \in Section \ {s} : sections'[t] = sections[t]
      /\ sections'[s].suite = u /\ sections'[s].parent = p
  BY <1>1
<1>4. s \notin stray' => LiveSuite(u) /\ Found(p, u) /\ p # s
  BY <1>1, <1>2, TestDesignAssumption DEF Found
<1>5. stray \subseteq stray'
  BY <1>1
<1>6. \A t \in Section : sections[t].parent \in Section \cup {Root}
  BY <1>1 DEF SectionRow, Place
<1>7. p \in Section \cup {Root}
  BY DEF TInv, Calls, Formed, SectionInsert, ToPlace, Place
<1> HIDE DEF u, p, new
<1>8. \A q \in Section \cup {Root} : \A v : Found(q, v) => Found(q, v)'
  BY <1>2, <1>3 DEF Found, LiveSection
<1>9. \A v : LiveSuite(v)' <=> LiveSuite(v)
  BY <1>1 DEF LiveSuite
<1>10. SectionsPlaced'
  BY <1>3, <1>4, <1>5, <1>6, <1>7, <1>8, <1>9 DEF PInv, SectionsPlaced, LiveSection
<1>11. CasesPlaced'
  <2>1. \A c \in Case : cases[c].section \in Section \cup {Root}
    BY <1>1 DEF CaseRow, Place
  <2> QED
    BY <1>1, <1>5, <1>8, <1>9, <2>1 DEF PInv, CasesPlaced, LiveCase
<1>12. Rooted'
  <2> SUFFICES ASSUME NEW C \in SUBSET (Section \ stray'),
                      \A t \in C : LiveSection(t)' /\ sections'[t].parent \in C
               PROVE  C = {}
    BY DEF Rooted
  <2> DEFINE D == C \ {s}
  <2>1. ASSUME NEW t \in D PROVE LiveSection(t) /\ sections[t].parent \in D
    <3>1. t \in Section \ stray /\ LiveSection(t) /\ sections[t].parent \in C
      BY <1>3, <1>5 DEF LiveSection
    <3>2. Found(sections[t].parent, sections[t].suite)
      BY <3>1 DEF PInv, SectionsPlaced
    <3>3. sections[t].parent # s
      BY <1>2, <3>2, TestDesignAssumption DEF Found
    <3> QED
      BY <3>1, <3>3
  <2>2. D \in SUBSET (Section \ stray)
    BY <1>5
  <2> HIDE DEF D
  <2>3. D = {}
    BY <2>1, <2>2 DEF PInv, Rooted
  <2>4. s \notin C
    BY <1>3, <1>4, <2>3 DEF D
  <2> QED
    BY <2>3, <2>4 DEF D
<1> QED
  BY <1>10, <1>11, <1>12 DEF PInv

\* The part of a closed set that is not below the section moved was closed before.
LEMMA WritePlaced ==
    ASSUME TInv, TInv', PInv, NEW r \in Request, SectionWrite(r)
    PROVE  PInv'
<1> DEFINE s == requests[r].row
           p == requests[r].place
<1>1. /\ sections \in [Section -> SectionRow] /\ cases \in [Case -> CaseRow]
      /\ s \in Section /\ p \in Section \cup {Root} /\ UNCHANGED <<suites, cases>>
  BY DEF TInv, Rows, SectionRow, CaseRow, Calls, Formed, OnSection, ToPlace, Place, SectionWrite
<1>2. CASE ~LiveSection(s)
  BY <1>1, <1>2 DEF SectionWrite, PInv, SectionsPlaced, CasesPlaced, Rooted, LiveSection,
                    LiveCase, LiveSuite, Found
<1>3. CASE LiveSection(s)
  <2>1. /\ sections' = [sections EXCEPT ![s].parent = p]
        /\ stray' = IF Found(p, sections[s].suite) /\ p \notin Descendants({s})
                    THEN stray ELSE stray \cup {s}
    BY <1>3 DEF SectionWrite
  <2>2. /\ \A t \in Section \ {s} : sections'[t] = sections[t]
        /\ sections'[s].parent = p /\ sections'[s].life = sections[s].life
        /\ sections'[s].suite = sections[s].suite
    BY <1>1, <2>1 DEF SectionRow
  <2>3. /\ stray \subseteq stray'
        /\ s \notin stray' => Found(p, sections[s].suite) /\ p \notin Descendants({s})
    BY <2>1
  <2> HIDE DEF s, p
  <2>4. \A t \in Section : LiveSection(t)' <=> LiveSection(t)
    BY <2>2 DEF LiveSection
  <2>5. \A q \in Section \cup {Root} : \A v : Found(q, v) => Found(q, v)'
    BY <2>2, <2>4 DEF Found
  <2>6. \A v : LiveSuite(v)' <=> LiveSuite(v)
    BY <1>1 DEF LiveSuite
  <2>7. \A t \in Section : sections[t].parent \in Section \cup {Root}
    BY <1>1 DEF SectionRow, Place
  <2>8. SectionsPlaced'
    BY <1>1, <2>2, <2>3, <2>4, <2>5, <2>6, <2>7 DEF PInv, SectionsPlaced
  <2>9. CasesPlaced'
    <3>1. \A c \in Case : cases[c].section \in Section \cup {Root}
      BY <1>1 DEF CaseRow, Place
    <3> QED
      BY <1>1, <2>3, <2>5, <2>6, <3>1 DEF PInv, CasesPlaced, LiveCase
  <2>10. Rooted'
    <3> SUFFICES ASSUME NEW C \in SUBSET (Section \ stray'),
                        \A t \in C : LiveSection(t)' /\ sections'[t].parent \in C
                 PROVE  C = {}
      BY DEF Rooted
    <3> DEFINE D == C \ Descendants({s})
    <3>1. s \in Descendants({s}) /\ DownClosed(Descendants({s}))
      BY <1>1, DescendantsLeast
    <3>2. ASSUME NEW t \in D PROVE LiveSection(t) /\ sections[t].parent \in D
      <4>1. t \in Section /\ t # s /\ LiveSection(t) /\ sections[t].parent \in C
        BY <2>2, <2>4, <3>1
      <4> QED
        BY <3>1, <4>1 DEF DownClosed
    <3>3. D \in SUBSET (Section \ stray)
      BY <2>3
    <3> HIDE DEF D
    <3>4. D = {}
      BY <3>2, <3>3 DEF PInv, Rooted
    <3>5. CASE s \in C
      <4>1. p \in C /\ p \notin Descendants({s})
        BY <2>2, <2>3, <3>5
      <4> QED
        BY <3>4, <4>1 DEF D
    <3>6. CASE s \notin C
      <4>1. C \in SUBSET (Section \ stray)
            /\ \A t \in C : LiveSection(t) /\ sections[t].parent \in C
        BY <2>2, <2>3, <2>4, <3>6
      <4> QED
        BY <4>1 DEF PInv, Rooted
    <3> QED
      BY <3>5, <3>6
  <2> QED
    BY <2>8, <2>9, <2>10 DEF PInv
<1> QED
  BY <1>2, <1>3

LEMMA SectionsDeletePlaced ==
    ASSUME TInv, TInv', PInv, NEW r \in Request, SectionsDelete(r)
    PROVE  PInv'
<1> DEFINE ids == requests[r].ids
<1>1. /\ sections \in [Section -> SectionRow] /\ cases \in [Case -> CaseRow]
      /\ suites' = suites
      /\ sections' = [s \in Section |->
               IF s \in ids THEN [sections[s] EXCEPT !.life = "deleted"] ELSE sections[s]]
      /\ cases' = [c \in Case |->
               IF LiveCase(c) /\ cases[c].section \in ids
               THEN [cases[c] EXCEPT !.section = Root] ELSE cases[c]]
      /\ stray' = stray \cup {s \in Section \ ids : LiveSection(s) /\ sections[s].parent \in ids}
      /\ ids \subseteq Section
  BY DEF TInv, Rows, SectionRow, CaseRow, SectionsDelete, Calls, RequestState
<1> HIDE DEF ids
<1>2. \A s \in Section :
          /\ sections'[s].suite = sections[s].suite /\ sections'[s].parent = sections[s].parent
          /\ LiveSection(s)' <=> LiveSection(s) /\ s \notin ids
  BY <1>1 DEF SectionRow, LiveSection
<1>3. \A c \in Case :
          /\ cases'[c].suite = cases[c].suite /\ (LiveCase(c)' <=> LiveCase(c))
          /\ cases'[c].section = IF LiveCase(c) /\ cases[c].section \in ids THEN Root
                                 ELSE cases[c].section
  BY <1>1 DEF CaseRow, LiveCase
<1>4. \A q \in Section \cup {Root} : \A v : Found(q, v) /\ q \notin ids => Found(q, v)'
  BY <1>2 DEF Found
<1>5. \A v : LiveSuite(v)' <=> LiveSuite(v)
  BY <1>1 DEF LiveSuite
<1>6. /\ \A t \in Section : sections[t].parent \in Section \cup {Root}
      /\ \A c \in Case : cases[c].section \in Section \cup {Root}
  BY <1>1 DEF SectionRow, CaseRow, Place
<1>7. SectionsPlaced'
  BY <1>1, <1>2, <1>4, <1>5, <1>6 DEF PInv, SectionsPlaced
<1>8. CasesPlaced'
  <2>1. \A v : Found(Root, v)'
    BY DEF Found
  <2> QED
    BY <1>1, <1>3, <1>4, <1>5, <1>6, <2>1 DEF PInv, CasesPlaced
<1>9. Rooted'
  BY <1>1, <1>2 DEF PInv, Rooted
<1> QED
  BY <1>7, <1>8, <1>9 DEF PInv

\* The reads, and the steps a request begins or breaks off with.
LEMMA QuietSteps ==
    ASSUME NEW r \in Request,
           \/ Start(r) \/ Crash(r)
           \/ SectionParent(r) \/ MoveParent(r) \/ MoveCheck(r) \/ SectionsList(r)
           \/ CaseSection(r) \/ EditSection(r) \/ ReplaceInsert(r)
           \/ DeleteSteps(r, "edit_delete", "edit_wait", "edit_insert")
           \/ DeleteSteps(r, "replace_delete", "replace_wait", "replace_insert")
    PROVE  UNCHANGED <<tables, history>>
<1>1. CASE Start(r)
  BY <1>1 DEF Start, CreateSuite, UpdateSuite, DeleteSuite, CreateSection, CreateCase,
              DeleteSection, MoveSection, ArchiveCase, RestoreCase, DeleteCase,
              DuplicateCase, UpdateCase, ReplaceSteps, Begin
<1>2. CASE Crash(r)
  BY <1>2 DEF Crash
<1>3. CASE \/ SectionParent(r) \/ MoveParent(r) \/ MoveCheck(r) \/ SectionsList(r)
           \/ CaseSection(r) \/ EditSection(r) \/ ReplaceInsert(r)
           \/ DeleteSteps(r, "edit_delete", "edit_wait", "edit_insert")
           \/ DeleteSteps(r, "replace_delete", "replace_wait", "replace_insert")
  BY <1>3 DEF SectionParent, MoveParent, MoveCheck, SectionsList, CaseSection, EditSection,
              ReplaceInsert, DeleteSteps, Check
<1> QED
  BY <1>1, <1>2, <1>3

LEMMA PlacesStay == TInv /\ TInv' /\ PInv /\ [Next]_vars => PInv'
<1> SUFFICES ASSUME TInv, TInv', PInv, [Next]_vars PROVE PInv'
  OBVIOUS
<1>1. CASE UNCHANGED <<tables, history>>
  BY <1>1 DEF tables, history, PInv, SectionsPlaced, CasesPlaced, Rooted, LiveSection,
              LiveCase, LiveSuite, Found
<1>2. ASSUME NEW r \in Request, Start(r) \/ Crash(r) PROVE PInv'
  BY <1>1, <1>2, QuietSteps
<1>3. ASSUME NEW r \in Request, Continue(r) PROVE PInv'
  BY <1>1, <1>3, QuietSteps, SuiteStepsPlaced, CaseStepsPlaced, InsertPlaced, WritePlaced,
     SectionsDeletePlaced DEF Continue
<1>4. CASE UNCHANGED vars
  BY <1>1, <1>4 DEF vars
<1> QED
  BY <1>2, <1>3, <1>4 DEF Next

LEMMA PlacesHold == Spec => [](TInv /\ PInv)
<1>1. Init => PInv
  <2> SUFFICES ASSUME Init PROVE PInv
    OBVIOUS
  <2>1. PICK u \in Suite, n \in Name, old \in SUBSET (Section \cup Case) :
             Initially(u, n, old)
    BY InitShape
  <2>2. Initially(u, n, old)
    BY <2>1
  <2>3. /\ LiveSuite(u)
        /\ \A s \in Section : sections[s].parent = Root /\ (LiveSection(s) => sections[s].suite = u)
        /\ \A c \in Case : cases[c].section = Root /\ (LiveCase(c) => cases[c].suite = u)
    BY <2>1, <2>2, TestDesignAssumption
       DEF Initially, LiveSuite, LiveSection, LiveCase, NoSection, NoCase
  <2>4. SectionsPlaced /\ CasesPlaced
    BY <2>3 DEF SectionsPlaced, CasesPlaced, Found
  <2>5. Rooted
    BY <2>3, TestDesignAssumption DEF Rooted
  <2> QED
    BY <2>4, <2>5 DEF PInv
<1> QED
  BY <1>1, PlacesStay, TypesHold, PTL DEF Spec

\* A section on a cycle is on one with a stray section: the cycle is a closed set.
LEMMA CyclesHaveStrays ==
    ASSUME TInv, Rooted, NEW s \in Section, OnCycle(s)
    PROVE  \E t \in stray : OnCycle(t)
<1> DEFINE Kids(t) == {x \in Section : LiveSection(x) /\ sections[x].parent = t}
           C == {t \in Descendants(Kids(s)) : s \in Descendants(Kids(t))}
<1>1. s \in Descendants(Kids(s)) /\ LiveSection(s)
  BY DEF OnCycle
<1>2. \A t : Kids(t) \in SUBSET Section
  OBVIOUS
<1>3. \A t : /\ Kids(t) \subseteq Descendants(Kids(t)) /\ Descendants(Kids(t)) \subseteq Section
             /\ DownClosed(Descendants(Kids(t)))
  BY <1>2, DescendantsLeast
<1>4. \A t : \A x \in Section : x \in Descendants(Kids(t)) =>
          Descendants(Kids(x)) \subseteq Descendants(Kids(t))
  <2>1. ASSUME NEW t, NEW x \in Section, x \in Descendants(Kids(t))
        PROVE  Descendants(Kids(x)) \subseteq Descendants(Kids(t))
    <3>1. Kids(x) \subseteq Descendants(Kids(t))
      BY <1>3, <2>1 DEF DownClosed
    <3> QED
      BY <1>2, <1>3, <3>1, DescendantsLeast
  <2> QED
    BY <2>1
<1>5. ASSUME NEW t \in C PROVE LiveSection(t) /\ sections[t].parent \in C
  <2>1. t \in Kids(s) \/ (LiveSection(t) /\ sections[t].parent \in Descendants(Kids(s)))
    BY <1>2, DescendantsBack
  <2>2. LiveSection(t) /\ t \in Section
    BY <1>3, <2>1
  <2>3. sections[t].parent = s \/ sections[t].parent \in Descendants(Kids(s))
    BY <2>1
  <2>4. sections[t].parent \in Descendants(Kids(s))
    BY <1>1, <2>3
  <2>5. t \in Descendants(Kids(sections[t].parent))
    BY <1>3, <2>2
  <2>6. s \in Descendants(Kids(sections[t].parent))
    BY <1>4, <2>2, <2>5
  <2> QED
    BY <2>2, <2>4, <2>6
<1>6. s \in C /\ C \subseteq Section
  BY <1>1, <1>3
<1> HIDE DEF Kids
<1>7. ~(C \subseteq Section \ stray)
  <2> HIDE DEF C
  <2> QED
    BY <1>5, <1>6 DEF Rooted
<1>8. PICK t \in C : t \in stray
  BY <1>6, <1>7
<1>9. t \in Descendants(Kids(t))
  BY <1>4, <1>6
<1>10. LiveSection(t)
  BY <1>5
<1> QED
  BY <1>8, <1>9, <1>10 DEF OnCycle, Kids

\* EverythingHasAPlace: the handlers of sections hold nothing of what they have
\* checked, and still only a request that was itself overtaken loses its row.
THEOREM EverythingHasAPlaceHolds == Spec => []EverythingHasAPlace
<1>1. TInv /\ PInv => EverythingHasAPlace
  BY CyclesHaveStrays DEF PInv, SectionsPlaced, CasesPlaced, EverythingHasAPlace
<1> QED
  BY <1>1, PlacesHold, PTL

-----------------------------------------------------------------------------
(* Steps and versions.                                                     *)

\* What a step may do to the steps of a case: nothing, insert the case with those
\* that were asked for, or rewrite them, and then the version of a live case too.
StepsUnwritten(c) ==
    /\ cases'[c].steps = cases[c].steps /\ asked'[c] = asked[c]
    /\ crossed \subseteq crossed' /\ (LiveCase(c)' => LiveCase(c))
StepsInserted(c) == ~LiveCase(c) /\ cases'[c].steps = asked'[c]
StepsRewritten(c) ==
    /\ LiveCase(c)' => LiveCase(c)
    /\ LiveCase(c) => cases'[c].version > cases[c].version
    /\ cases'[c].steps = asked'[c] \/ (c \in crossed' /\ asked'[c] = Empty)
StepsMove == \A c \in Case : StepsUnwritten(c) \/ StepsInserted(c) \/ StepsRewritten(c)

LEMMA RewritingMoves ==
    ASSUME TInv, NEW r \in Request, EditInsert(r) \/ ReplaceRow(r)
    PROVE  StepsMove
<1>1. /\ Formed(requests[r]) /\ cases \in [Case -> CaseRow] /\ asked \in [Case -> List]
      /\ requests[r] \in RequestState
  BY DEF TInv, Calls, Rows, CaseRow
<1>2. requests[r].row \in Case /\ requests[r].list \in List
  BY <1>1 DEF Formed, OnCase, WithSteps, EditInsert, ReplaceRow
<1>. PICK c \in Case : c = requests[r].row
  BY <1>2
<1>3. ASSUME \A d \in Case \ {c} : cases'[d] = cases[d],
             cases'[c].steps = Rewritten(r), cases'[c].life = cases[c].life,
             LiveCase(c) => cases'[c].version > cases[c].version,
             Remember(r)
      PROVE  StepsMove
  <2>1. /\ asked' = [asked EXCEPT ![c] = requests[r].list]
        /\ crossed' = IF ~requests[r].holds /\ cases[c].steps # Empty THEN crossed \cup {c}
                      ELSE crossed
    BY <1>3 DEF Remember
  <2>2. asked'[c] = requests[r].list /\ \A d \in Case \ {c} : asked'[d] = asked[d]
    BY <1>1, <1>2, <2>1
  <2>3. cases'[c].steps = asked'[c] \/ (c \in crossed' /\ asked'[c] = Empty)
    BY <1>3, <2>1, <2>2 DEF Rewritten
  <2>4. StepsRewritten(c)
    BY <1>3, <2>3 DEF StepsRewritten, LiveCase
  <2>5. \A d \in Case \ {c} : StepsUnwritten(d)
    BY <1>3, <2>1, <2>2 DEF StepsUnwritten, LiveCase
  <2> QED
    BY <2>4, <2>5 DEF StepsMove
<1>4. CASE EditInsert(r)
  <2>1. CASE Refused(r)
    BY <1>4, <2>1 DEF EditInsert, history, StepsMove, StepsUnwritten, LiveCase
  <2>2. CASE ~Refused(r)
    <3>1. /\ cases' = [cases EXCEPT ![c] = [Edited(c, requests[r]) EXCEPT !.steps = Rewritten(r)]]
          /\ Remember(r)
      BY <1>4, <2>2 DEF EditInsert
    <3>2. /\ Edited(c, requests[r]).version = cases[c].version + 1
          /\ Edited(c, requests[r]).life = cases[c].life
      BY <1>1, <1>2 DEF Edited, CaseRow
    <3>3. Edited(c, requests[r]) \in CaseRow
      BY <1>2, EditTyped
    <3>4. /\ \A d \in Case \ {c} : cases'[d] = cases[d]
          /\ cases'[c].steps = Rewritten(r) /\ cases'[c].life = cases[c].life
          /\ cases'[c].version = cases[c].version + 1
      BY <1>1, <1>2, <3>1, <3>2, <3>3 DEF CaseRow
    <3>5. cases'[c].version > cases[c].version
      BY <1>1, <1>2, <3>4 DEF CaseRow
    <3> QED
      BY <1>3, <3>1, <3>4, <3>5
  <2> QED
    BY <2>1, <2>2
<1>5. CASE ReplaceRow(r)
  <2>1. /\ cases' = [cases EXCEPT ![c].steps = Rewritten(r),
                                  ![c].version = IF LiveCase(c) THEN @ + 1 ELSE @]
        /\ Remember(r)
    BY <1>5 DEF ReplaceRow
  <2>2. /\ \A d \in Case \ {c} : cases'[d] = cases[d]
        /\ cases'[c].steps = Rewritten(r) /\ cases'[c].life = cases[c].life
        /\ LiveCase(c) => cases'[c].version = cases[c].version + 1
    BY <1>1, <1>2, <2>1 DEF CaseRow
  <2>3. LiveCase(c) => cases'[c].version > cases[c].version
    BY <1>1, <1>2, <2>2 DEF CaseRow
  <2> QED
    BY <1>3, <2>1, <2>2, <2>3
<1> QED
  BY <1>4, <1>5

LEMMA EveryStepMoves == ASSUME TInv, [Next]_vars PROVE StepsMove
<1>1. cases \in [Case -> CaseRow] /\ asked \in [Case -> List]
  BY DEF TInv, Rows, CaseRow
<1>2. ASSUME UNCHANGED <<asked, crossed>>,
             \A c \in Case : cases'[c].steps = cases[c].steps /\ (LiveCase(c)' => LiveCase(c))
      PROVE  StepsMove
  BY <1>2 DEF StepsMove, StepsUnwritten
<1>3. CASE UNCHANGED <<tables, history>>
  BY <1>2, <1>3 DEF tables, history, LiveCase
<1>4. ASSUME NEW r \in Request, Start(r) \/ Crash(r) PROVE StepsMove
  BY <1>3, <1>4, QuietSteps
<1>5. ASSUME NEW r \in Request, Continue(r) PROVE StepsMove
  <2>1. CASE \/ SuiteRename(r) \/ \E u \in Suite : SuiteInsert(r, u)
             \/ SectionWrite(r) \/ \E s \in Section : SectionInsert(r, s)
    BY <1>2, <2>1 DEF SuiteRename, SuiteInsert, SectionWrite, SectionInsert, history, LiveCase
  <2>2. CASE SuiteDelete(r)
    <3>1. \A c \in Case : \A u :
              /\ Ended(cases[c], u).steps = cases[c].steps
              /\ Ended(cases[c], u).life = "live" => cases[c].life = "live"
      BY <1>1 DEF Ended, CaseRow
    <3>2. cases' = cases \/ \E u : cases' = [c \in Case |-> Ended(cases[c], u)]
      BY <2>2 DEF SuiteDelete, tables
    <3>3. ASSUME NEW u, cases' = [c \in Case |-> Ended(cases[c], u)], NEW c \in Case
          PROVE  cases'[c].steps = cases[c].steps /\ (LiveCase(c)' => LiveCase(c))
      BY <3>1, <3>3 DEF LiveCase
    <3>4. \A c \in Case : cases'[c].steps = cases[c].steps /\ (LiveCase(c)' => LiveCase(c))
      BY <3>2, <3>3 DEF LiveCase
    <3> QED
      BY <1>2, <2>2, <3>4 DEF SuiteDelete, history
  <2>3. CASE SectionsDelete(r)
    <3>1. \A c \in Case : /\ [cases[c] EXCEPT !.section = Root].steps = cases[c].steps
                          /\ [cases[c] EXCEPT !.section = Root].life = cases[c].life
      BY <1>1 DEF CaseRow
    <3> QED
      BY <1>2, <2>3, <3>1 DEF SectionsDelete, LiveCase
  <2>4. CASE CaseWrite(r) \/ CaseDelete(r)
    <3>1. requests[r].row \in Case
      BY <2>4 DEF TInv, Calls, Formed, OnCase, CaseWrite, CaseDelete
    <3>2. UNCHANGED <<asked, crossed>>
      BY <2>4 DEF CaseWrite, CaseDelete, history
    <3>3. CASE cases' = cases
      BY <1>2, <3>2, <3>3 DEF LiveCase
    <3>4. CASE cases' = [cases EXCEPT ![requests[r].row].archived = requests[r].archived]
      BY <1>1, <1>2, <3>1, <3>2, <3>4 DEF LiveCase, CaseRow
    <3>5. CASE cases' = [cases EXCEPT ![requests[r].row].life = "deleted"]
      BY <1>1, <1>2, <3>1, <3>2, <3>5 DEF LiveCase, CaseRow
    <3> QED
      BY <2>4, <3>3, <3>4, <3>5 DEF CaseWrite, CaseDelete
  <2>5. CASE EditRow(r)
    <3>1. requests[r].row \in Case /\ UNCHANGED <<asked, crossed>>
      BY <2>5 DEF TInv, Calls, Formed, OnCase, EditRow
    <3>2. CASE cases' = cases
      BY <1>2, <3>1, <3>2 DEF LiveCase
    <3>3. CASE cases' = [cases EXCEPT ![requests[r].row] = Edited(requests[r].row, requests[r])]
      <4>1. /\ Edited(requests[r].row, requests[r]).steps = cases[requests[r].row].steps
            /\ Edited(requests[r].row, requests[r]).life = cases[requests[r].row].life
        BY <1>1, <3>1 DEF Edited, CaseRow
      <4> QED
        BY <1>1, <1>2, <3>1, <3>3, <4>1 DEF LiveCase
    <3> QED
      BY <2>5, <3>2, <3>3 DEF EditRow, Check, tables
  <2>6. ASSUME NEW c \in Case, CaseInsert(r, c) PROVE StepsMove
    <3>1. /\ cases[c] = NoCase /\ asked' = [asked EXCEPT ![c] = requests[r].list]
          /\ cases' = [cases EXCEPT ![c] =
                [life |-> "live", suite |-> requests[r].suite, section |-> requests[r].place,
                 archived |-> FALSE, version |-> 1, steps |-> requests[r].list]]
          /\ crossed' = crossed
      BY <2>6 DEF CaseInsert
    <3>2. StepsInserted(c)
      BY <1>1, <3>1 DEF StepsInserted, LiveCase, NoCase
    <3>3. \A d \in Case \ {c} : StepsUnwritten(d)
      BY <1>1, <3>1 DEF StepsUnwritten, LiveCase
    <3> QED
      BY <3>2, <3>3 DEF StepsMove
  <2> QED
    BY <1>3, <1>5, <2>1, <2>2, <2>3, <2>4, <2>5, <2>6, QuietSteps, RewritingMoves DEF Continue
<1>6. CASE UNCHANGED vars
  BY <1>3, <1>6 DEF vars
<1> QED
  BY <1>4, <1>5, <1>6 DEF Next

\* StepsAreTheLastAsked: two edits of one case, whichever waits for the other, leave
\* the steps one of them asked for, and which one is what the history remembers.
THEOREM StepsAreTheLastAskedHolds == Spec => []StepsAreTheLastAsked
<1>1. Init => StepsAreTheLastAsked
  <2> SUFFICES ASSUME Init, NEW c \in Case, LiveCase(c) PROVE cases[c].steps = asked[c]
    BY DEF StepsAreTheLastAsked
  <2>1. PICK u \in Suite, n \in Name, old \in SUBSET (Section \cup Case) :
             Initially(u, n, old)
    BY InitShape
  <2>2. cases[c].steps = Empty /\ asked[c] = Empty
    BY <2>1 DEF Initially, NoCase
  <2> QED
    BY <2>2
<1>2. TInv /\ StepsAreTheLastAsked /\ [Next]_vars => StepsAreTheLastAsked'
  <2> SUFFICES ASSUME TInv, StepsAreTheLastAsked, [Next]_vars, NEW c \in Case, LiveCase(c)'
               PROVE  cases'[c].steps = asked'[c] \/ (c \in crossed' /\ asked'[c] = Empty)
    BY DEF StepsAreTheLastAsked
  <2>1. StepsUnwritten(c) \/ StepsInserted(c) \/ StepsRewritten(c)
    BY EveryStepMoves DEF StepsMove
  <2>2. CASE StepsUnwritten(c)
    BY <2>2 DEF StepsUnwritten, StepsAreTheLastAsked
  <2> QED
    BY <2>1, <2>2 DEF StepsInserted, StepsRewritten
<1> QED
  BY <1>1, <1>2, TypesHold, PTL DEF Spec

\* VersionNamesSteps: no step changes the steps of a live case and not its version.
THEOREM VersionNamesStepsHolds == Spec => VersionNamesSteps
<1>1. TInv /\ [Next]_vars =>
        [\A c \in Case : LiveCase(c) /\ cases'[c].steps # cases[c].steps
            => cases'[c].version > cases[c].version]_vars
  BY EveryStepMoves DEF StepsMove, StepsUnwritten, StepsInserted, StepsRewritten
<1> QED
  BY <1>1, TypesHold, PTL DEF Spec, VersionNamesSteps

-----------------------------------------------------------------------------
(* The depth of the tree.                                                  *)

\* A live section that no move has placed, and the run of such sections above one.
Solid(t) == t \in Section /\ LiveSection(t) /\ t \notin moved
UpClosed(U) == \A t \in U : Solid(sections[t].parent) => sections[t].parent \in U
Run(s) == {t \in Section : \A U \in SUBSET Section : s \in U /\ UpClosed(U) => t \in U}

LEMMA RunLeast ==
    ASSUME NEW s \in Section
    PROVE  /\ s \in Run(s) /\ Run(s) \subseteq Section /\ UpClosed(Run(s))
           /\ \A U \in SUBSET Section : s \in U /\ UpClosed(U) => Run(s) \subseteq U
           /\ \A t \in Run(s) : t = s \/ Solid(t)
           /\ IsFiniteSet(Run(s)) /\ Cardinality(Run(s)) \in Nat
<1>1. s \in Run(s) /\ Run(s) \subseteq Section
      /\ \A U \in SUBSET Section : s \in U /\ UpClosed(U) => Run(s) \subseteq U
  BY DEF Run
<1>2. UpClosed(Run(s))
  <2> SUFFICES ASSUME NEW t \in Run(s), Solid(sections[t].parent)
               PROVE  sections[t].parent \in Run(s)
    BY DEF UpClosed
  <2>1. \A U \in SUBSET Section : s \in U /\ UpClosed(U) => sections[t].parent \in U
    BY <1>1 DEF UpClosed
  <2> QED
    BY <2>1 DEF Run, Solid
<1>3. \A t \in Run(s) : t = s \/ Solid(t)
  <2> DEFINE U == {s} \cup {t \in Section : Solid(t)}
  <2>1. U \in SUBSET Section /\ s \in U /\ UpClosed(U)
    BY DEF UpClosed, Solid
  <2> QED
    BY <1>1, <2>1
<1>4. IsFiniteSet(Run(s)) /\ Cardinality(Run(s)) \in Nat
  BY <1>1, TestDesignAssumption, FS_Subset, FS_CardinalityType
<1> QED
  BY <1>1, <1>2, <1>3, <1>4

\* Runs only shrink in a step that makes nothing solid and moves nothing that stays so.
LEMMA RunShrinks ==
    ASSUME \A t \in Section : Solid(t)' => Solid(t) /\ sections'[t].parent = sections[t].parent,
           NEW s \in Section, Solid(s)'
    PROVE  Run(s)' \subseteq Run(s) /\ Cardinality(Run(s)') <= Cardinality(Run(s))
<1> DEFINE U == {t \in Run(s) : Solid(t)'}
<1>1. s \in U /\ U \in SUBSET Section
  BY RunLeast
<1>2. ASSUME NEW t \in U, Solid(sections[t].parent)'
      PROVE  sections'[t].parent \in U
  <2>1. Solid(t) /\ sections'[t].parent = sections[t].parent
    BY <1>1
  <2>2. sections[t].parent \in Section /\ Solid(sections[t].parent)
    BY <1>2, <2>1 DEF Solid
  <2>3. sections[t].parent \in Run(s)
    BY <2>2, RunLeast DEF UpClosed
  <2> QED
    BY <1>2, <2>1, <2>3 DEF Solid
<1>3. Run(s)' \subseteq U
  BY <1>1, <1>2 DEF Run, UpClosed
<1>4. Run(s)' \subseteq Run(s)
  BY <1>3
<1> QED
  BY <1>4, RunLeast, FS_Subset

\* The recursion of DepthOf, unfolded.
LEMMA DepthUnfold ==
    ASSUME TInv, NEW p \in Section
    PROVE  \E up \in [0..(MaxDepth + 1) -> Place] :
              /\ up[0] = p
              /\ \A n \in 1..(MaxDepth + 1) :
                    up[n] = IF up[n - 1] = Root \/ (n > 1 /\ ~LiveSection(up[n - 1]))
                            THEN Root ELSE sections[up[n - 1]].parent
              /\ DepthOf(p) = Cardinality({n \in 1..(MaxDepth + 1) : up[n] # Root})
<1> DEFINE N == MaxDepth + 1
           Next1(n, t) == IF t = Root \/ (n > 1 /\ ~LiveSection(t)) THEN Root
                          ELSE sections[t].parent
           F == [n \in Nat |-> [t \in Place |-> Next1(n, t)]]
           Def(f) == f = [n \in 0..N |->
                            IF n = 0 THEN p
                            ELSE LET t == f[n - 1] IN
                                 IF t = Root \/ (n > 1 /\ ~LiveSection(t)) THEN Root
                                 ELSE sections[t].parent]
           up == CHOOSE f : Def(f)
<1>1. N \in Nat /\ p \in Place
  BY TestDesignAssumption DEF Place
<1>2. \A n \in Nat : \A t \in Place : Next1(n, t) \in Place
  BY DEF TInv, Rows, Place
<1> HIDE DEF Next1
<1>3. F \in [Nat -> [Place -> Place]]
  BY <1>2
<1> HIDE DEF N
<1>4. \E f \in [0..N -> Place] : f[0] = p /\ \A n \in 1..N : f[n] = F[n][f[n - 1]]
  <2> HIDE DEF F
  <2>1. Recursive(Place, p, F, N)
    BY <1>1, <1>3 DEF Recursive
  <2> QED
    BY <2>1, RecursionExists
<1>5. PICK f \in [0..N -> Place] : f[0] = p /\ \A n \in 1..N : f[n] = F[n][f[n - 1]]
  BY <1>4
<1>6. \A n \in 1..N : n \in 0..N /\ n # 0 /\ n - 1 \in 0..N /\ n \in Nat
  BY <1>1
<1>7. \A n \in 1..N : f[n] = Next1(n, f[n - 1])
  <2>1. ASSUME NEW n \in 1..N PROVE f[n] = Next1(n, f[n - 1])
    <3>1. f[n - 1] \in Place /\ n \in Nat
      BY <1>5, <1>6
    <3> QED
      BY <1>5, <3>1
  <2> QED
    BY <2>1
<1>8. Def(f)
  <2> HIDE DEF F
  <2>1. \A n \in 0..N : n # 0 => n \in 1..N
    BY <1>1
  <2>2. f = [n \in 0..N |-> f[n]]
    BY <1>5
  <2>3. \A n \in 0..N : f[n] = IF n = 0 THEN p ELSE Next1(n, f[n - 1])
    BY <1>5, <1>7, <2>1
  <2> QED
    BY <2>2, <2>3 DEF Next1
<1> HIDE DEF Def, F
<1>9. Def(up)
  BY <1>8
<1>10. DepthOf(p) = Cardinality({n \in 1..N : up[n] # Root})
  BY DEF DepthOf, Def, N
<1> HIDE DEF up
<1>11. /\ up[0] = p
       /\ \A n \in 1..N : up[n] = Next1(n, up[n - 1])
       /\ up = [n \in 0..N |-> up[n]]
  BY <1>1, <1>6, <1>9 DEF Def, Next1
<1> DEFINE T == {n \in Nat : n <= N => up[n] \in Place}
<1>12. Nat \subseteq T
  <2>1. 0 \in T
    BY <1>1, <1>11
  <2>2. ASSUME NEW n \in Nat, n \in T PROVE n + 1 \in T
    <3>1. CASE n + 1 <= N
      <4>1. n <= N /\ n + 1 \in 1..N /\ (n + 1) - 1 = n
        BY <1>1, <3>1
      <4>2. up[n + 1] = Next1(n + 1, up[n]) /\ up[n] \in Place
        BY <1>11, <2>2, <4>1
      <4> QED
        BY <1>2, <4>2
    <3> QED
      BY <1>1, <3>1
  <2> HIDE DEF T
  <2> QED
    BY <2>1, <2>2, NatInducts
<1>13. up \in [0..N -> Place]
  BY <1>1, <1>11, <1>12
<1> QED
  BY <1>10, <1>11, <1>13 DEF N, Next1

\* depthOf bounds the run, for the walk goes on where the run does: one section of
\* the run is the parent itself, and the walk counts the others.
LEMMA ShallowRun ==
    ASSUME TInv, NEW p \in Section, Solid(p), Shallow(p)
    PROVE  Cardinality(Run(p)) < MaxDepth
<1> DEFINE N == MaxDepth + 1
<1>1. PICK up \in [0..N -> Place] :
          /\ up[0] = p
          /\ \A n \in 1..N :
                up[n] = IF up[n - 1] = Root \/ (n > 1 /\ ~LiveSection(up[n - 1]))
                        THEN Root ELSE sections[up[n - 1]].parent
          /\ DepthOf(p) = Cardinality({n \in 1..N : up[n] # Root})
  BY DepthUnfold
<1> DEFINE K == {n \in 1..N : up[n] # Root}
<1>2. MaxDepth \in Nat /\ N \in Nat /\ N = MaxDepth + 1 /\ p # Root
  BY TestDesignAssumption
<1> HIDE DEF N
<1>3. IsFiniteSet(1..N) /\ Cardinality(1..N) = N
  BY <1>2, FS_Interval
<1>4. /\ IsFiniteSet(K) /\ Cardinality(K) \in Nat
      /\ DepthOf(p) = Cardinality(K) /\ Cardinality(K) + 1 < MaxDepth
  <2>1. IsFiniteSet(K) /\ Cardinality(K) \in Nat
    BY <1>3, FS_Subset, FS_CardinalityType
  <2> QED
    BY <1>1, <1>2, <2>1 DEF Shallow
<1>5. PICK m \in 1..N : up[m] = Root
  <2> SUFFICES ASSUME \A n \in 1..N : up[n] # Root PROVE FALSE
    OBVIOUS
  <2>1. K = 1..N
    OBVIOUS
  <2> HIDE DEF K
  <2> QED
    BY <1>2, <1>3, <1>4, <2>1
<1> DEFINE L == {n \in K : n <= m /\ Solid(up[n])}
           f == [n \in L |-> up[n]]
           I == {up[n] : n \in L}
           X == I \cup {p}
<1>6. IsFiniteSet(L) /\ Cardinality(L) <= Cardinality(K) /\ Cardinality(L) \in Nat
  BY <1>4, FS_Subset, FS_CardinalityType
<1>7. IsFiniteSet(I) /\ Cardinality(I) <= Cardinality(L) /\ Cardinality(I) \in Nat
  <2>1. f \in Surjection(L, I)
    BY DEF Surjection
  <2> HIDE DEF f, L, I
  <2> QED
    BY <1>6, <2>1, FS_Surjection, FS_CardinalityType
<1>8. IsFiniteSet(X) /\ Cardinality(X) <= Cardinality(I) + 1 /\ Cardinality(X) \in Nat
  <2> HIDE DEF I
  <2> QED
    BY <1>7, FS_AddElement, FS_CardinalityType
<1>9. ASSUME NEW n \in 0..N, n < m, up[n] \in Section, LiveSection(up[n]),
             Solid(sections[up[n]].parent)
      PROVE  sections[up[n]].parent \in I
  <2>1. n + 1 \in 1..N /\ (n + 1) - 1 = n /\ n + 1 <= m
    BY <1>2, <1>9
  <2>2. up[n] # Root
    BY <1>9, TestDesignAssumption
  <2>3. up[n + 1] = sections[up[n]].parent
    BY <1>1, <1>9, <2>1, <2>2
  <2>4. up[n + 1] # Root
    BY <1>9, <2>3, TestDesignAssumption DEF Solid
  <2>5. n + 1 \in L
    BY <1>9, <2>1, <2>3, <2>4
  <2> QED
    BY <2>3, <2>5
<1>10. UpClosed(X)
  <2> SUFFICES ASSUME NEW t \in X, Solid(sections[t].parent) PROVE sections[t].parent \in X
    BY DEF UpClosed
  <2>1. CASE t = p
    BY <1>1, <1>2, <1>9, <2>1 DEF Solid
  <2>2. CASE t \in I
    <3>1. PICK n \in L : t = up[n]
      BY <2>2
    <3>2. n \in 0..N /\ n # m
      BY <1>2, <1>5, <3>1
    <3>3. n < m
      BY <1>2, <3>1, <3>2
    <3> QED
      BY <1>9, <3>1, <3>2, <3>3 DEF Solid
  <2> QED
    BY <2>1, <2>2
<1>11. X \in SUBSET Section
  BY DEF Solid
<1>12. p \in X
  OBVIOUS
<1> HIDE DEF X, I, L, K, f
<1>13. Run(p) \subseteq X
  BY <1>10, <1>11, <1>12, RunLeast
<1>14. Cardinality(Run(p)) <= Cardinality(X) /\ Cardinality(Run(p)) \in Nat
  BY <1>8, <1>13, FS_Subset, RunLeast
<1> QED
  BY <1>2, <1>4, <1>6, <1>7, <1>8, <1>14

-----------------------------------------------------------------------------
(* No section that does not exist yet is anything's parent, nor about to be. *)

Building == {"section_insert", "move_check", "section_write"}

Existing(p) == p \in Section => sections[p].life # "absent"

Known ==
    /\ \A t \in Section : Existing(sections[t].parent)
    /\ \A r \in Request : requests[r].pc \in Building => Existing(requests[r].place)

Short ==
    /\ \A s \in Section : Solid(s) => Cardinality(Run(s)) <= MaxDepth
    /\ \A r \in Request : requests[r].pc = "section_insert" /\ Solid(requests[r].place) =>
          Cardinality(Run(requests[r].place)) < MaxDepth

DepthInv == Known /\ Short

\* A request that is about to write a place had it before the step.
PlaceKept(x) ==
    requests'[x].pc \in Building =>
        /\ requests[x].pc \in Building /\ requests'[x].place = requests[x].place
        /\ requests'[x].pc = "section_insert" => requests[x].pc = "section_insert"

LEMMA FinishKeepsPlaces ==
    ASSUME TInv, NEW r \in Request, Finish(r) \/ Commit(r)
    PROVE  \A x \in Request : PlaceKept(x)
<1>1. CASE Finish(r)
  <2>1. Idle.pc \notin Building
    BY DEF Idle, Building
  <2> QED
    BY <1>1, <2>1 DEF Finish, PlaceKept, TInv, Calls
<1>2. CASE Commit(r)
  <2> SUFFICES ASSUME NEW x \in Request PROVE PlaceKept(x)
    OBVIOUS
  <2>1. requests[x] \in RequestState
    BY DEF TInv, Calls
  <2>2. \/ requests'[x] = Idle \/ requests'[x] = requests[x]
        \/ requests'[x] = [requests[x] EXCEPT !.pc = "edit_insert"]
        \/ requests'[x] = [requests[x] EXCEPT !.pc = "replace_insert"]
    BY <1>2 DEF Commit
  <2>3. requests'[x].pc \in Building => requests'[x] = requests[x]
    BY <2>1, <2>2 DEF Building, Idle, RequestState
  <2> QED
    BY <2>3 DEF PlaceKept
<1> QED
  BY <1>1, <1>2

\* Whatever deletes sections, or moves them to where a request was about to.
LEMMA ShrinkKeepsDepth ==
    ASSUME TInv, TInv', DepthInv, \A x \in Request : PlaceKept(x),
           \A t \in Section : Solid(t)' => Solid(t) /\ sections'[t].parent = sections[t].parent,
           \A t \in Section : sections[t].life # "absent" => sections'[t].life # "absent",
           \A t \in Section : Existing(sections'[t].parent)
    PROVE  DepthInv'
<1>1. \A p : Existing(p) => Existing(p)'
  BY DEF Existing
<1>2. Known'
  <2>1. \A t \in Section : Existing(sections[t].parent)'
    BY DEF Existing
  <2>2. ASSUME NEW r \in Request, requests'[r].pc \in Building PROVE Existing(requests[r].place)'
    BY <2>2 DEF PlaceKept, DepthInv, Known, Existing
  <2> QED
    BY <2>1, <2>2 DEF Known
<1>3. ASSUME NEW s \in Section, Solid(s)', NEW k \in Nat
      PROVE  /\ Solid(s)
             /\ Cardinality(Run(s)) <= k => Cardinality(Run(s)') <= k
             /\ Cardinality(Run(s)) < k => Cardinality(Run(s)') < k
  <2>1. Cardinality(Run(s)') <= Cardinality(Run(s))
    BY <1>3, RunShrinks
  <2>2. Cardinality(Run(s)) \in Nat /\ IsFiniteSet(Run(s))
    BY RunLeast
  <2>3. Run(s)' \subseteq Run(s)
    BY <1>3, RunShrinks
  <2>4. Cardinality(Run(s)') \in Nat
    BY <2>2, <2>3, FS_Subset, FS_CardinalityType
  <2> QED
    BY <1>3, <2>1, <2>2, <2>4
<1>4. MaxDepth \in Nat
  BY TestDesignAssumption
<1>5. \A s \in Section : Solid(s)' => Cardinality(Run(s)') <= MaxDepth
  BY <1>3, <1>4 DEF DepthInv, Short
<1>6. ASSUME NEW r \in Request, requests'[r].pc = "section_insert", Solid(requests[r].place)'
      PROVE  Cardinality(Run(requests[r].place)') < MaxDepth
  <2>1. PICK p \in Section : p = requests'[r].place
    BY <1>6 DEF Solid
  <2>2. requests[r].pc = "section_insert" /\ requests[r].place = p
    BY <1>6, <2>1 DEF PlaceKept, Building
  <2>3. Solid(p)'
    BY <1>6, <2>1
  <2>4. Cardinality(Run(p)) < MaxDepth
    BY <1>3, <1>4, <2>2, <2>3 DEF DepthInv, Short
  <2>5. Cardinality(Run(p)') < MaxDepth
    BY <1>3, <1>4, <2>3, <2>4
  <2> QED
    BY <2>1, <2>5
<1> QED
  BY <1>2, <1>5, <1>6 DEF DepthInv, Short

\* The steps that change no section.
LEMMA OtherStepsKeepDepth ==
    ASSUME TInv, TInv', DepthInv, UNCHANGED <<sections, moved>>,
           \A x \in Request : PlaceKept(x)
    PROVE  DepthInv'
<1>1. \A t \in Section : /\ Solid(t)' => Solid(t) /\ sections'[t].parent = sections[t].parent
                         /\ sections[t].life # "absent" => sections'[t].life # "absent"
                         /\ Existing(sections'[t].parent)
  BY DEF DepthInv, Known, Solid, LiveSection
<1> QED
  BY <1>1, ShrinkKeepsDepth

LEMMA DeletionsKeepDepth ==
    ASSUME TInv, TInv', DepthInv, NEW r \in Request, SuiteDelete(r) \/ SectionsDelete(r)
    PROVE  DepthInv'
<1>1. \A x \in Request : PlaceKept(x)
  BY FinishKeepsPlaces DEF SuiteDelete, SectionsDelete
<1>2. moved' = moved
  BY DEF SuiteDelete, SectionsDelete, history
<1>3. \A t \in Section : /\ sections'[t].parent = sections[t].parent
                         /\ sections'[t].life = "live" => sections[t].life = "live"
                         /\ sections[t].life # "absent" => sections'[t].life # "absent"
  <2>1. sections \in [Section -> SectionRow]
    BY DEF TInv, Rows, SectionRow
  <2>2. \/ sections' = sections
        \/ \E u : sections' = [s \in Section |-> Ended(sections[s], u)]
        \/ \E ids : sections' = [s \in Section |->
              IF s \in ids THEN [sections[s] EXCEPT !.life = "deleted"] ELSE sections[s]]
    BY DEF SuiteDelete, SectionsDelete, tables
  <2> QED
    BY <2>1, <2>2 DEF Ended, SectionRow
<1>4. \A t \in Section : Existing(sections'[t].parent)
  BY <1>3 DEF DepthInv, Known
<1>5. \A t \in Section : Solid(t)' => Solid(t)
  BY <1>2, <1>3 DEF Solid, LiveSection
<1> QED
  BY <1>1, <1>3, <1>4, <1>5, ShrinkKeepsDepth

LEMMA WriteKeepsDepth ==
    ASSUME TInv, TInv', DepthInv, NEW r \in Request, SectionWrite(r)
    PROVE  DepthInv'
<1> DEFINE s == requests[r].row
           p == requests[r].place
<1>1. sections \in [Section -> SectionRow] /\ s \in Section
  BY DEF TInv, Rows, SectionRow, Calls, Formed, OnSection, SectionWrite
<1>2. \A x \in Request : PlaceKept(x)
  BY FinishKeepsPlaces DEF SectionWrite
<1>3. CASE UNCHANGED <<sections, moved>>
  BY <1>2, <1>3, OtherStepsKeepDepth
<1>4. CASE sections' = [sections EXCEPT ![s].parent = p] /\ moved' = moved \cup {s}
  <2>1. /\ \A t \in Section : sections'[t].life = sections[t].life
        /\ \A t \in Section : sections'[t].parent = IF t = s THEN p ELSE sections[t].parent
    BY <1>1, <1>4 DEF SectionRow
  <2>2. Existing(p)
    BY DEF DepthInv, Known, Building, SectionWrite
  <2>3. \A t \in Section : Existing(sections'[t].parent)
    BY <2>1, <2>2 DEF DepthInv, Known
  <2>4. \A t \in Section : Solid(t)' => Solid(t) /\ t # s
    BY <1>4, <2>1 DEF Solid, LiveSection
  <2> QED
    BY <1>2, <2>1, <2>3, <2>4, ShrinkKeepsDepth
<1> QED
  BY <1>3, <1>4 DEF SectionWrite

\* A new section makes a run one longer than its parent's was when it was checked,
\* or one shorter than that: runs shrink while the request waits.
LEMMA InsertKeepsDepth ==
    ASSUME TInv, TInv', DepthInv, NEW r \in Request, NEW s \in Section, SectionInsert(r, s)
    PROVE  DepthInv'
<1> DEFINE new == [life |-> "live", suite |-> requests[r].suite, parent |-> requests[r].place]
<1>1. sections \in [Section -> SectionRow] /\ requests[r].place \in Place
  BY DEF TInv, Rows, SectionRow, Calls, Formed, ToPlace, SectionInsert
<1>2. PICK p \in Place : p = requests[r].place
  BY <1>1
<1>3. /\ sections[s] = NoSection /\ sections' = [sections EXCEPT ![s] = new]
      /\ moved' = moved /\ requests[r].pc = "section_insert"
      /\ \A x \in Request : PlaceKept(x)
  BY FinishKeepsPlaces DEF SectionInsert
<1>4. /\ \A t \in Section \ {s} : sections'[t] = sections[t]
      /\ sections'[s].life = "live" /\ sections'[s].parent = p
      /\ sections[s].life = "absent"
  BY <1>1, <1>2, <1>3 DEF NoSection
<1>5. MaxDepth \in Nat \ {0}
  BY TestDesignAssumption
<1>6. Existing(p) /\ p # s
  <2>1. Existing(p)
    BY <1>2, <1>3 DEF DepthInv, Known, Building
  <2> QED
    BY <1>4, <2>1 DEF Existing
<1>7. \A q : Existing(q) => Existing(q)' /\ q # s
  BY <1>4 DEF Existing
<1>8. \A t \in Section : Existing(sections[t].parent) /\ sections[t].parent # s
  BY <1>7 DEF DepthInv, Known
<1>9. Known'
  <2>1. ASSUME NEW t \in Section PROVE Existing(sections[t].parent)'
    <3>1. CASE t = s
      BY <1>4, <1>6, <1>7, <3>1 DEF Existing
    <3>2. CASE t # s
      BY <1>4, <1>7, <1>8, <3>2 DEF Existing
    <3> QED
      BY <3>1, <3>2
  <2>2. ASSUME NEW x \in Request, requests'[x].pc \in Building PROVE Existing(requests[x].place)'
    <3>1. Existing(requests[x].place) /\ requests'[x].place = requests[x].place
      BY <1>3, <2>2 DEF PlaceKept, DepthInv, Known
    <3> QED
      BY <1>7, <3>1 DEF Existing
  <2> QED
    BY <2>1, <2>2 DEF Known
<1>10. \A t \in Section : t # s => (Solid(t)' <=> Solid(t))
  BY <1>3, <1>4 DEF Solid, LiveSection
\* The runs of the others do not change.
<1>11. ASSUME NEW t \in Section, t # s
       PROVE  /\ Run(t)' \subseteq Run(t)
              /\ Cardinality(Run(t)') <= Cardinality(Run(t))
              /\ Cardinality(Run(t)) \in Nat /\ Cardinality(Run(t)') \in Nat
  <2>1. t \in Run(t) /\ Run(t) \in SUBSET Section /\ s \notin Run(t)
    <3>1. ~Solid(s)
      BY <1>4 DEF Solid, LiveSection
    <3> QED
      BY <1>11, <3>1, RunLeast
  <2>2. ASSUME NEW x \in Run(t), Solid(sections[x].parent)' PROVE sections'[x].parent \in Run(t)
    <3>1. x \in Section /\ x # s /\ sections'[x] = sections[x]
      BY <1>4, <2>1
    <3>2. sections[x].parent \in Section /\ sections[x].parent # s
      BY <1>8, <2>2, <3>1 DEF Solid
    <3>3. Solid(sections[x].parent)
      BY <1>3, <1>4, <2>2, <3>1, <3>2 DEF Solid, LiveSection
    <3> QED
      BY <3>1, <3>3, RunLeast DEF UpClosed
  <2>3. Run(t)' \subseteq Run(t)
    BY <2>1, <2>2 DEF Run, UpClosed
  <2> QED
    BY <2>3, RunLeast, FS_Subset, FS_CardinalityType
\* That of the new section has it and the run of its parent.
<1>12. Cardinality(Run(s)') <= MaxDepth
  <2> DEFINE R == IF Solid(p) THEN Run(p) ELSE {}
             U == R \cup {s}
  <2>1. /\ R \in SUBSET Section /\ IsFiniteSet(R)
        /\ Cardinality(R) \in Nat /\ Cardinality(R) < MaxDepth
    <3>1. CASE Solid(p)
      <4>1. p \in Section /\ R = Run(p)
        BY <3>1 DEF Solid
      <4>2. Cardinality(Run(p)) < MaxDepth
        BY <1>2, <1>3, <3>1 DEF DepthInv, Short
      <4> QED
        BY <4>1, <4>2, RunLeast
    <3>2. CASE ~Solid(p)
      BY <1>5, <3>2, FS_EmptySet
    <3> QED
      BY <3>1, <3>2
  <2>2. ASSUME NEW x \in U, Solid(sections[x].parent)' PROVE sections'[x].parent \in U
    <3>1. CASE x = s
      <4>1. sections'[x].parent = p /\ p \in Section /\ Solid(p)
        BY <1>4, <1>6, <1>10, <2>2, <3>1 DEF Solid
      <4> QED
        BY <4>1, RunLeast
    <3>2. CASE x # s
      <4>1. Solid(p) /\ x \in Run(p) /\ p \in Section
        BY <2>2, <3>2 DEF Solid
      <4>2. x \in Section /\ sections'[x] = sections[x]
        BY <1>4, <3>2, <4>1, RunLeast
      <4>3. sections[x].parent \in Section /\ sections[x].parent # s
        BY <1>8, <2>2, <4>2 DEF Solid
      <4>4. Solid(sections[x].parent)
        BY <1>3, <1>4, <2>2, <4>2, <4>3 DEF Solid, LiveSection
      <4> QED
        BY <4>1, <4>2, <4>4, RunLeast DEF UpClosed
    <3> QED
      BY <3>1, <3>2
  <2> HIDE DEF R
  <2>3. IsFiniteSet(U) /\ Cardinality(U) <= MaxDepth /\ Cardinality(U) \in Nat
    <3>1. /\ IsFiniteSet(U)
          /\ Cardinality(U) = IF s \in R THEN Cardinality(R) ELSE Cardinality(R) + 1
      BY <2>1, FS_AddElement
    <3> QED
      BY <1>5, <2>1, <3>1
  <2>4. Run(s)' \subseteq U
    BY <2>1, <2>2 DEF Run, UpClosed
  <2> HIDE DEF U
  <2>5. Cardinality(Run(s)') <= Cardinality(U) /\ Cardinality(Run(s)') \in Nat
    BY <2>3, <2>4, FS_Subset, FS_CardinalityType
  <2> QED
    BY <1>5, <2>3, <2>5
<1>13. \A t \in Section : Solid(t)' => Cardinality(Run(t)') <= MaxDepth
  <2>1. ASSUME NEW t \in Section, t # s, Solid(t)' PROVE Cardinality(Run(t)') <= MaxDepth
    <3>1. Cardinality(Run(t)) <= MaxDepth
      BY <1>10, <2>1 DEF DepthInv, Short
    <3> QED
      BY <1>5, <1>11, <2>1, <3>1
  <2> QED
    BY <1>12, <2>1
<1>14. ASSUME NEW x \in Request, requests'[x].pc = "section_insert", Solid(requests[x].place)'
       PROVE  Cardinality(Run(requests[x].place)') < MaxDepth
  <2>1. PICK q \in Section : q = requests'[x].place
    BY <1>14 DEF Solid
  <2>2. requests[x].pc = "section_insert" /\ requests[x].place = q
    BY <1>3, <1>14, <2>1 DEF PlaceKept, Building
  <2>3. q # s
    BY <1>7, <2>2 DEF DepthInv, Known, Building
  <2>4. Solid(q)
    BY <1>10, <1>14, <2>1, <2>3
  <2>5. Cardinality(Run(q)) < MaxDepth
    BY <2>2, <2>4 DEF DepthInv, Short
  <2>6. Cardinality(Run(q)') < MaxDepth
    BY <1>5, <1>11, <2>3, <2>5
  <2> QED
    BY <2>1, <2>6
<1> QED
  BY <1>9, <1>13, <1>14 DEF DepthInv, Short

\* The one read that lets a request go on to insert is the one that measures.
LEMMA ReadsKeepDepth ==
    ASSUME TInv, TInv', DepthInv, NEW r \in Request, UNCHANGED <<tables, history>>,
           \/ Start(r) \/ Crash(r)
           \/ SectionParent(r) \/ MoveParent(r) \/ MoveCheck(r) \/ SectionsList(r)
           \/ CaseSection(r) \/ EditSection(r) \/ ReplaceInsert(r)
           \/ DeleteSteps(r, "edit_delete", "edit_wait", "edit_insert")
           \/ DeleteSteps(r, "replace_delete", "replace_wait", "replace_insert")
    PROVE  DepthInv'
<1>1. /\ requests \in [Request -> RequestState]
      /\ \A x \in Request : requests[x] \in RequestState
  BY DEF TInv, Calls
<1>2. UNCHANGED <<sections, moved>>
  BY DEF tables, history
<1>3. ASSUME NEW q, q.pc \notin Building, requests' = [requests EXCEPT ![r] = q]
      PROVE  DepthInv'
  <2>1. \A x \in Request : PlaceKept(x)
    BY <1>1, <1>3 DEF PlaceKept
  <2> QED
    BY <1>2, <2>1, OtherStepsKeepDepth
<1>4. ASSUME NEW ok, NEW q, Check(r, ok, q), q.pc \notin Building PROVE DepthInv'
  <2>1. (IF ok THEN q ELSE Idle).pc \notin Building
    BY <1>4 DEF Idle, Building
  <2> QED
    BY <1>3, <1>4, <2>1 DEF Check
<1>5. \A p : Solid(p)' = Solid(p) /\ Run(p)' = Run(p) /\ Existing(p)' = Existing(p)
  BY <1>2 DEF Solid, LiveSection, Run, UpClosed, Existing
\* A request that is given a place it has checked.
<1>6. ASSUME NEW q \in RequestState, requests' = [requests EXCEPT ![r] = q],
             Existing(q.place),
             q.pc = "section_insert" /\ Solid(q.place) => Cardinality(Run(q.place)) < MaxDepth
      PROVE  DepthInv'
  <2>1. \A x \in Request : requests'[x] = IF x = r THEN q ELSE requests[x]
    BY <1>1, <1>6
  <2>2. \A t \in Section : Existing(sections'[t].parent)
    BY <1>2 DEF DepthInv, Known
  <2>3. Known'
    <3>1. \A t \in Section : Existing(sections[t].parent)'
      BY <1>2, <2>2 DEF Existing
    <3>2. ASSUME NEW x \in Request, requests'[x].pc \in Building
          PROVE  Existing(requests[x].place)'
      <4>1. Existing(requests'[x].place)
        BY <1>6, <2>1, <3>2 DEF DepthInv, Known
      <4> QED
        BY <1>2, <4>1 DEF Existing
    <3> QED
      BY <3>1, <3>2 DEF Known
  <2>4. \A t \in Section : Solid(t)' => Cardinality(Run(t)') <= MaxDepth
    BY <1>5 DEF DepthInv, Short
  <2>5. ASSUME NEW x \in Request, requests'[x].pc = "section_insert", Solid(requests[x].place)'
        PROVE  Cardinality(Run(requests[x].place)') < MaxDepth
    <3>1. PICK p \in Section : p = requests'[x].place
      BY <2>5 DEF Solid
    <3>2. Solid(p)
      BY <1>5, <2>5, <3>1
    <3>3. Cardinality(Run(p)) < MaxDepth
      BY <1>6, <2>1, <2>5, <3>1, <3>2 DEF DepthInv, Short
    <3>4. Cardinality(Run(p)') < MaxDepth
      BY <1>5, <3>3
    <3> QED
      BY <3>1, <3>4
  <2> QED
    BY <2>3, <2>4, <2>5 DEF DepthInv, Short
<1>7. ASSUME NEW u, Found(requests[r].place, u), requests[r].place \in Place
      PROVE  Existing(requests[r].place)
  BY <1>7, TestDesignAssumption DEF Found, Existing, LiveSection
<1>8. CASE Crash(r)
  <2>1. Idle.pc \notin Building
    BY DEF Idle, Building
  <2> QED
    BY <1>3, <1>8, <2>1 DEF Crash, Finish
<1>9. CASE SectionParent(r)
  <2> DEFINE p == requests[r].place
             q == [requests[r] EXCEPT !.pc = "section_insert"]
  <2>1. p \in Place
    BY <1>9 DEF TInv, Calls, Formed, ToPlace, SectionParent
  <2>2. CASE Found(p, requests[r].suite) /\ Shallow(p)
    <3>1. q \in RequestState /\ q.pc = "section_insert" /\ q.place = p
      BY <1>1 DEF RequestState, Step
    <3>2. requests' = [requests EXCEPT ![r] = q]
      BY <1>9, <2>2 DEF SectionParent, Check
    <3>3. Existing(p)
      BY <1>7, <2>1, <2>2
    <3>4. Solid(p) => Cardinality(Run(p)) < MaxDepth
      BY <2>2, ShallowRun DEF Solid
    <3> HIDE DEF q
    <3> QED
      BY <1>6, <3>1, <3>2, <3>3, <3>4
  <2>3. CASE ~(Found(p, requests[r].suite) /\ Shallow(p))
    <3>1. requests' = [requests EXCEPT ![r] = Idle] /\ Idle.pc \notin Building
      BY <1>9, <2>3 DEF SectionParent, Check, Idle, Building
    <3> QED
      BY <1>3, <3>1
  <2> QED
    BY <2>2, <2>3
<1>10. CASE MoveParent(r) \/ MoveCheck(r)
  <2>1. ASSUME NEW ok, NEW next \in {"move_check", "section_write"},
               Check(r, ok, [requests[r] EXCEPT !.pc = next]),
               ok => Existing(requests[r].place)
        PROVE  DepthInv'
    <3>1. CASE ok
      <4> DEFINE q == [requests[r] EXCEPT !.pc = next]
      <4>1. q \in RequestState /\ q.pc # "section_insert" /\ q.place = requests[r].place
        BY <1>1, <2>1 DEF RequestState, Step
      <4>2. requests' = [requests EXCEPT ![r] = q]
        BY <2>1, <3>1 DEF Check
      <4> HIDE DEF q
      <4> QED
        BY <1>6, <2>1, <3>1, <4>1, <4>2
    <3>2. CASE ~ok
      <4>1. requests' = [requests EXCEPT ![r] = Idle] /\ Idle.pc \notin Building
        BY <2>1, <3>2 DEF Check, Idle, Building
      <4> QED
        BY <1>3, <4>1
    <3> QED
      BY <3>1, <3>2
  <2>2. requests[r].place \in Place
    BY <1>10 DEF TInv, Calls, Formed, ToPlace, MoveParent, MoveCheck
  <2>3. CASE MoveParent(r)
    <3> DEFINE ok == Found(requests[r].place, sections[requests[r].row].suite)
    <3>1. ok => Existing(requests[r].place)
      BY <1>7, <2>2
    <3>2. Check(r, ok, [requests[r] EXCEPT !.pc = "move_check"])
      BY <2>3 DEF MoveParent
    <3> HIDE DEF ok
    <3> QED
      BY <2>1, <3>1, <3>2
  <2>4. CASE MoveCheck(r)
    <3> DEFINE ok == requests[r].place \notin Descendants({requests[r].row})
    <3>1. Existing(requests[r].place)
      BY <2>4 DEF MoveCheck, DepthInv, Known, Building
    <3>2. Check(r, ok, [requests[r] EXCEPT !.pc = "section_write"])
      BY <2>4 DEF MoveCheck
    <3> HIDE DEF ok
    <3> QED
      BY <2>1, <3>1, <3>2
  <2> QED
    BY <1>10, <2>3, <2>4
<1>11. CASE \/ SectionsList(r) \/ CaseSection(r) \/ EditSection(r) \/ ReplaceInsert(r)
            \/ DeleteSteps(r, "edit_delete", "edit_wait", "edit_insert")
            \/ DeleteSteps(r, "replace_delete", "replace_wait", "replace_insert")
  <2>1. \E q, ok : Check(r, ok, q) /\ q.pc \in Step \ Building
    <3>1. CASE SectionsList(r)
      <4>1. \A d : [requests[r] EXCEPT !.pc = "sections_delete", !.ids = d].pc
                      = "sections_delete"
        BY <1>1 DEF RequestState
      <4>2. "sections_delete" \in Step \ Building
        BY DEF Step, Building
      <4> QED
        BY <3>1, <4>1, <4>2 DEF SectionsList
    <3>2. CASE CaseSection(r) \/ EditSection(r) \/ ReplaceInsert(r)
      BY <1>1, <3>2 DEF CaseSection, EditSection, ReplaceInsert, RequestState, Step, Building
    <3>3. ASSUME NEW from, NEW wait \in Step \ Building, NEW next \in Step \ Building,
                 DeleteSteps(r, from, wait, next)
          PROVE  \E q, ok : Check(r, ok, q) /\ q.pc \in Step \ Building
      <4>1. /\ [requests[r] EXCEPT !.pc = wait].pc = wait
            /\ \A h : [requests[r] EXCEPT !.pc = next, !.holds = h].pc = next
        BY <1>1 DEF RequestState
      <4> QED
        BY <3>3, <4>1 DEF DeleteSteps
    <3>4. {"edit_wait", "edit_insert", "replace_wait", "replace_insert"} \subseteq Step \ Building
      BY DEF Step, Building
    <3> QED
      BY <1>11, <3>1, <3>2, <3>3, <3>4
  <2> QED
    BY <1>4, <2>1
<1>12. CASE Start(r)
  <2>1. ASSUME NEW s \in Section, NEW p \in Place, MoveSection(r, s, p) PROVE DepthInv'
    <3> DEFINE q == [Idle EXCEPT !.pc = IF p = Root THEN "section_write" ELSE "move_parent",
                                 !.row = s, !.place = p]
    <3>1. requests' = [requests EXCEPT ![r] = q]
      BY <2>1 DEF MoveSection, Begin
    <3>2. q \in RequestState /\ q.pc # "section_insert" /\ q.place = p
          /\ (p # Root => q.pc = "move_parent")
      BY DEF Idle, RequestState, Step
    <3> HIDE DEF q
    <3>3. CASE p = Root
      BY <1>6, <3>1, <3>2, <3>3, TestDesignAssumption DEF Existing
    <3>4. CASE p # Root
      BY <1>3, <3>1, <3>2, <3>4 DEF Building
    <3> QED
      BY <3>3, <3>4
  <2>2. ASSUME NEW q, q.pc \notin Building, Begin(r, q) PROVE DepthInv'
    BY <1>3, <2>2 DEF Begin
  <2> USE DEF Idle, Building
  <2>3. ASSUME NEW n \in Name, CreateSuite(r, n) \/ \E u \in Suite : UpdateSuite(r, u, n)
        PROVE  DepthInv'
    BY <2>2, <2>3 DEF CreateSuite, UpdateSuite
  <2>4. ASSUME NEW u \in Suite, DeleteSuite(r, u) PROVE DepthInv'
    BY <2>2, <2>4 DEF DeleteSuite
  <2>5. ASSUME NEW u \in Suite, NEW p \in Place,
               CreateSection(r, u, p) \/ \E l \in List : CreateCase(r, u, p, l)
        PROVE  DepthInv'
    BY <2>2, <2>5 DEF CreateSection, CreateCase
  <2>6. ASSUME NEW s \in Section, DeleteSection(r, s) PROVE DepthInv'
    BY <2>2, <2>6 DEF DeleteSection
  <2>7. ASSUME NEW c \in Case, \/ ArchiveCase(r, c) \/ RestoreCase(r, c) \/ DeleteCase(r, c)
                               \/ \E l \in List : ReplaceSteps(r, c, l)
        PROVE  DepthInv'
    BY <2>2, <2>7 DEF ArchiveCase, RestoreCase, DeleteCase, ReplaceSteps
  <2>8. ASSUME NEW c \in Case, NEW p \in Place \cup {Nothing},
               DuplicateCase(r, c, p) \/ \E l \in List \cup {Nothing} : UpdateCase(r, c, p, l)
        PROVE  DepthInv'
    BY <2>2, <2>8 DEF DuplicateCase, UpdateCase
  <2> QED
    BY <1>12, <2>1, <2>3, <2>4, <2>5, <2>6, <2>7, <2>8 DEF Start
<1> QED
  BY <1>8, <1>9, <1>10, <1>11, <1>12

LEMMA DepthStays == TInv /\ TInv' /\ DepthInv /\ [Next]_vars => DepthInv'
<1> SUFFICES ASSUME TInv, TInv', DepthInv, [Next]_vars PROVE DepthInv'
  OBVIOUS
<1>1. ASSUME NEW r \in Request, Start(r) \/ Crash(r) PROVE DepthInv'
  BY <1>1, QuietSteps, ReadsKeepDepth
<1>2. ASSUME NEW r \in Request, Continue(r) PROVE DepthInv'
  <2>1. CASE \/ SuiteRename(r) \/ \E u \in Suite : SuiteInsert(r, u)
             \/ CaseWrite(r) \/ CaseDelete(r) \/ \E c \in Case : CaseInsert(r, c)
             \/ EditInsert(r) \/ ReplaceRow(r)
    <3>1. UNCHANGED <<sections, moved>> /\ (Finish(r) \/ Commit(r))
      BY <2>1 DEF SuiteRename, SuiteInsert, CaseWrite, CaseDelete, CaseInsert, EditInsert,
                  ReplaceRow, history
    <3> QED
      BY <3>1, FinishKeepsPlaces, OtherStepsKeepDepth
  <2>2. CASE EditRow(r)
    <3>1. UNCHANGED <<sections, moved>>
      BY <2>2 DEF EditRow
    <3>2. CASE Finish(r)
      BY <3>1, <3>2, FinishKeepsPlaces, OtherStepsKeepDepth
    <3>3. CASE Check(r, TRUE, [requests[r] EXCEPT !.pc = "edit_delete"])
      <4>1. requests \in [Request -> RequestState] /\ requests[r] \in RequestState
        BY DEF TInv, Calls
      <4>2. requests' = [requests EXCEPT ![r] = [requests[r] EXCEPT !.pc = "edit_delete"]]
        BY <3>3 DEF Check
      <4>3. requests'[r].pc \notin Building /\ \A x \in Request \ {r} : requests'[x] = requests[x]
        BY <4>1, <4>2 DEF RequestState, Building
      <4>4. \A x \in Request : PlaceKept(x)
        BY <4>3 DEF PlaceKept
      <4> QED
        BY <3>1, <4>4, OtherStepsKeepDepth
    <3> QED
      BY <2>2, <3>2, <3>3 DEF EditRow
  <2> QED
    BY <1>2, <2>1, <2>2, QuietSteps, ReadsKeepDepth, DeletionsKeepDepth, WriteKeepsDepth,
       InsertKeepsDepth DEF Continue
<1>3. CASE UNCHANGED vars
  <2>1. \A x \in Request : PlaceKept(x)
    BY <1>3 DEF vars, PlaceKept
  <2> QED
    BY <1>3, <2>1, OtherStepsKeepDepth DEF vars, tables, history
<1> QED
  BY <1>1, <1>2, <1>3 DEF Next

LEMMA DepthHolds == Spec => [](TInv /\ DepthInv)
<1>1. Init => DepthInv
  <2> SUFFICES ASSUME Init PROVE DepthInv
    OBVIOUS
  <2>1. PICK u \in Suite, n \in Name, old \in SUBSET (Section \cup Case) :
             Initially(u, n, old)
    BY InitShape
  <2>2. /\ \A s \in Section : sections[s].parent = Root
        /\ \A r \in Request : requests[r].pc \notin Building
    BY <2>1 DEF Initially, NoSection, Idle, Building
  <2>3. Root \notin Section
    BY TestDesignAssumption
  <2>4. Known
    BY <2>2, <2>3 DEF Known, Existing
  <2>5. ASSUME NEW s \in Section PROVE Cardinality(Run(s)) <= MaxDepth
    <3>1. UpClosed({s})
      BY <2>2, <2>3 DEF UpClosed, Solid
    <3>2. Run(s) \subseteq {s}
      BY <3>1, RunLeast
    <3>3. IsFiniteSet({s}) /\ Cardinality({s}) = 1
      BY FS_Singleton
    <3>4. Cardinality(Run(s)) <= 1 /\ Cardinality(Run(s)) \in Nat
      BY <3>2, <3>3, FS_Subset, RunLeast
    <3> QED
      BY <3>4, TestDesignAssumption
  <2>6. Short
    BY <2>2, <2>5 DEF Short, Building
  <2> QED
    BY <2>4, <2>6 DEF DepthInv
<1> QED
  BY <1>1, TypesHold, DepthStays, PTL DEF Spec

\* Where no move has been, the sections above one are its run: the walk down from
\* one of them that was not in it would never come to the section.
LEMMA PathIsRun ==
    ASSUME NEW s \in Section, NEW path \in SUBSET Section, LiveSection(s),
           path = {t \in Section : LiveSection(t) /\ s \in Descendants({t})},
           path \cap moved = {}
    PROVE  path \subseteq Run(s)
<1> SUFFICES ASSUME NEW t \in path, t \notin Run(s) PROVE FALSE
  OBVIOUS
<1> DEFINE Y == {y \in Section : LiveSection(y) /\ ~(y \in Run(s) /\ y \in path)}
<1>1. t \in Y
  BY DEF LiveSection
<1>2. s \notin Y
  <2>1. s \in Descendants({s})
    BY DescendantsLeast
  <2> QED
    BY <2>1, RunLeast
<1>3. DownClosed(Y)
  <2> SUFFICES ASSUME NEW y \in Section, LiveSection(y), sections[y].parent \in Y,
                      y \in Run(s), y \in path
               PROVE  FALSE
    BY DEF DownClosed
  <2>1. PICK p \in Section : p = sections[y].parent /\ LiveSection(p) /\ p \in Y
    OBVIOUS
  <2>2. p \in Descendants({p}) /\ DownClosed(Descendants({p}))
    BY DescendantsLeast
  <2>3. y \in Descendants({p})
    BY <2>1, <2>2 DEF DownClosed
  <2>4. Descendants({y}) \subseteq Descendants({p})
    <3>1. {y} \subseteq Descendants({p})
      BY <2>3
    <3> QED
      BY <2>2, <3>1, DescendantsLeast
  <2>5. p \in path
    BY <2>1, <2>4
  <2>6. Solid(p)
    BY <2>1, <2>5 DEF Solid
  <2>7. p \in Run(s)
    BY <2>1, <2>6, RunLeast DEF UpClosed
  <2> QED
    BY <2>1, <2>5, <2>7
<1> HIDE DEF Y
<1>4. Descendants({t}) \subseteq Y
  BY <1>1, <1>3, DescendantsLeast
<1>5. s \in Descendants({t})
  OBVIOUS
<1> QED
  BY <1>2, <1>4, <1>5

\* DepthIsBounded: what one creation found shallow enough no other, at work at the
\* same time, makes deeper, because a section is only ever put at the end of a path.
THEOREM DepthIsBoundedHolds == Spec => []DepthIsBounded
<1>1. TInv /\ DepthInv => DepthIsBounded
  <2> SUFFICES ASSUME DepthInv, NEW s \in Section, NEW path \in SUBSET Section,
                      path = {t \in Section : LiveSection(t) /\ s \in Descendants({t})},
                      LiveSection(s), path \cap moved = {}
               PROVE  Cardinality(path) <= MaxDepth
    BY DEF DepthIsBounded
  <2>1. s \in path
    BY DescendantsLeast
  <2>2. Cardinality(Run(s)) <= MaxDepth
    BY <2>1 DEF DepthInv, Short, Solid
  <2>3. path \subseteq Run(s)
    BY PathIsRun
  <2>4. IsFiniteSet(Run(s)) /\ Cardinality(Run(s)) \in Nat
    BY RunLeast
  <2>5. Cardinality(path) <= Cardinality(Run(s)) /\ Cardinality(path) \in Nat
    BY <2>3, <2>4, FS_Subset, FS_CardinalityType
  <2> QED
    BY <2>2, <2>4, <2>5, TestDesignAssumption
<1> QED
  BY <1>1, DepthHolds, PTL
=============================================================================
