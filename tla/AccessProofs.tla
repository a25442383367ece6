---------------------------- MODULE AccessProofs ----------------------------
(* TLAPS proofs about Access, for every set of people, projects and        *)
(* requests and every number of changes.                                   *)
EXTENDS Access, TLAPS

USE AccessAssumption

Late == {"access", "target", "grant_row", "write"}

\* What the record of a request refers to, and what nothing can take back: no
\* project ceases to exist.
Located(q) == q.pc # "idle" =>
    /\ q.user \in User /\ q.unchecked \subseteq q.ends
    /\ q.pc \in {"grants", "handle"} => q.unchecked = q.ends
    /\ q.route.does # "link" => \E p \in Project : q.ends = {p}
    /\ q.route.does # "report" => q.also = {}
    /\ q.route.does = "create" => q.role \in q.route.needs
    /\ q.route.does \in {"grant", "revoke"} => q.target \in User
    /\ q.route.does = "grant" => q.goal \in InUse
    /\ q.pc = "insert" => q.route.does = "create"
    /\ q.pc = "access" => q.route.does # "duplicate"
    /\ q.pc \in Late => /\ q.route.does \notin {"read", "create"}
                        /\ \A p \in q.ends : projects[p] # "none"
    /\ q.pc \in {"target", "grant_row"} => q.route.does \in {"grant", "revoke"}
    /\ q.pc = "grant_row" => q.route.does = "revoke"
    /\ q.pc \in Late \ {"access"} /\ q.route.does # "duplicate" =>
          q.unchecked = {} /\ ~Refuses(q)

\* What a request has read, as long as it is not overtaken.
Sound(q) == q.pc # "idle" =>
    /\ q.role = members[q.user] /\ q.role # Nobody
    /\ q.pc \in Late /\ q.route.does \in {"update", "archive", "restore", "grant", "revoke"} =>
          \A p \in q.ends : q.status = projects[p]
    /\ q.pc \in Late /\ q.route.does # "duplicate" =>
          \A p \in q.ends \ q.unchecked : Holds(q.user, p) \in q.route.needs
    /\ q.pc \in Late \ {"access"} /\ q.route.does \in {"grant", "revoke"} =>
          \A p \in q.ends : q.acting = Holds(q.user, p)
    /\ q.pc = "grant_row" \/ (q.pc = "write" /\ q.route.does \in {"grant", "revoke"}) =>
          q.standing = members[q.target] /\ q.standing # Nobody
    /\ q.pc = "write" /\ q.route.does \in {"grant", "revoke"} =>
          MayAssign(q, q.goal, q.standing)
    /\ q.pc = "write" /\ q.route.does = "revoke" =>
          \A p \in q.ends : q.goal = grants[p][q.target]

Tables ==
    /\ members \in [User -> InUse \cup {Nobody}]
    /\ projects \in [Project -> Status]
    /\ grants \in [Project -> [User -> InUse \cup {Nobody}]]
    /\ edits \in [Project -> Nat]
    /\ \A p \in Project : projects[p] = "none" =>
          edits[p] = 0 /\ \A u \in User : grants[p][u] = Nobody
    /\ served \in 0..MaxServed

Callers ==
    /\ requests \in [Request -> RequestState]
    /\ \A r \in Request : Located(requests[r])

Fresh == \A r \in Request : r \notin overtaken => Sound(requests[r])

IInv == Tables /\ Callers /\ Fresh /\ overtaken \subseteq Request

LEMMA Typed == IInv => TypeOK
BY DEF IInv, Tables, Callers, TypeOK

LEMMA RouteFacts ==
    /\ Reading \in Routes
    /\ \A route \in Routes : route.does = "create" => route.needs = Admins /\ ~route.scoped
BY DEF Routes, ProjectRoutes, ProjectMemberRoutes, RequirementRoutes, TestDesignRoutes,
   TestRunRoutes, DefectRoutes, TraceabilityRoutes, DashboardRoutes, Reading, Scoped, Route,
   Admins

LEMMA IdleTyped == Idle \in RequestState /\ Idle.pc = "idle"
BY RouteFacts DEF Idle, RequestState, Step, Status

LEMMA InitSound == Init => IInv
<1> SUFFICES ASSUME Init PROVE IInv
  OBVIOUS
<1>1. PICK granted \in {p \in Project : projects[p] = "active"}, to \in User,
           role \in InUse \cup {Nobody} :
          grants = [p \in Project |-> [u \in User |->
                       IF p = granted /\ u = to THEN role ELSE Nobody]]
  BY DEF Init
<1>2. Tables
  BY <1>1 DEF Init, Tables, Status
<1>3. Callers /\ Fresh
  BY IdleTyped DEF Init, Callers, Fresh, Located, Sound
<1> QED
  BY <1>2, <1>3 DEF IInv, Init

-----------------------------------------------------------------------------
(* What a step does to the requests.                                       *)

\* Projects do not cease to exist.
Kept == \A p \in Project : projects[p] # "none" => projects'[p] # "none"

LEMMA CallersStay ==
    ASSUME IInv, Kept, NEW r \in Request, NEW new \in RequestState, Located(new),
           requests' = [requests EXCEPT ![r] = new]
    PROVE  Callers'
<1>1. /\ requests' \in [Request -> RequestState] /\ requests'[r] = new
      /\ \A s \in Request : s # r => requests'[s] = requests[s]
  BY DEF IInv, Callers
<1>2. ASSUME NEW q \in RequestState, Located(q) PROVE Located(q)'
  <2>1. q.ends \subseteq Project
    BY DEF RequestState
  <2>2. Refuses(q)' <=> Refuses(q)
    BY DEF Refuses
  <2> QED
    BY <1>2, <2>1, <2>2 DEF Located, Kept
<1>3. ASSUME NEW s \in Request PROVE Located(requests[s])'
  <2>1. PICK q \in RequestState : q = requests'[s] /\ Located(q)
    BY <1>1 DEF IInv, Callers
  <2>2. Located(q)'
    BY <1>2, <2>1
  <2>3. Refuses(q)' <=> Refuses(requests[s])'
    BY <2>1
  <2> QED
    BY <2>1, <2>2, <2>3 DEF Located
<1> QED
  BY <1>1, <1>3 DEF Callers

\* Whatever a request has read is as it was, or the request is overtaken.
LEMMA BasisStays ==
    ASSUME IInv, Watch, NEW r \in Request, r \notin overtaken',
           requests[r].pc # "idle", requests'[r].pc # "idle"
    PROVE  /\ r \notin overtaken
           /\ \A u \in {requests[r].user, requests[r].target} :
                 u \in User => members'[u] = members[u]
           /\ \A p \in requests[r].ends : projects'[p] = projects[p] /\ grants'[p] = grants[p]
<1>1. PICK q \in RequestState : q = requests[r]
  BY DEF IInv, Callers
<1>2. r \notin overtaken /\ Basis(q)' = Basis(q)
  BY <1>1 DEF Watch, InFlight
<1>3. /\ [u \in User \cap {q.user, q.target} |-> members'[u]]
           = [u \in User \cap {q.user, q.target} |-> members[u]]
      /\ [p \in q.ends |-> <<projects'[p], grants'[p]>>]
           = [p \in q.ends |-> <<projects[p], grants[p]>>]
  BY <1>2 DEF Basis
<1>4. ASSUME NEW u \in User \cap {q.user, q.target} PROVE members'[u] = members[u]
  <2>1. [v \in User \cap {q.user, q.target} |-> members'[v]][u]
          = [v \in User \cap {q.user, q.target} |-> members[v]][u]
    BY <1>3
  <2> QED
    BY <2>1
<1>5. ASSUME NEW p \in q.ends PROVE projects'[p] = projects[p] /\ grants'[p] = grants[p]
  <2>1. [o \in q.ends |-> <<projects'[o], grants'[o]>>][p]
          = [o \in q.ends |-> <<projects[o], grants[o]>>][p]
    BY <1>3
  <2>2. <<projects'[p], grants'[p]>> = <<projects[p], grants[p]>>
    BY <2>1
  <2> QED
    BY <2>2
<1> QED
  BY <1>1, <1>2, <1>4, <1>5

LEMMA SoundStays ==
    ASSUME NEW q \in RequestState, Located(q), Sound(q),
           \A u \in {q.user, q.target} : u \in User => members'[u] = members[u],
           \A p \in q.ends : projects'[p] = projects[p] /\ grants'[p] = grants[p]
    PROVE  Sound(q)'
<1> SUFFICES ASSUME q.pc # "idle" PROVE Sound(q)'
  BY DEF Sound
<1>1. \A p \in q.ends : Holds(q.user, p)' = Holds(q.user, p)
  BY DEF Holds, Located
<1>2. q.route.does \in {"grant", "revoke"} => members'[q.target] = members[q.target]
  BY DEF Located
<1>3. members'[q.user] = members[q.user]
  BY DEF Located
<1>4. MayAssign(q, q.goal, q.standing)' <=> MayAssign(q, q.goal, q.standing)
  BY DEF MayAssign
<1>5. q.pc = "grant_row" => q.route.does \in {"grant", "revoke"}
  BY DEF Located
<1> QED
  BY <1>1, <1>2, <1>3, <1>4, <1>5 DEF Sound

\* The requests that a step does not move.
LEMMA OthersStay ==
    ASSUME IInv, Watch, NEW r \in Request, requests'[r] = requests[r], r \notin overtaken'
    PROVE  Sound(requests[r])'
<1>1. PICK q \in RequestState : q = requests[r] /\ q = requests'[r] /\ Located(q)
  BY DEF IInv, Callers
<1>2. CASE q.pc = "idle"
  BY <1>1, <1>2 DEF Sound
<1>3. CASE q.pc # "idle"
  <2>1. /\ r \notin overtaken
        /\ \A u \in {q.user, q.target} : u \in User => members'[u] = members[u]
        /\ \A p \in q.ends : projects'[p] = projects[p] /\ grants'[p] = grants[p]
    BY <1>1, <1>3, BasisStays
  <2>2. Sound(q)
    BY <1>1, <2>1 DEF IInv, Fresh
  <2>3. Sound(q)'
    BY <1>1, <2>1, <2>2, SoundStays
  <2>4. MayAssign(requests[r], requests[r].goal, requests[r].standing)'
           <=> MayAssign(q, q.goal, q.standing)'
    BY <1>1
  <2> QED
    BY <1>1, <2>3, <2>4 DEF Sound
<1> QED
  BY <1>2, <1>3

LEMMA WatchedStays == ASSUME IInv, Watch PROVE overtaken' \subseteq Request
BY DEF Watch, InFlight

\* A step that only reads, or lets a request in.
LEMMA ReadStays ==
    ASSUME IInv, Watch, NEW r \in Request, NEW new \in RequestState, Located(new),
           r \notin overtaken => Sound(new),
           requests' = [requests EXCEPT ![r] = new],
           UNCHANGED <<tables, edits>>, served' \in 0..MaxServed
    PROVE  IInv'
<1>1. Tables' /\ Kept
  BY DEF IInv, Tables, tables, Kept
<1>2. Callers'
  BY <1>1, CallersStay
<1>3. /\ requests'[r] = new
      /\ \A s \in Request : s # r => requests'[s] = requests[s]
  BY DEF IInv, Callers
<1>4. ASSUME r \notin overtaken' PROVE Sound(requests[r])'
  <2>1. CASE new.pc = "idle"
    BY <1>3, <2>1 DEF Sound
  <2>2. CASE new.pc # "idle"
    <3>1. r \notin overtaken
      BY <1>3, <1>4, <2>2 DEF Watch, InFlight
    <3>2. Sound(new)'
      BY <3>1, SoundStays DEF tables
    <3>3. MayAssign(requests[r], requests[r].goal, requests[r].standing)'
             <=> MayAssign(new, new.goal, new.standing)'
      BY <1>3
    <3> QED
      BY <1>3, <3>2, <3>3 DEF Sound
  <2> QED
    BY <2>1, <2>2
<1>5. Fresh'
  BY <1>3, <1>4, OthersStay DEF Fresh
<1> QED
  BY <1>1, <1>2, <1>5, WatchedStays DEF IInv

\* A step that writes ends its request.
LEMMA WriteStays ==
    ASSUME IInv, Watch, NEW r \in Request, Finish(r), Tables', Kept
    PROVE  IInv'
<1>1. Located(Idle)
  BY IdleTyped DEF Located
<1>2. Callers'
  BY <1>1, IdleTyped, CallersStay DEF Finish
<1>3. /\ requests'[r] = Idle
      /\ \A s \in Request : s # r => requests'[s] = requests[s]
  BY DEF IInv, Callers, Finish
<1>4. Sound(requests[r])'
  BY <1>3, IdleTyped DEF Sound
<1>5. Fresh'
  BY <1>3, <1>4, OthersStay DEF Fresh
<1> QED
  BY <1>2, <1>5, WatchedStays DEF IInv

LEMMA FinishStays ==
    ASSUME IInv, Watch, NEW r \in Request, Finish(r), UNCHANGED <<tables, edits, served>>
    PROVE  IInv'
<1>1. Tables' /\ Kept
  BY DEF IInv, Tables, tables, Kept
<1> QED
  BY <1>1, WriteStays

-----------------------------------------------------------------------------
(* The steps of a request.                                                 *)

LEMMA ArriveSound ==
    ASSUME IInv, Watch, NEW r \in Request, NEW u \in User, NEW route \in Routes,
           NEW ends \in SUBSET Project, NEW also \in SUBSET Project,
           NEW target \in User \cup {Nobody},
           NEW goal \in InUse \cup {Nobody}, NEW mine \in BOOLEAN,
           route.does # "link" => \E p \in Project : ends = {p},
           route.does # "report" => also = {},
           route.does \in {"grant", "revoke"} => target \in User,
           route.does = "grant" => goal \in InUse,
           Arrive(r, u, route, ends, also, target, goal, mine)
    PROVE  IInv'
<1> DEFINE listed == route.needs = {} \/ members[u] \in route.needs
           new == [pc |-> IF listed THEN "handle" ELSE "grants", user |-> u,
               role |-> members[u], route |-> route, ends |-> ends,
               also |-> also, unchecked |-> ends, status |-> "none", acting |-> Nobody,
               target |-> target, standing |-> Nobody, goal |-> goal, mine |-> mine]
<1>1. members[u] \in Role /\ members[u] # Nobody
  BY DEF IInv, Tables, Arrive
<1>2. /\ new \in RequestState /\ new.pc \in {"handle", "grants"} /\ new.user = u
      /\ new.role = members[u] /\ new.route = route /\ new.ends = ends /\ new.also = also
      /\ new.unchecked = ends /\ new.target = target /\ new.goal = goal
  BY <1>1 DEF RequestState, Step, Status
<1>3. requests' = [requests EXCEPT ![r] = new] /\ UNCHANGED <<tables, edits>>
  BY DEF Arrive
<1>4. served' \in 0..MaxServed
  BY DEF IInv, Tables, Arrive
<1>5. listed \/ route.scoped
  BY DEF Arrive
<1> HIDE DEF new
<1>6. route.does = "create" => members[u] \in route.needs
  BY <1>5, RouteFacts DEF Admins
<1> HIDE DEF listed
<1>7. Located(new)
  BY <1>2, <1>6 DEF Located, Late
<1>8. Sound(new)
  BY <1>1, <1>2 DEF Sound, Late
<1> QED
  BY <1>2, <1>3, <1>4, <1>7, <1>8, ReadStays

LEMMA BeginSound ==
    ASSUME IInv, Watch, NEW r \in Request, Begin(r) PROVE IInv'
<1>1. PICK u \in User, route \in Routes, p \in Project :
        CASE route.does \in {"grant", "revoke"} ->
               \E target \in User :
                  \E goal \in IF route.does = "grant" THEN InUse ELSE {Nobody} :
                     Arrive(r, u, route, {p}, {}, target, goal, TRUE)
          [] route.does = "link" ->
               \E other \in Project :
                  Arrive(r, u, route, {p, other}, {}, Nobody, Nobody, TRUE)
          [] route.does = "report" ->
               \E also \in SUBSET (Project \ {p}) :
                  Arrive(r, u, route, {p}, also, Nobody, Nobody, TRUE)
          [] route.does = "record" ->
               \E mine \in BOOLEAN : Arrive(r, u, route, {p}, {}, Nobody, Nobody, mine)
          [] OTHER -> Arrive(r, u, route, {p}, {}, Nobody, Nobody, TRUE)
  BY DEF Begin
<1>2. CASE route.does \in {"grant", "revoke"}
  <2>1. PICK target \in User, goal \in IF route.does = "grant" THEN InUse ELSE {Nobody} :
            Arrive(r, u, route, {p}, {}, target, goal, TRUE)
    BY <1>1, <1>2
  <2>2. goal \in InUse \cup {Nobody} /\ (route.does = "grant" => goal \in InUse)
    BY <2>1
  <2> QED
    BY <1>2, <2>1, <2>2, ArriveSound
<1>3. CASE route.does = "link"
  <2>1. PICK other \in Project : Arrive(r, u, route, {p, other}, {}, Nobody, Nobody, TRUE)
    BY <1>1, <1>3
  <2> QED
    BY <1>3, <2>1, ArriveSound
<1>4. CASE route.does \notin {"grant", "revoke", "link"}
  <2>1. PICK mine \in BOOLEAN, also \in SUBSET Project :
            /\ Arrive(r, u, route, {p}, also, Nobody, Nobody, mine)
            /\ route.does # "report" => also = {}
    BY <1>1, <1>4
  <2> QED
    BY <1>4, <2>1, ArriveSound
<1> QED
  BY <1>2, <1>3, <1>4

\* What a handler that goes on keeps of its record.
Same(new, q) ==
    /\ new.user = q.user /\ new.role = q.role /\ new.route = q.route /\ new.ends = q.ends
    /\ new.also = q.also /\ new.target = q.target /\ new.mine = q.mine

LEMMA GoesOn ==
    ASSUME IInv, NEW r \in Request, NEW next \in Step, Goto(r, next)
    PROVE  \E new \in RequestState :
              /\ requests' = [requests EXCEPT ![r] = new]
              /\ Same(new, requests[r]) /\ new.pc = next
              /\ new.unchecked = requests[r].unchecked /\ new.status = requests[r].status
              /\ new.acting = requests[r].acting /\ new.standing = requests[r].standing
              /\ new.goal = requests[r].goal
<1> DEFINE new == [requests[r] EXCEPT !.pc = next]
<1>1. requests[r] \in RequestState
  BY DEF IInv, Callers
<1>2. /\ new \in RequestState /\ Same(new, requests[r]) /\ new.pc = next
      /\ new.unchecked = requests[r].unchecked /\ new.status = requests[r].status
      /\ new.acting = requests[r].acting /\ new.standing = requests[r].standing
      /\ new.goal = requests[r].goal
  BY <1>1 DEF RequestState, Same
<1>3. requests' = [requests EXCEPT ![r] = new]
  BY DEF Goto
<1> HIDE DEF new
<1> QED
  BY <1>2, <1>3

\* A request that is not past its checks yet.
LEMMA EarlySound ==
    ASSUME IInv, Watch, NEW r \in Request, NEW next \in {"handle", "insert", "access", "write"},
           requests[r].pc \in {"grants", "handle"}, Goto(r, next),
           UNCHANGED <<tables, edits, served>>,
           next = "insert" => requests[r].route.does = "create",
           next = "access" => requests[r].route.does \in {"write", "link", "record", "report"},
           next = "write" => requests[r].route.does = "duplicate",
           next \in {"access", "write"} => \A p \in requests[r].ends : projects[p] # "none"
    PROVE  IInv'
<1>1. PICK new \in RequestState :
          /\ requests' = [requests EXCEPT ![r] = new]
          /\ Same(new, requests[r]) /\ new.pc = next
          /\ new.unchecked = requests[r].unchecked /\ new.goal = requests[r].goal
  <2>1. next \in Step
    BY DEF Step
  <2> QED
    BY <2>1, GoesOn
<1>2. Located(requests[r]) /\ requests[r].pc # "idle"
  BY DEF IInv, Callers
<1>3. Located(new)
  BY <1>1, <1>2 DEF Located, Same, Late
<1>4. ASSUME r \notin overtaken PROVE Sound(new)
  <2>1. Sound(requests[r])
    BY <1>4 DEF IInv, Fresh
  <2>2. new.unchecked = new.ends
    BY <1>1, <1>2 DEF Located, Same
  <2> QED
    BY <1>1, <1>2, <2>1, <2>2 DEF Sound, Same, Late
<1>5. served' \in 0..MaxServed
  BY DEF IInv, Tables
<1> QED
  BY <1>1, <1>3, <1>4, <1>5, ReadStays

LEMMA EndIs ==
    ASSUME IInv, NEW r \in Request, requests[r].pc # "idle", requests[r].route.does # "link"
    PROVE  End(r) \in Project /\ requests[r].ends = {End(r)}
<1>1. PICK p \in Project : requests[r].ends = {p}
  BY DEF IInv, Callers, Located
<1>2. End(r) = p
  BY <1>1 DEF End
<1> QED
  BY <1>1, <1>2

LEMMA FirstStepsSound ==
    ASSUME IInv, Watch, NEW r \in Request,
           \/ MayHoldGrantFor(r) \/ Read(r) \/ CreateRead(r)
           \/ RequireRow(r) \/ DuplicateRead(r) \/ Crash(r)
    PROVE  IInv'
<1>1. CASE Finish(r)
  BY <1>1, FinishStays DEF MayHoldGrantFor, Read, CreateRead, RequireRow, DuplicateRead, Crash
<1>2. CASE MayHoldGrantFor(r) /\ Goto(r, "handle")
  BY <1>2, EarlySound DEF MayHoldGrantFor
<1>3. CASE CreateRead(r) /\ Goto(r, "insert")
  BY <1>3, EarlySound DEF CreateRead, Handles
<1>4. CASE RequireRow(r) /\ Goto(r, "access") /\ ~Finish(r)
  BY <1>4, EarlySound DEF RequireRow, Handles
<1>5. CASE DuplicateRead(r) /\ Goto(r, "write") /\ ~Finish(r)
  <2>1. projects[End(r)] # "none" /\ requests[r].pc = "handle"
        /\ requests[r].route.does = "duplicate"
    BY <1>5 DEF DuplicateRead, Handles
  <2>2. \A p \in requests[r].ends : projects[p] # "none"
    BY <2>1, EndIs
  <2> QED
    BY <1>5, <2>1, <2>2, EarlySound DEF DuplicateRead
<1> QED
  BY <1>1, <1>2, <1>3, <1>4, <1>5
     DEF MayHoldGrantFor, Read, CreateRead, RequireRow, DuplicateRead, Crash

LEMMA RequireProjectSound ==
    ASSUME IInv, Watch, NEW r \in Request, RequireProject(r) PROVE IInv'
<1> DEFINE q == requests[r]
           status == projects[End(r)]
<1>1. /\ q \in RequestState /\ Located(q) /\ q.pc = "handle"
      /\ q.route.does \in {"update", "archive", "restore", "grant", "revoke"}
  BY DEF IInv, Callers, RequireProject, Handles
<1>2. End(r) \in Project /\ q.ends = {End(r)}
  BY <1>1, EndIs
<1>3. CASE Finish(r)
  BY <1>3, FinishStays DEF RequireProject
<1>4. CASE status # "none" /\ requests' = [requests EXCEPT ![r].pc = "access",
                                                          ![r].status = status]
  <2> DEFINE new == [q EXCEPT !.pc = "access", !.status = status]
  <2>1. status \in Status
    BY <1>2 DEF IInv, Tables
  <2>2. /\ new \in RequestState /\ Same(new, q) /\ new.pc = "access" /\ new.status = status
        /\ new.unchecked = q.unchecked /\ new.goal = q.goal
    BY <1>1, <2>1 DEF RequestState, Same, Step
  <2>3. requests' = [requests EXCEPT ![r] = new]
    BY <1>1, <1>4 DEF RequestState
  <2> HIDE DEF new
  <2>4. Located(new)
    BY <1>1, <1>2, <1>4, <2>2 DEF Located, Same, Late
  <2>5. ASSUME r \notin overtaken PROVE Sound(new)
    <3>1. Sound(q)
      BY <2>5 DEF IInv, Fresh
    <3>2. q.unchecked = q.ends
      BY <1>1 DEF Located
    <3> QED
      BY <1>1, <1>2, <2>2, <3>1, <3>2 DEF Sound, Same, Late
  <2>6. served' \in 0..MaxServed /\ UNCHANGED <<tables, edits>>
    BY DEF IInv, Tables, RequireProject
  <2> QED
    BY <2>2, <2>3, <2>4, <2>5, <2>6, ReadStays
<1> QED
  BY <1>3, <1>4 DEF RequireProject

LEMMA AssertRouteAccessSound ==
    ASSUME IInv, Watch, NEW r \in Request, NEW p \in Project, AssertRouteAccess(r, p)
    PROVE  IInv'
<1> DEFINE q == requests[r]
           role == EffectiveRole(q, p)
           left == q.unchecked \ {p}
           next == IF left = {} THEN After(q) ELSE "access"
           new == [q EXCEPT !.acting = role, !.unchecked = left, !.pc = next]
<1>1. q \in RequestState /\ Located(q) /\ q.pc = "access" /\ p \in q.unchecked
  BY DEF IInv, Callers, AssertRouteAccess
<1>2. CASE Finish(r)
  BY <1>2, FinishStays DEF AssertRouteAccess
<1>3. CASE /\ role \in q.route.needs /\ (left = {} => ~Refuses(q))
           /\ requests' = [requests EXCEPT ![r].acting = role, ![r].unchecked = left,
                             ![r].pc = next]
  <2>1. role \in Role \cup {Nobody} /\ left \subseteq Project
    <3>1. q.role \in Role \cup {Nobody} /\ q.user \in User /\ q.unchecked \subseteq Project
      BY <1>1 DEF RequestState, Located
    <3>2. grants[p][q.user] \in InUse \cup {Nobody}
      BY <3>1 DEF IInv, Tables
    <3> QED
      BY <3>1, <3>2 DEF EffectiveRole
  <2>2. next \in Step
    BY DEF After, Step
  <2>3. /\ new \in RequestState /\ Same(new, q) /\ new.acting = role
        /\ new.unchecked = left /\ new.status = q.status /\ new.standing = q.standing
        /\ new.goal = q.goal /\ new.pc = next
    <3> HIDE DEF role, left, next
    <3> QED
      BY <1>1, <2>1, <2>2 DEF RequestState, Same
  <2>4. requests' = [requests EXCEPT ![r] = new]
    BY <1>1, <1>3 DEF RequestState
  <2> HIDE DEF new
  <2>5. new.pc \in Late
    BY <2>3 DEF After, Late
  <2>6. q.route.does \notin {"read", "create", "duplicate"}
        /\ \A o \in q.ends : projects[o] # "none"
    BY <1>1 DEF Located, Late
  <2>7. Refuses(new) <=> Refuses(q)
    BY <2>3 DEF Refuses, Same
  <2>8. Located(new)
    BY <1>1, <1>3, <2>3, <2>5, <2>6, <2>7 DEF Located, Same, Late, After
  <2>9. ASSUME r \notin overtaken PROVE Sound(new)
    <3>1. Sound(q)
      BY <2>9 DEF IInv, Fresh
    <3>2. role = Holds(q.user, p)
      BY <1>1, <3>1 DEF Sound, EffectiveRole, Holds
    <3>3. \A o \in new.ends \ new.unchecked : Holds(new.user, o) \in new.route.needs
      BY <1>1, <1>3, <2>3, <2>6, <3>1, <3>2 DEF Sound, Same, Late
    <3>4. q.route.does \in {"grant", "revoke"} => q.ends = {p}
      BY <1>1 DEF Located
    <3>5. new.pc # "grant_row"
          /\ ~(new.pc = "write" /\ new.route.does \in {"grant", "revoke"})
      BY <2>3 DEF After, Same
    <3>6. q.route.does \in {"grant", "revoke"} =>
             \A o \in new.ends : new.acting = Holds(new.user, o)
      BY <2>3, <3>2, <3>4 DEF Same
    <3>7. q.route.does \in {"update", "archive", "restore", "grant", "revoke"} =>
             \A o \in new.ends : new.status = projects[o]
      BY <1>1, <2>3, <3>1 DEF Sound, Same, Late
    <3>8. new.role = members[new.user] /\ new.role # Nobody /\ new.route = q.route
      BY <1>1, <2>3, <3>1 DEF Sound, Same
    <3> QED
      BY <3>3, <3>5, <3>6, <3>7, <3>8 DEF Sound
  <2>10. served' \in 0..MaxServed /\ UNCHANGED <<tables, edits>>
    BY DEF IInv, Tables, AssertRouteAccess
  <2> QED
    BY <2>3, <2>4, <2>8, <2>9, <2>10, ReadStays
<1> QED
  BY <1>2, <1>3 DEF AssertRouteAccess

\* MayAssign looks at what a request keeps, but for the goal and the standing.
LEMMA MayAssignSame ==
    ASSUME NEW q, NEW new, Same(new, q), new.status = q.status, new.acting = q.acting,
           NEW goal, NEW standing, MayAssign(q, goal, standing)
    PROVE  MayAssign(new, goal, standing)
BY DEF MayAssign, Same

LEMMA RequireMemberSound ==
    ASSUME IInv, Watch, NEW r \in Request, RequireMember(r) PROVE IInv'
<1> DEFINE q == requests[r]
           standing == members[q.target]
           next == IF q.route.does = "grant" THEN "write" ELSE "grant_row"
           new == [q EXCEPT !.standing = standing, !.pc = next]
<1>1. q \in RequestState /\ Located(q) /\ q.pc = "target"
  BY DEF IInv, Callers, RequireMember
<1>2. q.route.does \in {"grant", "revoke"} /\ q.target \in User
  BY <1>1 DEF Located
<1>3. CASE Finish(r)
  BY <1>3, FinishStays DEF RequireMember
<1>4. CASE /\ standing # Nobody
           /\ q.route.does = "grant" => MayAssign(q, q.goal, standing)
           /\ requests' = [requests EXCEPT ![r].standing = standing, ![r].pc = next]
  <2>1. standing \in Role \cup {Nobody} /\ next \in Step
    BY <1>2 DEF IInv, Tables, Step
  <2>2. /\ new \in RequestState /\ Same(new, q) /\ new.acting = q.acting
        /\ new.unchecked = q.unchecked /\ new.status = q.status /\ new.standing = standing
        /\ new.goal = q.goal /\ new.pc = next
    <3> HIDE DEF standing, next
    <3> QED
      BY <1>1, <2>1 DEF RequestState, Same
  <2>3. requests' = [requests EXCEPT ![r] = new]
    BY <1>1, <1>4 DEF RequestState
  <2> HIDE DEF new
  <2>4. Refuses(new) <=> Refuses(q)
    BY <2>2 DEF Refuses, Same
  <2>5. Located(new)
    BY <1>1, <1>2, <2>2, <2>4 DEF Located, Same, Late
  <2>6. ASSUME r \notin overtaken PROVE Sound(new)
    <3>1. Sound(q)
      BY <2>6 DEF IInv, Fresh
    <3>2. new.pc = "write" => MayAssign(new, new.goal, new.standing)
      BY <1>4, <2>2, MayAssignSame
    <3>3. new.standing = members[new.target] /\ new.standing # Nobody
      BY <1>4, <2>2 DEF Same
    <3> QED
      BY <1>1, <1>2, <2>2, <3>1, <3>2, <3>3 DEF Sound, Same, Late
  <2>7. served' \in 0..MaxServed /\ UNCHANGED <<tables, edits>>
    BY DEF IInv, Tables, RequireMember
  <2> QED
    BY <2>2, <2>3, <2>5, <2>6, <2>7, ReadStays
<1> QED
  BY <1>3, <1>4 DEF RequireMember

LEMMA FindGrantSound ==
    ASSUME IInv, Watch, NEW r \in Request, FindGrant(r) PROVE IInv'
<1> DEFINE q == requests[r]
           goal == grants[End(r)][q.target]
           new == [q EXCEPT !.goal = goal, !.pc = "write"]
<1>1. q \in RequestState /\ Located(q) /\ q.pc = "grant_row"
  BY DEF IInv, Callers, FindGrant
<1>2. q.route.does = "revoke" /\ q.target \in User /\ End(r) \in Project
  BY <1>1, EndIs DEF Located
<1>3. CASE Finish(r)
  BY <1>3, FinishStays DEF FindGrant
<1>4. CASE /\ MayAssign(q, goal, q.standing)
           /\ requests' = [requests EXCEPT ![r].goal = goal, ![r].pc = "write"]
  <2>1. goal \in Role \cup {Nobody}
    BY <1>2 DEF IInv, Tables
  <2>2. /\ new \in RequestState /\ Same(new, q) /\ new.acting = q.acting
        /\ new.unchecked = q.unchecked /\ new.status = q.status
        /\ new.standing = q.standing /\ new.goal = goal /\ new.pc = "write"
    <3> HIDE DEF goal
    <3> QED
      BY <1>1, <2>1 DEF RequestState, Same, Step
  <2>3. requests' = [requests EXCEPT ![r] = new]
    BY <1>1, <1>4 DEF RequestState
  <2> HIDE DEF new
  <2>4. Refuses(new) <=> Refuses(q)
    BY <2>2 DEF Refuses, Same
  <2>5. Located(new)
    BY <1>1, <1>2, <2>2, <2>4 DEF Located, Same, Late
  <2>6. ASSUME r \notin overtaken PROVE Sound(new)
    <3>1. Sound(q)
      BY <2>6 DEF IInv, Fresh
    <3>2. MayAssign(new, new.goal, new.standing)
      BY <1>4, <2>2, MayAssignSame
    <3>3. \A p \in new.ends : new.goal = grants[p][new.target]
      BY <1>1, <1>2, <2>2, EndIs DEF Same
    <3> QED
      BY <1>1, <1>2, <2>2, <3>1, <3>2, <3>3 DEF Sound, Same, Late
  <2>7. served' \in 0..MaxServed /\ UNCHANGED <<tables, edits>>
    BY DEF IInv, Tables, FindGrant
  <2> QED
    BY <2>2, <2>3, <2>5, <2>6, <2>7, ReadStays
<1> QED
  BY <1>3, <1>4 DEF FindGrant

-----------------------------------------------------------------------------
(* The writes.                                                             *)

LEMMA InsertSound ==
    ASSUME IInv, Watch, NEW r \in Request, Insert(r) PROVE IInv'
<1>1. Finish(r) /\ UNCHANGED <<members, grants, edits, served>>
  BY DEF Insert
<1>2. Tables' /\ Kept
  BY <1>1 DEF IInv, Tables, Insert, Status, Kept
<1> QED
  BY <1>1, <1>2, WriteStays

\* The one project a write is about exists.
LEMMA EndExists ==
    ASSUME IInv, NEW r \in Request, requests[r].pc = "write",
           requests[r].route.does # "link"
    PROVE  End(r) \in Project /\ requests[r].ends = {End(r)} /\ projects[End(r)] # "none"
<1>1. End(r) \in Project /\ requests[r].ends = {End(r)}
  BY EndIs
<1> QED
  BY <1>1 DEF IInv, Callers, Located, Late

LEMMA GrantWriteSound ==
    ASSUME IInv, Watch, NEW r \in Request, GrantWrite(r) PROVE IInv'
<1> DEFINE q == requests[r]
           role == IF q.route.does = "grant" THEN q.goal ELSE Nobody
<1>1. /\ q.pc = "write" /\ q.route.does \in {"grant", "revoke"}
      /\ Finish(r) /\ UNCHANGED <<members, projects, edits, served>>
      /\ grants' = [grants EXCEPT ![End(r)][q.target] = role]
  BY DEF GrantWrite, Writes
<1>2. /\ End(r) \in Project /\ projects[End(r)] # "none" /\ q.target \in User
      /\ role \in InUse \cup {Nobody}
  BY <1>1, EndExists DEF IInv, Callers, Located
<1> HIDE DEF role
<1>3. /\ grants' \in [Project -> [User -> InUse \cup {Nobody}]]
      /\ \A p \in Project : p # End(r) => grants'[p] = grants[p]
  BY <1>1, <1>2 DEF IInv, Tables
<1>4. Tables' /\ Kept
  BY <1>1, <1>2, <1>3 DEF IInv, Tables, Kept
<1> QED
  BY <1>1, <1>4, WriteStays

LEMMA StatusWriteSound ==
    ASSUME IInv, Watch, NEW r \in Request, StatusWrite(r) PROVE IInv'
<1>1. /\ requests[r].pc = "write" /\ requests[r].route.does \in {"archive", "restore"}
      /\ Finish(r) /\ UNCHANGED <<members, grants, edits, served>>
  BY DEF StatusWrite, Writes
<1>2. PICK status \in {"archived", "active"} :
          projects' = [projects EXCEPT ![End(r)] = status]
  BY DEF StatusWrite
<1>3. End(r) \in Project /\ projects[End(r)] # "none"
  BY <1>1, EndExists
<1>4. Tables' /\ Kept
  BY <1>1, <1>2, <1>3 DEF IInv, Tables, Status, Kept
<1> QED
  BY <1>1, <1>4, WriteStays

LEMMA RowWriteSound ==
    ASSUME IInv, Watch, NEW r \in Request, RowWrite(r) PROVE IInv'
<1>1. /\ requests[r].pc = "write" /\ Finish(r)
      /\ UNCHANGED <<members, projects, grants, served>>
      /\ edits' = [p \in Project |-> edits[p] + (IF p \in Reached(requests[r]) THEN 1 ELSE 0)]
  BY DEF RowWrite, Writes, tables
<1>2. \A p \in Reached(requests[r]) : projects[p] # "none"
  BY <1>1 DEF IInv, Callers, Located, Late, Reached
<1>3. edits' \in [Project -> Nat]
  BY <1>1 DEF IInv, Tables
<1>4. ASSUME NEW p \in Project, projects[p] = "none" PROVE edits'[p] = 0
  <2>1. edits[p] = 0 /\ p \notin Reached(requests[r])
    BY <1>2, <1>4 DEF IInv, Tables
  <2> QED
    BY <1>1, <2>1
<1>5. Tables' /\ Kept
  BY <1>1, <1>3, <1>4 DEF IInv, Tables, Kept
<1> QED
  BY <1>1, <1>5, WriteStays

LEMMA MemberChangesSound ==
    ASSUME IInv, Watch, NEW u \in User, NEW role \in InUse \cup {Nobody},
           MemberChanges(u, role)
    PROVE  IInv'
<1>1. requests' = requests /\ UNCHANGED <<projects, grants, edits>>
  BY DEF MemberChanges
<1>2. Tables'
  BY DEF IInv, Tables, MemberChanges
<1>3. Callers'
  BY <1>1 DEF IInv, Callers, Located, Refuses
<1>4. Fresh'
  BY <1>1, OthersStay DEF Fresh
<1> QED
  BY <1>2, <1>3, <1>4, WatchedStays DEF IInv

-----------------------------------------------------------------------------
LEMMA NextSound == IInv /\ [Next]_vars => IInv'
<1> SUFFICES ASSUME IInv, [Next]_vars PROVE IInv'
  OBVIOUS
<1>1. CASE UNCHANGED vars
  BY <1>1 DEF vars, tables, IInv, Tables, Callers, Fresh, Located, Refuses, Sound, Holds,
     MayAssign
<1>2. ASSUME Watch, NEW r \in Request, Begin(r) \/ Continue(r) \/ Crash(r) PROVE IInv'
  BY <1>2, BeginSound, FirstStepsSound, InsertSound, RequireProjectSound,
     RequireMemberSound, FindGrantSound, GrantWriteSound, StatusWriteSound, RowWriteSound,
     AssertRouteAccessSound DEF Continue
<1>3. CASE Next
  BY <1>2, <1>3, MemberChangesSound DEF Next
<1> QED
  BY <1>1, <1>3

LEMMA Inductive == Spec => []IInv
BY InitSound, NextSound, PTL DEF Spec

\* The tables and the records of the requests in flight keep their types, and a
\* project that has not been created has neither grants nor rows.
THEOREM TypeCorrect == Spec => []TypeOK
BY Inductive, Typed, PTL

\* A request that commits has what its record says it is about to write.
LEMMA Committing ==
    ASSUME IInv, NEW r \in Request, Commits(r)
    PROVE  /\ Located(requests[r]) /\ Sound(requests[r]) /\ requests[r] \in RequestState
           /\ requests[r].pc \in {"insert", "write"}
BY DEF IInv, Callers, Fresh, Commits

LEMMA WhoWrites ==
    ASSUME IInv, Next, NEW r \in Request, Commits(r)
    PROVE  Insert(r) \/ GrantWrite(r) \/ StatusWrite(r) \/ RowWrite(r)
<1>1. <<projects, grants, edits>>' # <<projects, grants, edits>>
      /\ requests'[r] = Idle /\ requests[r] # Idle
  BY IdleTyped DEF Commits
<1>2. PICK s \in Request : Begin(s) \/ Continue(s) \/ Crash(s)
  BY <1>1 DEF Next, MemberChanges
<1>3. Insert(s) \/ GrantWrite(s) \/ StatusWrite(s) \/ RowWrite(s)
  <2>1. ASSUME NEW u, NEW route, NEW ends, NEW also, NEW target, NEW goal,
               NEW mine, Arrive(s, u, route, ends, also, target, goal, mine)
        PROVE  FALSE
    BY <1>1, <2>1 DEF Arrive, tables
  <2>2. CASE Begin(s)
    BY <2>1, <2>2 DEF Begin
  <2>3. ASSUME NEW p \in Project, AssertRouteAccess(s, p) PROVE FALSE
    BY <1>1, <2>3 DEF AssertRouteAccess, tables
  <2>4. CASE \/ MayHoldGrantFor(s) \/ Read(s) \/ CreateRead(s) \/ RequireProject(s)
             \/ RequireRow(s) \/ DuplicateRead(s) \/ RequireMember(s) \/ FindGrant(s)
             \/ Crash(s)
    BY <1>1, <2>4 DEF MayHoldGrantFor, Read, CreateRead, RequireProject, RequireRow,
       DuplicateRead, RequireMember, FindGrant, Crash, tables
  <2> QED
    BY <1>2, <2>2, <2>3, <2>4 DEF Continue
<1>4. s = r
  BY <1>1, <1>3 DEF Insert, GrantWrite, StatusWrite, RowWrite, Finish, IInv, Callers
<1> QED
  BY <1>3, <1>4

\* What a step of a request writes is in the projects the request is about, but for
\* the links of a defect being raised.
LEMMA WrittenWhere ==
    ASSUME IInv, Next, NEW r \in Request, Commits(r), NEW p \in Project, Written(p)
    PROVE  p \in requests[r].ends \/ requests[r].route.does = "report"
<1>1. \/ Insert(r) \/ GrantWrite(r) \/ StatusWrite(r) \/ RowWrite(r)
  BY WhoWrites
<1>2. requests[r].pc \in {"insert", "write"} /\ Located(requests[r])
  BY Committing
<1>3. requests[r].route.does # "link" => End(r) \in Project /\ requests[r].ends = {End(r)}
  BY <1>2, EndIs
<1>4. CASE RowWrite(r)
  <2>1. p \in Reached(requests[r])
    BY <1>4 DEF RowWrite, tables, Written, IInv, Tables
  <2> QED
    BY <1>2, <2>1 DEF Reached, Located
<1>5. CASE Insert(r)
  BY <1>2, <1>3, <1>5 DEF Insert, Located, Written, IInv, Tables
<1>6. CASE GrantWrite(r)
  BY <1>3, <1>6 DEF GrantWrite, Writes, Written, IInv, Tables
<1>7. CASE StatusWrite(r)
  BY <1>3, <1>7 DEF StatusWrite, Writes, Written, IInv, Tables
<1> QED
  BY <1>1, <1>4, <1>5, <1>6, <1>7

\* assertRouteAccess asks with the role read by the guard and the grant read by the
\* memo: as long as neither has changed, what a request writes is allowed by the
\* roles of its route, in every project with a row it writes, and no archived project
\* has its settings changed.  A case that is duplicated and the other ends of the
\* links of a defect being raised are the writes nobody asks about.
THEOREM WritesAreAllowedHolds == Spec => WritesAreAllowed
<1> DEFINE A == \A r \in Request : Commits(r) /\ requests[r].route.does # "duplicate" =>
        LET q == requests[r] IN
        \A p \in Project : Written(p) /\ ~(q.route.does = "report" /\ p \notin q.ends) =>
            /\ Holds(q.user, p) \in q.route.needs
            /\ q.route.does \in {"update", "archive", "grant", "revoke"} =>
                  projects[p] # "archived"
<1>1. ASSUME IInv, Next, NEW r \in Request, Commits(r),
             requests[r].route.does # "duplicate", NEW p \in requests[r].ends
      PROVE  /\ Holds(requests[r].user, p) \in requests[r].route.needs
             /\ requests[r].route.does \in {"update", "archive", "grant", "revoke"} =>
                   projects[p] # "archived"
  <2>1. /\ Located(requests[r]) /\ Sound(requests[r])
        /\ requests[r].pc \in {"insert", "write"}
    BY <1>1, Committing
  <2>2. CASE requests[r].pc = "insert"
    <3>1. Insert(r) /\ requests[r].route.does = "create"
      BY <1>1, <2>1, <2>2, WhoWrites DEF GrantWrite, StatusWrite, RowWrite, Writes, Located
    <3>2. projects[End(r)] = "none"
      BY <1>1, <3>1 DEF Commits, Insert
    <3>3. p = End(r) /\ p \in Project
      BY <1>1, <2>2, <3>1, EndIs
    <3>4. requests[r].user \in User /\ grants[p][requests[r].user] = Nobody
      BY <1>1, <2>1, <2>2, <3>2, <3>3 DEF IInv, Tables, Located
    <3> QED
      BY <2>1, <2>2, <3>1, <3>4 DEF Sound, Located, Holds
  <2>3. CASE requests[r].pc = "write"
    <3>1. requests[r].unchecked = {} /\ ~Refuses(requests[r])
      BY <1>1, <2>1, <2>3 DEF Located, Late
    <3>2. Holds(requests[r].user, p) \in requests[r].route.needs
      BY <1>1, <2>1, <2>3, <3>1 DEF Sound, Late
    <3>3. requests[r].route.does \in {"update", "archive", "grant", "revoke"} =>
             requests[r].status = projects[p]
      BY <1>1, <2>1, <2>3 DEF Sound, Late
    <3>4. requests[r].route.does \in {"grant", "revoke"} => requests[r].status # "archived"
      BY <2>1, <2>3 DEF Sound, MayAssign
    <3> QED
      BY <3>1, <3>2, <3>3, <3>4 DEF Refuses
  <2> QED
    BY <2>1, <2>2, <2>3
<1>2. ASSUME IInv, Next PROVE A
  BY <1>1, <1>2, WrittenWhere
<1> HIDE DEF A
<1>3. IInv /\ [Next]_vars => [A]_vars
  BY <1>2
<1> USE DEF A
<1> QED
  BY <1>3, Inductive, PTL DEF Spec, WritesAreAllowed

\* MayAssign compares the role given, or the one a revocation takes back, and the
\* target's own with the role the request acts with: as long as what it read stands,
\* nobody gives a role above the one they hold there or revokes one, or changes the
\* grants of an owner, of somebody above them, or their own.
THEOREM GrantsFollowRankHolds == Spec => GrantsFollowRank
<1> DEFINE A == \A r \in Request : Commits(r) => \A p \in Project, u \in User :
        grants'[p][u] # grants[p][u] =>
            LET q == requests[r] IN
            /\ u # q.user
            /\ members[u] \notin {Nobody, "organization_owner"}
            /\ ~Outranks(members[u], Holds(q.user, p))
            /\ \A role \in {grants'[p][u]} \ {Nobody} : ~Outranks(role, Holds(q.user, p))
            /\ q.route.does = "revoke" => ~Outranks(grants[p][u], Holds(q.user, p))
<1>1. ASSUME IInv, Next, NEW r \in Request, Commits(r), NEW p \in Project, NEW u \in User,
             grants'[p][u] # grants[p][u]
      PROVE  /\ u # requests[r].user
             /\ members[u] \notin {Nobody, "organization_owner"}
             /\ ~Outranks(members[u], Holds(requests[r].user, p))
             /\ \A role \in {grants'[p][u]} \ {Nobody} :
                   ~Outranks(role, Holds(requests[r].user, p))
             /\ requests[r].route.does = "revoke" =>
                   ~Outranks(grants[p][u], Holds(requests[r].user, p))
  <2>1. GrantWrite(r)
    BY <1>1, WhoWrites DEF Insert, StatusWrite, RowWrite, tables
  <2>2. /\ requests[r].pc = "write" /\ requests[r].route.does \in {"grant", "revoke"}
        /\ grants' = [grants EXCEPT ![End(r)][requests[r].target] =
              IF requests[r].route.does = "grant" THEN requests[r].goal ELSE Nobody]
    BY <2>1 DEF GrantWrite, Writes
  <2>3. /\ End(r) \in Project /\ requests[r].ends = {End(r)}
    BY <1>1, <2>2, EndIs
  <2>4. p = End(r) /\ u = requests[r].target
    BY <1>1, <2>2, <2>3 DEF IInv, Tables
  <2>5. /\ Sound(requests[r])
    BY <1>1, Committing
  <2>6. /\ requests[r].acting = Holds(requests[r].user, p)
        /\ requests[r].standing = members[u] /\ members[u] # Nobody
        /\ MayAssign(requests[r], requests[r].goal, members[u])
    BY <2>2, <2>3, <2>4, <2>5 DEF Sound, Late
  <2>7. grants'[p][u] \in {requests[r].goal, Nobody}
    BY <1>1, <2>2, <2>3, <2>4 DEF IInv, Tables
  <2>8. requests[r].route.does = "revoke" => requests[r].goal = grants[p][u]
    BY <2>2, <2>3, <2>4, <2>5 DEF Sound
  <2> QED
    BY <2>4, <2>6, <2>7, <2>8 DEF MayAssign
<1>2. ASSUME IInv, Next PROVE A
  <2> SUFFICES ASSUME NEW r \in Request, Commits(r), NEW p \in Project, NEW u \in User,
                      grants'[p][u] # grants[p][u]
               PROVE  LET q == requests[r] IN
            /\ u # q.user
            /\ members[u] \notin {Nobody, "organization_owner"}
            /\ ~Outranks(members[u], Holds(q.user, p))
            /\ \A role \in {grants'[p][u]} \ {Nobody} : ~Outranks(role, Holds(q.user, p))
            /\ q.route.does = "revoke" => ~Outranks(grants[p][u], Holds(q.user, p))
    OBVIOUS
  <2> HIDE DEF A
  <2> QED
    BY <1>1, <1>2
<1> HIDE DEF A
<1>3. IInv /\ [Next]_vars => [A]_vars
  BY <1>2
<1> USE DEF A
<1> QED
  BY <1>3, Inductive, PTL DEF Spec, GrantsFollowRank
=============================================================================
