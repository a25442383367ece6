---------------------------- MODULE TenancyProofs ----------------------------
(* TLAPS proofs about Tenancy, for every set of organizations, tabs and    *)
(* connections and every number of changes.                                *)
EXTENDS Tenancy, TLAPS

USE TenancyAssumption

\* How the organizations a call carries hang together as it goes on.
CallSound(q) ==
    /\ q.pc # "idle" /\ q.kind \in Scoped => q.meant \in {q.header, Nobody}
    /\ q.pc # "idle" /\ q.kind \in Unscoped => q.context = Nobody
    /\ q.pc = "sent" => q.context = Nobody /\ (q.kind \in Unscoped => q.target \in Organization)
    /\ q.pc = "admitted" => /\ q.kind \in Scoped
                            /\ q.context \in Organization /\ q.context = q.header
    /\ q.pc \in {"begin", "audit", "commit"} =>
          /\ q.kind \in Unscoped \cup {"create_requirement"}
          /\ q.target \in Organization
          /\ q.kind = "create_requirement" => q.context = q.header /\ q.context = q.target
    /\ q.pc = "audit_after" => q.target \in Organization /\ q.context \in {Nobody, q.target}

\* What is audited after the commit has been committed.
Logged(q) == q.pc = "audit_after" => \E k \in changes : k.id = q.id /\ k.in = q.target

Callers == /\ calls \in [Tab -> CallState]
           /\ \A t \in Tab : CallSound(calls[t]) /\ Logged(calls[t])

\* A free connection has no setting, a held one that of the call it runs.
Lent(c) ==
    /\ connections[c].by = Nobody => connections[c].setting = Nobody
    /\ \A t \in Tab : connections[c].by = t =>
          calls[t].pc \in {"audit", "commit"} /\ connections[c].setting = calls[t].context

Pool == /\ connections \in [Connection -> [setting: Scope, by: Tab \cup {Nobody}]]
        /\ \A c \in Connection : Lent(c)
        /\ \A c, d \in Connection :
              connections[c].by = connections[d].by /\ connections[c].by # Nobody => c = d

\* What a tab has stored last is what it shows.
Browser == /\ stored \in [organization: Scope, by: Tab \cup {Nobody}]
           /\ tabs \in [Tab -> TabState]
           /\ \A t \in Tab : stored.by = t /\ tabs[t].shows # Nobody =>
                 tabs[t].shows = stored.organization

World == standing \in [Organization -> Standing] /\ served \in 0..MaxServed

Log == /\ changes \subseteq Change /\ entries \subseteq Entry
       /\ AuditTellsWhatCommitted /\ ChangesLandWhereShown

IInv == Callers /\ Pool /\ Browser /\ World /\ Log /\ StatementsSeeTheirOwn

LEMMA Typed == IInv => TypeOK
BY DEF IInv, Callers, Pool, Browser, World, Log, StatementsSeeTheirOwn, TypeOK

LEMMA IdleTyped ==
    /\ Idle \in CallState /\ Idle.pc = "idle" /\ Idle.context = Nobody
    /\ CallSound(Idle) /\ Logged(Idle) /\ Logged(Idle)'
BY DEF Idle, CallState, Pc, Scope, Scoped, Unscoped, CallSound, Logged

LEMMA InitSound == Init => IInv
BY IdleTyped DEF Init, IInv, Callers, Pool, Lent, Browser, World, Log, Scope, TabState,
   SignedOut, StatementsSeeTheirOwn, AuditTellsWhatCommitted, ChangesLandWhereShown

-----------------------------------------------------------------------------
(* What a step does to the calls, the pool and the log.                    *)

LEMMA CallersStay ==
    ASSUME IInv, NEW t \in Tab, NEW new \in CallState, calls' = [calls EXCEPT ![t] = new],
           CallSound(new), Logged(new)', changes \subseteq changes'
    PROVE  Callers'
<1>1. /\ calls' \in [Tab -> CallState] /\ calls'[t] = new
      /\ \A u \in Tab : u # t => calls'[u] = calls[u]
  BY DEF IInv, Callers
<1>2. ASSUME NEW u \in Tab PROVE CallSound(calls[u])' /\ Logged(calls[u])'
  <2>1. CASE u = t
    BY <1>1, <2>1 DEF CallSound, Logged
  <2>2. CASE u # t
    <3>1. CallSound(calls[u]) /\ Logged(calls[u]) /\ calls'[u] = calls[u]
      BY <1>1, <2>2 DEF IInv, Callers
    <3> QED
      BY <3>1 DEF CallSound, Logged
  <2> QED
    BY <2>1, <2>2
<1> QED
  BY <1>1, <1>2 DEF Callers

\* A call that holds no connection before, or holds it on for the same organization.
LEMMA PoolStays ==
    ASSUME IInv, NEW t \in Tab, NEW new \in CallState, calls' = [calls EXCEPT ![t] = new],
           connections' = connections,
           \/ calls[t].pc \notin {"audit", "commit"}
           \/ new.pc \in {"audit", "commit"} /\ new.context = calls[t].context
    PROVE  Pool'
<1>1. calls'[t] = new /\ \A u \in Tab : u # t => calls'[u] = calls[u]
  BY DEF IInv, Callers
<1>2. ASSUME NEW c \in Connection PROVE Lent(c)'
  <2>1. Lent(c)
    BY DEF IInv, Pool
  <2> QED
    BY <1>1, <2>1 DEF Lent
<1> QED
  BY <1>2 DEF IInv, Pool

\* A statement on a free connection leaves it as it was, whatever it announced.
LEMMA Borrowed ==
    ASSUME IInv, NEW c \in Connection, NEW announced, Free(c),
           connections' = [connections EXCEPT ![c] = Returned(announced)]
    PROVE  connections' = connections
<1>1. connections[c] = [setting |-> Nobody, by |-> Nobody]
  BY DEF IInv, Pool, Lent, Free
<1> QED
  BY <1>1 DEF Returned, IInv, Pool

\* A transaction gives its connection back.
LEMMA PoolReturned ==
    ASSUME IInv, NEW t \in Tab, NEW c \in Connection, connections[c].by = t,
           NEW new \in CallState, calls' = [calls EXCEPT ![t] = new], EndTransaction(c)
    PROVE  Pool'
<1>1. calls'[t] = new /\ \A u \in Tab : u # t => calls'[u] = calls[u]
  BY DEF IInv, Callers
<1>2. /\ connections' \in [Connection -> [setting: Scope, by: Tab \cup {Nobody}]]
      /\ connections'[c] = [setting |-> Nobody, by |-> Nobody]
      /\ \A d \in Connection : d # c => connections'[d] = connections[d]
  BY DEF IInv, Pool, EndTransaction, Returned, Scope
<1>3. \A d \in Connection : d # c => connections[d].by # t
  BY DEF IInv, Pool
<1>4. ASSUME NEW d \in Connection PROVE Lent(d)'
  <2>1. CASE d = c
    BY <1>2, <2>1 DEF Lent
  <2>2. CASE d # c
    <3>1. Lent(d) /\ connections'[d] = connections[d] /\ connections[d].by # t
      BY <1>2, <1>3, <2>2 DEF IInv, Pool
    <3> QED
      BY <1>1, <3>1 DEF Lent
  <2> QED
    BY <2>1, <2>2
<1>5. \A d, e \in Connection :
         connections'[d].by = connections'[e].by /\ connections'[d].by # Nobody => d = e
  BY <1>2 DEF IInv, Pool
<1> QED
  BY <1>2, <1>4, <1>5 DEF Pool

\* A statement under its own request's setting, which the policy allows.
LEMMA Observed ==
    ASSUME IInv, NEW t \in Tab, NEW announced \in Scope, NEW allowed \in BOOLEAN,
           calls[t].context = announced, announced = Nobody \/ allowed,
           Observe(t, announced, allowed)
    PROVE  StatementsSeeTheirOwn'
<1>1. <<calls[t].context, announced>> \in {<<o, o>> : o \in Scope}
  OBVIOUS
<1> QED
  BY <1>1 DEF IInv, StatementsSeeTheirOwn, Observe

LEMMA AnnouncedIsOwn ==
    ASSUME IInv, NEW t \in Tab, NEW c \in Connection, Free(c)
    PROVE  Announced(t, c) = calls[t].context /\ Announced(t, c) \in Scope
<1>1. connections[c].setting = Nobody
  BY DEF IInv, Pool, Lent, Free
<1>2. calls[t].context \in Scope
  BY DEF IInv, Callers, CallState
<1> QED
  BY <1>1, <1>2 DEF Announced

\* The log may grow by a change, together with its entry if it needs one.
LEMMA Grows ==
    ASSUME IInv, NEW t \in Tab, NEW o \in Organization,
           calls[t].kind \in Scoped => calls[t].meant \in {o, Nobody},
           changes' = changes \cup {Committed(t, o)},
           \/ entries' = entries \cup {EntryOf(t, o)}
           \/ entries' = entries /\ calls[t].kind # "create_requirement"
    PROVE  Log' /\ \E k \in changes' : k.id = calls[t].id /\ k.in = o
<1>1. calls[t].id \in Nat /\ calls[t].kind \in Scoped \cup Unscoped /\ calls[t].meant \in Scope
  BY DEF IInv, Callers, CallState
<1>2. /\ Committed(t, o) \in Change /\ Committed(t, o).id = calls[t].id
      /\ Committed(t, o).in = o /\ Committed(t, o).kind = calls[t].kind
      /\ Committed(t, o).meant = calls[t].meant
  BY <1>1 DEF Committed, Change
<1>3. /\ EntryOf(t, o) \in Entry /\ EntryOf(t, o).id = calls[t].id /\ EntryOf(t, o).of = o
      /\ EntryOf(t, o) = [id |-> calls[t].id, of |-> o]
  BY <1>1 DEF EntryOf, Entry
<1>4. changes' \subseteq Change /\ entries' \subseteq Entry
  BY <1>2, <1>3 DEF IInv, Log
<1>5. \A e \in entries' : \E k \in changes' : k.id = e.id /\ k.in = e.of
  BY <1>2, <1>3 DEF IInv, Log, AuditTellsWhatCommitted
<1>6. \A k \in changes' : k.kind = "create_requirement" => [id |-> k.id, of |-> k.in] \in entries'
  BY <1>2, <1>3 DEF IInv, Log, AuditTellsWhatCommitted
<1>7. \A k \in changes' : k.kind \in Scoped => k.meant \in {k.in, Nobody}
  BY <1>2 DEF IInv, Log, ChangesLandWhereShown
<1> QED
  BY <1>2, <1>4, <1>5, <1>6, <1>7 DEF Log, AuditTellsWhatCommitted, ChangesLandWhereShown

LEMMA LogStays ==
    ASSUME IInv, UNCHANGED log
    PROVE  Log' /\ changes \subseteq changes'
BY DEF IInv, Log, log, AuditTellsWhatCommitted, ChangesLandWhereShown

LEMMA HistoryStays ==
    ASSUME IInv, UNCHANGED history
    PROVE  StatementsSeeTheirOwn'
BY DEF IInv, history, StatementsSeeTheirOwn

LEMMA WorldStays == ASSUME IInv, UNCHANGED <<standing, served>> PROVE World'
BY DEF IInv, World

LEMMA BrowserStays == ASSUME IInv, UNCHANGED browser PROVE Browser'
BY DEF IInv, Browser, browser

\* A tab stores what it shows.
LEMMA ChoiceStays ==
    ASSUME IInv, NEW t \in Tab, NEW o \in Scope, NEW shown \in TabState,
           shown.shows = o, Choose(t, o), tabs' = [tabs EXCEPT ![t] = shown]
    PROVE  Browser'
<1>1. stored' \in [organization: Scope, by: Tab \cup {Nobody}]
      /\ stored'.by = t /\ stored'.organization = o
  BY DEF Choose
<1>2. tabs' \in [Tab -> TabState] /\ tabs'[t] = shown
  BY DEF IInv, Browser
<1> QED
  BY <1>1, <1>2 DEF Browser

\* A call that goes on without touching the log.
LEMMA GoesOn ==
    ASSUME IInv, NEW t \in Tab, NEW pc \in Pc \ {"audit_after"}, Goto(t, pc)
    PROVE  \E new \in CallState :
              /\ calls' = [calls EXCEPT ![t] = new]
              /\ new.pc = pc /\ new.kind = calls[t].kind /\ new.id = calls[t].id
              /\ new.meant = calls[t].meant /\ new.header = calls[t].header
              /\ new.context = calls[t].context /\ new.target = calls[t].target
<1> DEFINE new == [calls[t] EXCEPT !.pc = pc]
<1>1. calls[t] \in CallState
  BY DEF IInv, Callers
<1>2. /\ new \in CallState /\ new.pc = pc /\ new.kind = calls[t].kind /\ new.id = calls[t].id
      /\ new.meant = calls[t].meant /\ new.header = calls[t].header
      /\ new.context = calls[t].context /\ new.target = calls[t].target
  BY <1>1 DEF CallState
<1>3. calls' = [calls EXCEPT ![t] = new]
  BY DEF Goto
<1> HIDE DEF new
<1> QED
  BY <1>2, <1>3

-----------------------------------------------------------------------------
(* The screens.                                                            *)

LEMMA TabsSound ==
    ASSUME IInv, NEW t \in Tab,
           Open(t) \/ SelectOrganization(t) \/ SignOut(t) \/ Close(t)
    PROVE  IInv'
<1>1. /\ SignedOut \in TabState /\ SignedOut.shows = Nobody
      /\ \A o \in Organization : Showing(o) \in TabState /\ Showing(o).shows = o
  BY DEF SignedOut, Showing, TabState, Scope
<1>2. Browser'
  <2>1. CASE Open(t) \/ SelectOrganization(t)
    BY <1>1, <2>1, ChoiceStays DEF Open, SelectOrganization, With, Scope
  <2>2. CASE SignOut(t)
    BY <1>1, <2>2, ChoiceStays DEF SignOut, Scope
  <2>3. CASE Close(t)
    BY <1>1, <2>3 DEF Close, IInv, Browser
  <2> QED
    BY <2>1, <2>2, <2>3
<1>3. UNCHANGED <<standing, connections, calls, served, log, history>>
  BY DEF Open, SelectOrganization, SignOut, Close
<1>4. Callers' /\ Pool'
  BY <1>3 DEF IInv, Callers, CallSound, Logged, Pool, Lent, log
<1> QED
  BY <1>2, <1>3, <1>4, LogStays, HistoryStays, WorldStays DEF IInv

\* send: what was meant is where the header says, or nowhere.
LEMMA SentSound ==
    ASSUME IInv, NEW t \in Tab, NEW call \in CallState, call.pc = "sent",
           call.context = Nobody, call.kind \in Unscoped => call.target \in Organization
    PROVE  /\ Sent(t, call) \in CallState /\ Sent(t, call).pc = "sent"
           /\ CallSound(Sent(t, call))
<1>1. CASE call.kind \in Unscoped
  BY <1>1 DEF Sent, CallSound, Scoped, Unscoped
<1>2. CASE call.kind \notin Unscoped
  <2> DEFINE meant == Meant(t, call.meant)
             sent == [call EXCEPT !.header = stored.organization, !.meant = meant]
  <2>1. stored.organization \in Scope
    BY DEF IInv, Browser
  <2>2. meant \in {stored.organization, Nobody}
    BY DEF Meant, IInv, Browser
  <2> HIDE DEF meant
  <2>3. meant \in Scope
    BY <2>1, <2>2 DEF Scope
  <2>4. /\ sent \in CallState /\ sent.pc = "sent" /\ sent.kind = call.kind
        /\ sent.meant = meant /\ sent.header = stored.organization
        /\ sent.context = Nobody /\ sent.target = call.target
    BY <2>1, <2>3 DEF CallState
  <2>5. Sent(t, call) = sent
    BY <1>2 DEF Sent, meant, CallState
  <2> HIDE DEF sent
  <2> QED
    BY <1>2, <2>2, <2>4, <2>5 DEF CallSound
<1> QED
  BY <1>1, <1>2

LEMMA SendSound ==
    ASSUME IInv, NEW t \in Tab, NEW call \in CallState, call.pc = "sent",
           call.context = Nobody, call.kind \in Unscoped => call.target \in Organization,
           calls' = [calls EXCEPT ![t] = Sent(t, call)],
           calls[t].pc \in {"idle", "sent"},
           UNCHANGED <<browser, standing, connections, log, history>>,
           served' \in 0..MaxServed
    PROVE  IInv'
<1>1. PICK new \in CallState : /\ calls' = [calls EXCEPT ![t] = new]
                              /\ new.pc = "sent" /\ CallSound(new)
  BY SentSound
<1>2. Logged(new)'
  BY <1>1 DEF Logged
<1>4. Callers' /\ Pool'
  BY <1>1, <1>2, CallersStay, PoolStays, LogStays
<1>3. World'
  BY DEF IInv, World
<1> QED
  BY <1>3, <1>4, LogStays, HistoryStays, BrowserStays DEF IInv

LEMMA CallIsSound ==
    ASSUME IInv, NEW t \in Tab, Call(t) PROVE IInv'
<1>1. tabs[t].shows \in Scope /\ tabs[t].project \in Scope /\ served \in 0..MaxServed
  BY DEF IInv, Browser, World, TabState
<1>2. PICK kind \in Scoped \cup Unscoped : \E o \in Targets(t, kind) :
          IF kind = "list_projects"
          THEN /\ calls' = [calls EXCEPT ![t] = Sent(t,
                      [Idle EXCEPT !.pc = "sent", !.target = o])]
               /\ UNCHANGED served
          ELSE /\ served < MaxServed
               /\ served' = served + 1
               /\ calls' = [calls EXCEPT ![t] = Sent(t,
                      [Idle EXCEPT !.pc = "sent", !.kind = kind, !.id = served',
                                   !.meant = tabs[t].shows, !.target = o])]
  BY DEF Call
<1>3. PICK o \in Targets(t, kind) :
          IF kind = "list_projects"
          THEN /\ calls' = [calls EXCEPT ![t] = Sent(t,
                      [Idle EXCEPT !.pc = "sent", !.target = o])]
               /\ UNCHANGED served
          ELSE /\ served < MaxServed
               /\ served' = served + 1
               /\ calls' = [calls EXCEPT ![t] = Sent(t,
                      [Idle EXCEPT !.pc = "sent", !.kind = kind, !.id = served',
                                   !.meant = tabs[t].shows, !.target = o])]
  BY <1>2
<1>4. o \in Scope /\ (kind \in Unscoped => o \in Organization)
  BY <1>1, <1>3 DEF Targets, With, Scope, Scoped, Unscoped
<1>5. /\ calls[t].pc = "idle"
      /\ UNCHANGED <<browser, standing, connections, log, history>>
  BY DEF Call
<1>6. CASE kind = "list_projects"
  <2> DEFINE call == [Idle EXCEPT !.pc = "sent", !.target = o]
  <2>1. /\ call \in CallState /\ call.pc = "sent" /\ call.context = Nobody
        /\ call.kind \notin Unscoped
    BY <1>4 DEF Idle, CallState, Pc, Scope, Scoped, Unscoped
  <2>2. calls' = [calls EXCEPT ![t] = Sent(t, call)] /\ served' = served
    BY <1>3, <1>6
  <2> HIDE DEF call
  <2> QED
    BY <1>1, <1>5, <2>1, <2>2, SendSound
<1>7. CASE kind # "list_projects"
  <2> DEFINE call == [Idle EXCEPT !.pc = "sent", !.kind = kind, !.id = served',
                                  !.meant = tabs[t].shows, !.target = o]
  <2>1. served' \in 0..MaxServed /\ calls' = [calls EXCEPT ![t] = Sent(t, call)]
    BY <1>1, <1>3, <1>7
  <2>2. /\ call \in CallState /\ call.pc = "sent" /\ call.context = Nobody
        /\ call.kind = kind /\ call.target = o
    <3>1. Idle \in CallState /\ Idle.context = Nobody /\ "sent" \in Pc /\ served' \in Nat
      BY <2>1, IdleTyped DEF Pc
    <3> QED
      BY <1>1, <1>4, <3>1 DEF CallState
  <2> HIDE DEF call
  <2> QED
    BY <1>4, <1>5, <2>1, <2>2, SendSound
<1> QED
  BY <1>6, <1>7

LEMMA ResendSound ==
    ASSUME IInv, NEW t \in Tab, Resend(t) PROVE IInv'
<1>1. calls[t] \in CallState /\ CallSound(calls[t])
  BY DEF IInv, Callers
<1>2. served' \in 0..MaxServed
  BY DEF IInv, World, Resend
<1>3. calls' = [calls EXCEPT ![t] = Sent(t, calls[t])]
  BY DEF Resend
<1> QED
  BY <1>1, <1>2, <1>3, SendSound DEF Resend, CallSound

-----------------------------------------------------------------------------
(* The API.                                                                *)

\* A call that ends without touching the log.
LEMMA FinishStays ==
    ASSUME IInv, NEW t \in Tab, Finish(t), UNCHANGED log
    PROVE  Callers' /\ Log'
BY IdleTyped, CallersStay, LogStays DEF Finish

\* A statement on a free connection, at the hands of a call that has none.
LEMMA StatementStays ==
    ASSUME IInv, NEW t \in Tab, NEW c \in Connection, NEW needs \in Scope,
           OnPool(t, c, needs), calls[t].context \in {Nobody, needs},
           calls[t].pc \notin {"audit", "commit"},
           NEW new \in CallState, calls' = [calls EXCEPT ![t] = new]
    PROVE  Pool' /\ StatementsSeeTheirOwn'
<1>1. /\ Announced(t, c) = calls[t].context /\ Announced(t, c) \in Scope
  BY AnnouncedIsOwn DEF OnPool
<1>2. connections' = connections
  <2>1. connections' = [connections EXCEPT ![c] = Returned(Announced(t, c))] /\ Free(c)
    BY DEF OnPool
  <2> QED
    BY <2>1, Borrowed
<1>3. Observe(t, Announced(t, c), needs = Announced(t, c))
  BY DEF OnPool
<1>4. (needs = Announced(t, c)) \in BOOLEAN
  OBVIOUS
<1> HIDE DEF Announced
<1>5. PICK announced \in Scope : announced = Announced(t, c)
  BY <1>1
<1>6. PICK allowed \in BOOLEAN : allowed <=> (needs = announced)
  OBVIOUS
<1>7. Observe(t, announced, allowed)
  BY <1>3, <1>5, <1>6 DEF Observe
<1>8. StatementsSeeTheirOwn'
  BY <1>1, <1>5, <1>6, <1>7, Observed
<1> QED
  BY <1>2, <1>8, PoolStays

LEMMA AdmitSound ==
    ASSUME IInv, NEW t \in Tab, Admit(t) PROVE IInv'
<1>1. /\ calls[t].pc = "sent" /\ CallSound(calls[t]) /\ calls[t] \in CallState
      /\ UNCHANGED <<browser, standing, connections, served, log, history>>
  BY DEF IInv, Callers, Admit
<1>2. CASE calls[t].kind \in Unscoped
  <2>1. "begin" \in Pc \ {"audit_after"} /\ Goto(t, "begin")
    BY <1>2 DEF Pc, Admit
  <2>2. PICK new \in CallState :
            /\ calls' = [calls EXCEPT ![t] = new]
            /\ new.pc = "begin" /\ new.kind = calls[t].kind /\ new.context = calls[t].context
            /\ new.target = calls[t].target
    BY <2>1, GoesOn
  <2>3. CallSound(new) /\ Logged(new)'
    BY <1>1, <1>2, <2>2 DEF CallSound, Logged, Scoped, Unscoped
  <2>4. Callers' /\ Pool'
    BY <1>1, <2>2, <2>3, CallersStay, PoolStays, LogStays
  <2> QED
    BY <1>1, <2>4, LogStays, HistoryStays, WorldStays, BrowserStays DEF IInv
<1>3. CASE /\ calls[t].kind \notin Unscoped /\ calls[t].header \in With("member")
           /\ calls' = [calls EXCEPT ![t].pc = "admitted", ![t].context = calls[t].header]
  <2> DEFINE new == [calls[t] EXCEPT !.pc = "admitted", !.context = calls[t].header]
  <2>1. /\ new \in CallState /\ new.pc = "admitted" /\ new.kind = calls[t].kind
        /\ new.context = calls[t].header /\ new.header = calls[t].header
        /\ new.meant = calls[t].meant
    BY <1>1 DEF CallState, Pc
  <2>2. calls' = [calls EXCEPT ![t] = new] /\ calls[t].header \in Organization
    BY <1>3 DEF With
  <2> HIDE DEF new
  <2>3. PICK q \in CallState : q = new
    BY <2>1
  <2>4. CallSound(q) /\ Logged(q)' /\ calls' = [calls EXCEPT ![t] = q]
    BY <1>1, <1>3, <2>1, <2>2, <2>3 DEF CallSound, Logged, CallState
  <2>5. Callers' /\ Pool'
    BY <1>1, <2>4, CallersStay, PoolStays, LogStays
  <2> QED
    BY <1>1, <2>5, LogStays, HistoryStays, WorldStays, BrowserStays DEF IInv
<1>4. CASE Finish(t)
  <2>1. Callers' /\ Pool'
    BY <1>1, <1>4, FinishStays, PoolStays, IdleTyped DEF Finish
  <2> QED
    BY <1>1, <2>1, LogStays, HistoryStays, WorldStays, BrowserStays DEF IInv
<1> QED
  BY <1>2, <1>3, <1>4 DEF Admit

LEMMA ListProjectsSound ==
    ASSUME IInv, NEW t \in Tab, NEW c \in Connection, ListProjects(t, c) PROVE IInv'
<1>1. /\ calls[t].pc = "admitted" /\ calls[t].context \in Scope
      /\ OnPool(t, c, calls[t].context) /\ Finish(t)
      /\ UNCHANGED <<stored, standing, served, log>>
  BY DEF IInv, Callers, CallState, ListProjects
<1>2. PICK needs \in Scope : needs = calls[t].context
  BY <1>1
<1>3. OnPool(t, c, needs)
  BY <1>1, <1>2
<1>4. Pool' /\ StatementsSeeTheirOwn'
  BY <1>1, <1>2, <1>3, StatementStays, IdleTyped DEF Finish
<1>5. Browser'
  BY <1>1 DEF ListProjects, IInv, Browser, TabState
<1> QED
  BY <1>1, <1>4, <1>5, FinishStays, WorldStays DEF IInv

LEMMA InsertProjectSound ==
    ASSUME IInv, NEW t \in Tab, NEW c \in Connection, InsertProject(t, c) PROVE IInv'
<1>1. /\ calls[t].pc = "admitted" /\ calls[t].kind = "create_project"
      /\ calls[t] \in CallState /\ CallSound(calls[t])
      /\ UNCHANGED <<browser, standing, served, entries>>
  BY DEF IInv, Callers, InsertProject
<1>2. PICK o \in Organization : o = calls[t].context /\ calls[t].meant \in {o, Nobody}
  BY <1>1 DEF CallSound, Scoped
<1>3. changes' = changes \cup {Committed(t, o)} /\ OnPool(t, c, o) /\ o \in Scope
  BY <1>2 DEF InsertProject, Scope
<1>4. Log' /\ \E k \in changes' : k.id = calls[t].id /\ k.in = o
  BY <1>1, <1>2, <1>3, Grows
<1> DEFINE new == [calls[t] EXCEPT !.pc = "audit_after", !.target = calls[t].context]
<1>5. /\ new \in CallState /\ new.pc = "audit_after" /\ new.kind = "create_project"
      /\ new.context = o /\ new.target = o /\ new.meant = calls[t].meant
      /\ new.header = calls[t].header /\ new.id = calls[t].id
  BY <1>1, <1>2, <1>3 DEF CallState, Pc
<1>6. calls' = [calls EXCEPT ![t] = new]
  BY DEF InsertProject
<1> HIDE DEF new
<1>7. PICK q \in CallState : q = new
  BY <1>5
<1>8. CallSound(q) /\ Logged(q)' /\ calls' = [calls EXCEPT ![t] = q]
  BY <1>1, <1>2, <1>4, <1>5, <1>6, <1>7 DEF CallSound, Logged, Scoped, Unscoped
<1>9. Callers'
  BY <1>3, <1>8, CallersStay
<1>10. Pool' /\ StatementsSeeTheirOwn'
  BY <1>1, <1>2, <1>3, <1>8, StatementStays
<1> QED
  BY <1>1, <1>4, <1>9, <1>10, WorldStays, BrowserStays DEF IInv

LEMMA RequireProjectSound ==
    ASSUME IInv, NEW t \in Tab, NEW c \in Connection, RequireProject(t, c) PROVE IInv'
<1>1. /\ calls[t].pc = "admitted" /\ calls[t].kind = "create_requirement"
      /\ calls[t] \in CallState /\ CallSound(calls[t])
      /\ UNCHANGED <<browser, standing, served, log>>
  BY DEF IInv, Callers, RequireProject
<1>2. PICK o \in Scope : o = calls[t].context /\ o \in Organization
  BY <1>1 DEF CallSound, CallState
<1>3. OnPool(t, c, o)
  BY <1>2 DEF RequireProject
<1>4. PICK new \in CallState : /\ calls' = [calls EXCEPT ![t] = new]
                              /\ CallSound(new) /\ Logged(new)'
  <2>1. CASE Finish(t)
    BY <2>1, IdleTyped DEF Finish
  <2>2. CASE calls[t].target = calls[t].context /\ Goto(t, "begin")
    <3>1. "begin" \in Pc \ {"audit_after"}
      BY DEF Pc
    <3>2. PICK new \in CallState :
              /\ calls' = [calls EXCEPT ![t] = new]
              /\ new.pc = "begin" /\ new.kind = calls[t].kind /\ new.meant = calls[t].meant
              /\ new.header = calls[t].header /\ new.context = calls[t].context
              /\ new.target = calls[t].target
      BY <2>2, <3>1, GoesOn
    <3>3. CallSound(new) /\ Logged(new)'
      BY <1>1, <1>2, <2>2, <3>2 DEF CallSound, Logged, Scoped, Unscoped
    <3> QED
      BY <3>2, <3>3
  <2> QED
    BY <2>1, <2>2 DEF RequireProject
<1>5. Callers'
  BY <1>1, <1>4, CallersStay, LogStays
<1>6. Pool' /\ StatementsSeeTheirOwn'
  BY <1>1, <1>2, <1>3, <1>4, StatementStays
<1> QED
  BY <1>1, <1>5, <1>6, LogStays, WorldStays, BrowserStays DEF IInv

LEMMA BeginSound ==
    ASSUME IInv, NEW t \in Tab, NEW c \in Connection, Begin(t, c) PROVE IInv'
<1>1. /\ calls[t].pc = "begin" /\ Free(c)
      /\ calls[t] \in CallState /\ CallSound(calls[t])
      /\ UNCHANGED <<browser, standing, served, log>>
  BY DEF IInv, Callers, Begin
<1>2. Announced(t, c) = calls[t].context /\ Announced(t, c) \in Scope
  BY <1>1, AnnouncedIsOwn
<1>3. PICK announced \in Scope : announced = calls[t].context /\ announced = Announced(t, c)
  BY <1>2
<1>4. StatementsSeeTheirOwn'
  <2>1. CASE calls[t].kind = "create_requirement"
    <3>1. Observe(t, announced, calls[t].context = announced)
      BY <1>3, <2>1 DEF Begin
    <3>2. Observe(t, announced, TRUE)
      BY <1>3, <3>1 DEF Observe
    <3> QED
      BY <1>3, <3>2, Observed
  <2>2. CASE calls[t].kind # "create_requirement"
    BY <2>2, HistoryStays DEF Begin
  <2> QED
    BY <2>1, <2>2
<1>5. CASE Stands(calls[t])
  <2>1. PICK pc \in {"audit", "commit"} : Goto(t, pc)
    BY <1>5 DEF Begin
  <2>2. pc \in Pc \ {"audit_after"}
    BY <2>1 DEF Pc
  <2>3. PICK new \in CallState :
            /\ calls' = [calls EXCEPT ![t] = new]
            /\ new.pc = pc /\ new.kind = calls[t].kind /\ new.meant = calls[t].meant
            /\ new.header = calls[t].header /\ new.context = calls[t].context
            /\ new.target = calls[t].target
    BY <2>1, <2>2, GoesOn
  <2>4. CallSound(new) /\ Logged(new)'
    BY <1>1, <2>1, <2>3 DEF CallSound, Logged, Scoped, Unscoped
  <2>5. Callers'
    BY <1>1, <2>3, <2>4, CallersStay, LogStays
  <2>6. connections' = [connections EXCEPT ![c] = [setting |-> announced, by |-> t]]
    BY <1>3, <1>5 DEF Begin
  <2>7. /\ connections' \in [Connection -> [setting: Scope, by: Tab \cup {Nobody}]]
        /\ connections'[c].setting = announced /\ connections'[c].by = t
        /\ \A d \in Connection : d # c => connections'[d] = connections[d]
    BY <2>6 DEF IInv, Pool
  <2>8. calls'[t] = new /\ \A u \in Tab : u # t => calls'[u] = calls[u]
    BY <2>3 DEF IInv, Callers
  <2>9. \A d \in Connection : connections[d].by # t
    BY <1>1 DEF IInv, Pool, Lent
  <2>10. ASSUME NEW d \in Connection PROVE Lent(d)'
    <3>1. CASE d = c
      BY <1>3, <2>1, <2>3, <2>7, <2>8, <3>1 DEF Lent
    <3>2. CASE d # c
      <4>1. Lent(d) /\ connections'[d] = connections[d] /\ connections[d].by # t
        BY <2>7, <2>9, <3>2 DEF IInv, Pool
      <4> QED
        BY <2>8, <4>1 DEF Lent
    <3> QED
      BY <3>1, <3>2
  <2>11. Pool'
    BY <2>7, <2>9, <2>10 DEF IInv, Pool
  <2> QED
    BY <1>1, <1>4, <2>5, <2>11, LogStays, WorldStays, BrowserStays DEF IInv
<1>6. CASE ~Stands(calls[t])
  <2>1. /\ Finish(t) /\ connections' = [connections EXCEPT ![c] = Returned(announced)]
    BY <1>3, <1>6 DEF Begin
  <2>2. connections' = connections
    BY <1>1, <2>1, Borrowed
  <2>3. Callers' /\ Pool'
    BY <1>1, <2>1, <2>2, FinishStays, PoolStays, IdleTyped DEF Finish
  <2> QED
    BY <1>1, <1>4, <2>3, LogStays, WorldStays, BrowserStays DEF IInv
<1> QED
  BY <1>5, <1>6

LEMMA AuditInsideSound ==
    ASSUME IInv, NEW t \in Tab, NEW c \in Connection, AuditInside(t, c) PROVE IInv'
<1>1. /\ calls[t].pc = "audit" /\ connections[c].by = t
      /\ calls[t] \in CallState /\ CallSound(calls[t])
      /\ UNCHANGED <<browser, standing, served, log>>
  BY DEF IInv, Callers, AuditInside
<1>2. PICK announced \in Scope :
          announced = calls[t].context /\ announced = connections[c].setting
  BY <1>1 DEF IInv, Pool, Lent, CallState
<1>3. PICK allowed \in BOOLEAN : allowed <=> (calls[t].target = announced)
  OBVIOUS
<1>4. Observe(t, announced, allowed)
  BY <1>2, <1>3 DEF AuditInside, Observe
<1>5. announced = Nobody \/ allowed
  BY <1>1, <1>2, <1>3 DEF CallSound
<1>6. StatementsSeeTheirOwn'
  BY <1>2, <1>4, <1>5, Observed
<1>7. CASE Goto(t, "commit") /\ UNCHANGED connections
  <2>1. "commit" \in Pc \ {"audit_after"}
    BY DEF Pc
  <2>2. PICK new \in CallState :
            /\ calls' = [calls EXCEPT ![t] = new]
            /\ new.pc = "commit" /\ new.kind = calls[t].kind /\ new.meant = calls[t].meant
            /\ new.header = calls[t].header /\ new.context = calls[t].context
            /\ new.target = calls[t].target
    BY <1>7, <2>1, GoesOn
  <2>3. CallSound(new) /\ Logged(new)'
    BY <1>1, <2>2 DEF CallSound, Logged
  <2>4. Callers' /\ Pool'
    BY <1>1, <1>7, <2>2, <2>3, CallersStay, PoolStays, LogStays
  <2> QED
    BY <1>1, <1>6, <2>4, LogStays, WorldStays, BrowserStays DEF IInv
<1>8. CASE Finish(t) /\ EndTransaction(c)
  <2>1. Callers' /\ Pool'
    BY <1>1, <1>8, FinishStays, PoolReturned, IdleTyped DEF Finish
  <2> QED
    BY <1>1, <1>6, <2>1, LogStays, WorldStays, BrowserStays DEF IInv
<1> QED
  BY <1>7, <1>8 DEF AuditInside

\* Where the user stands changes to member only.
LEMMA JoinStays ==
    ASSUME IInv, NEW o \in Organization,
           standing' \in {standing, [standing EXCEPT ![o] = "member"]}, served' = served
    PROVE  World'
BY DEF IInv, World, Standing

LEMMA AnsweredStays ==
    ASSUME IInv, NEW t \in Tab, NEW o \in Scope, Answered(t, o)
    PROVE  Browser'
<1>1. Showing(o) \in TabState /\ Showing(o).shows = o
  BY DEF Showing, TabState, Scope
<1>2. CASE Choose(t, o) /\ tabs' = [tabs EXCEPT ![t] = Showing(o)]
  BY <1>1, <1>2, ChoiceStays
<1>3. CASE UNCHANGED browser
  BY <1>3, BrowserStays
<1> QED
  BY <1>2, <1>3 DEF Answered

LEMMA CommitSound ==
    ASSUME IInv, NEW t \in Tab, NEW c \in Connection, Commit(t, c) PROVE IInv'
<1>1. /\ calls[t].pc = "commit" /\ connections[c].by = t /\ EndTransaction(c)
      /\ calls[t] \in CallState /\ CallSound(calls[t])
      /\ UNCHANGED <<served, history>>
  BY DEF IInv, Callers, Commit
<1>2. PICK o \in Organization : o = calls[t].target
  BY <1>1 DEF CallSound
<1>3. CASE Stands(calls[t])
  <2>1. /\ changes' = changes \cup {Committed(t, o)}
        /\ entries' = IF calls[t].kind = "create_organization" THEN entries
                      ELSE entries \cup {EntryOf(t, o)}
        /\ standing' = IF calls[t].kind \in Unscoped
                       THEN [standing EXCEPT ![o] = "member"] ELSE standing
        /\ IF calls[t].kind = "create_organization" THEN Goto(t, "audit_after") ELSE Finish(t)
        /\ IF calls[t].kind = "accept" THEN Answered(t, Nobody) ELSE UNCHANGED browser
    BY <1>2, <1>3 DEF Commit
  <2>2. calls[t].kind \in Scoped => calls[t].meant \in {o, Nobody}
    BY <1>1, <1>2 DEF CallSound, Scoped, Unscoped
  <2>3. Log' /\ \E k \in changes' : k.id = calls[t].id /\ k.in = o
    BY <2>1, <2>2, Grows
  <2>4. PICK new \in CallState : /\ calls' = [calls EXCEPT ![t] = new]
                                /\ CallSound(new) /\ Logged(new)'
    <3>1. CASE calls[t].kind # "create_organization"
      BY <2>1, <3>1, IdleTyped DEF Finish
    <3>2. CASE calls[t].kind = "create_organization"
      <4> DEFINE new == [calls[t] EXCEPT !.pc = "audit_after"]
      <4>1. /\ new \in CallState /\ new.pc = "audit_after" /\ new.kind = calls[t].kind
            /\ new.context = calls[t].context /\ new.target = o /\ new.id = calls[t].id
        BY <1>1, <1>2 DEF CallState, Pc
      <4>2. calls' = [calls EXCEPT ![t] = new]
        BY <2>1, <3>2 DEF Goto
      <4> HIDE DEF new
      <4>3. PICK q \in CallState : q = new
        BY <4>1
      <4>4. CallSound(q) /\ Logged(q)' /\ calls' = [calls EXCEPT ![t] = q]
        BY <1>1, <2>3, <3>2, <4>1, <4>2, <4>3 DEF CallSound, Logged, Scoped, Unscoped
      <4> QED
        BY <4>4
    <3> QED
      BY <3>1, <3>2
  <2>5. Callers' /\ Pool'
    BY <1>1, <2>1, <2>4, CallersStay, PoolReturned
  <2>6. World'
    BY <1>1, <2>1, JoinStays
  <2>7. Browser'
    BY <2>1, AnsweredStays, BrowserStays DEF Scope
  <2> QED
    BY <1>1, <2>3, <2>5, <2>6, <2>7, HistoryStays DEF IInv
<1>4. CASE ~Stands(calls[t])
  <2>1. Finish(t) /\ UNCHANGED <<log, standing, browser>>
    BY <1>4 DEF Commit
  <2>2. Callers' /\ Pool'
    BY <1>1, <2>1, FinishStays, PoolReturned, IdleTyped DEF Finish
  <2> QED
    BY <1>1, <2>1, <2>2, LogStays, HistoryStays, WorldStays, BrowserStays DEF IInv
<1> QED
  BY <1>3, <1>4

LEMMA AuditAfterSound ==
    ASSUME IInv, NEW t \in Tab, NEW c \in Connection, AuditAfter(t, c) PROVE IInv'
<1>1. /\ calls[t].pc = "audit_after" /\ Finish(t)
      /\ calls[t] \in CallState /\ CallSound(calls[t]) /\ Logged(calls[t])
      /\ UNCHANGED <<standing, served, changes>>
  BY DEF IInv, Callers, AuditAfter
<1>2. PICK o \in Organization : o = calls[t].target
  BY <1>1 DEF CallSound
<1>3. /\ OnPool(t, c, o) /\ o \in Scope /\ calls[t].context \in {Nobody, o}
  BY <1>1, <1>2 DEF AuditAfter, CallSound, Scope
<1>4. Pool' /\ StatementsSeeTheirOwn'
  BY <1>1, <1>3, StatementStays, IdleTyped DEF Finish
<1>5. Callers'
  BY <1>1, IdleTyped, CallersStay DEF Finish
<1>6. Browser'
  BY <1>2, AnsweredStays, BrowserStays DEF AuditAfter, Scope
<1>7. Log'
  <2>1. CASE entries' = entries
    BY <1>1, <2>1, LogStays DEF log
  <2>2. CASE entries' = entries \cup {EntryOf(t, o)}
    <3>1. EntryOf(t, o) \in Entry /\ EntryOf(t, o).id = calls[t].id /\ EntryOf(t, o).of = o
      BY <1>1 DEF EntryOf, Entry, CallState
    <3>2. \E k \in changes : k.id = calls[t].id /\ k.in = o
      BY <1>1, <1>2 DEF Logged
    <3> QED
      BY <1>1, <2>2, <3>1, <3>2
         DEF IInv, Log, AuditTellsWhatCommitted, ChangesLandWhereShown
  <2> QED
    BY <1>2, <2>1, <2>2 DEF AuditAfter
<1> QED
  BY <1>1, <1>4, <1>5, <1>6, <1>7, WorldStays DEF IInv

LEMMA CrashSound ==
    ASSUME IInv, NEW t \in Tab, Crash(t) PROVE IInv'
<1>1. /\ Finish(t) /\ UNCHANGED <<browser, standing, served, log, history>>
      /\ connections' = [c \in Connection |->
            IF connections[c].by = t THEN Returned(connections[c].setting) ELSE connections[c]]
  BY DEF Crash
<1>2. calls'[t] = Idle /\ \A u \in Tab : u # t => calls'[u] = calls[u]
  BY <1>1 DEF Finish, IInv, Callers
<1>3. \A c \in Connection :
         \/ connections'[c] = [setting |-> Nobody, by |-> Nobody]
         \/ connections'[c] = connections[c] /\ connections[c].by # t
  BY <1>1 DEF Returned
<1>4. connections' \in [Connection -> [setting: Scope, by: Tab \cup {Nobody}]]
  BY <1>1 DEF IInv, Pool, Returned, Scope
<1>5. ASSUME NEW c \in Connection PROVE Lent(c)'
  <2>1. Lent(c)
    BY DEF IInv, Pool
  <2> QED
    BY <1>2, <1>3, <2>1 DEF Lent
<1>6. \A c, d \in Connection :
         connections'[c].by = connections'[d].by /\ connections'[c].by # Nobody => c = d
  BY <1>3 DEF IInv, Pool
<1>7. Pool'
  BY <1>4, <1>5, <1>6 DEF Pool
<1> QED
  BY <1>1, <1>7, FinishStays, HistoryStays, WorldStays, BrowserStays DEF IInv

-----------------------------------------------------------------------------
LEMMA NextSound == IInv /\ [Next]_vars => IInv'
<1> SUFFICES ASSUME IInv, [Next]_vars PROVE IInv'
  OBVIOUS
<1>1. CASE UNCHANGED vars
  <2>1. /\ UNCHANGED <<standing, served>> /\ UNCHANGED browser /\ UNCHANGED log
        /\ UNCHANGED history /\ UNCHANGED <<calls, connections>>
    BY <1>1 DEF vars, browser, log, history
  <2>2. Callers' /\ Pool'
    BY <2>1 DEF IInv, Callers, CallSound, Logged, Pool, Lent, log
  <2> QED
    BY <2>1, <2>2, LogStays, HistoryStays, WorldStays, BrowserStays DEF IInv
<1>2. ASSUME NEW t \in Tab, Screen(t) \/ Admit(t) \/ Crash(t) PROVE IInv'
  BY <1>2, TabsSound, CallIsSound, ResendSound, AdmitSound, CrashSound DEF Screen
<1>3. ASSUME NEW t \in Tab, NEW c \in Connection, Statement(t, c) PROVE IInv'
  BY <1>3, ListProjectsSound, InsertProjectSound, RequireProjectSound, BeginSound,
     AuditInsideSound, CommitSound, AuditAfterSound DEF Statement
<1> QED
  BY <1>1, <1>2, <1>3 DEF Next

LEMMA Inductive == Spec => []IInv
BY InitSound, NextSound, PTL DEF Spec

\* What tabs, connections, calls and the audit log hold keeps its type.
THEOREM TypeCorrect == Spec => []TypeOK
BY Inductive, Typed, PTL

\* The setting is local to a statement or a transaction, and announced by each that
\* has an organization: whatever the connections are lent to, and however calls
\* fail, no statement meets another's setting and no policy refuses a call's own.
THEOREM StatementsSeeTheirOwnHolds == Spec => []StatementsSeeTheirOwn
<1>1. IInv => StatementsSeeTheirOwn
  BY DEF IInv
<1> QED
  BY <1>1, Inductive, PTL

\* An entry written in the transaction shares its end, one written after it follows
\* a commit: the audit log claims nothing that was rolled back and misses nothing
\* that a transaction with an entry changed.
THEOREM AuditTellsWhatCommittedHolds == Spec => []AuditTellsWhatCommitted
<1>1. IInv => AuditTellsWhatCommitted
  BY DEF IInv, Log
<1> QED
  BY <1>1, Inductive, PTL

\* localStorage is read when a call is sent and kept with it from there on: a change
\* lands in the organization its tab showed, as long as that tab chose last.
THEOREM ChangesLandWhereShownHolds == Spec => []ChangesLandWhereShown
<1>1. IInv => ChangesLandWhereShown
  BY DEF IInv, Log
<1> QED
  BY <1>1, Inductive, PTL
=============================================================================
