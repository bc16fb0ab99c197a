-------------------------- MODULE McpHarnessProofs --------------------------
(***************************************************************************)
(* Proofs about module McpHarness, for any number of servers, tools and    *)
(* calls: InitMCPClients registers all tools or none, what a call has      *)
(* registered stays, and sessions are not lost.                            *)
(***************************************************************************)
EXTENDS McpHarness, FiniteSetTheorems, SequenceTheorems, TLAPS

Holding == {"send", "install", "notify", "declare"}

\* initializeMu is held by the call that is in its critical section.
LockInv ==
    \A i \in Inits, c \in Names : locked[c] = i <=> pc[i] \in Holding /\ At(i) = c

Listed(i) == {registered[i][k] : k \in 1..Len(registered[i])}

\* The tools that carry the name of call i are those of its list, which is a
\* part of Discovered.
RegisteredBy(i) ==
    /\ pc[i] \notin {"register", "rollback", "ok"} => registered[i] = <<>>
    /\ pc[i] \in {"register", "ok"} =>
        /\ Len(registered[i]) <= Len(Discovered)
        /\ \A k \in 1..Len(registered[i]) : registered[i][k] = Discovered[k]
    /\ pc[i] = "ok" => Len(registered[i]) = Len(Discovered)
    /\ \A k, l \in 1..Len(registered[i]) : registered[i][k] = registered[i][l] => k = l
    /\ \A x \in Tools : tools[x] = i <=> x \in Listed(i)

RegisteredInv == \A i \in Inits : RegisteredBy(i)

\* The calls that have a session of client c at hand.
Installing(c) == {i \in Inits : pc[i] \in {"install", "notify"} /\ At(i) = c}
Closing(c) == {p \in Closers : pc[p] \in {"clear", "delete"} /\ At(p) = c}

\* A call of Close that has read the session of c.  Nobody initializes c before
\* it has cleared c, and no session that is installed after that is its own.
CloserInv(c, p) ==
    /\ held[p] <= issued[c]
    /\ pc[p] = "clear" => locked[c] = None /\ session[c] \in {0, held[p]}
    /\ pc[p] = "delete" => session[c] = 0 \/ session[c] # held[p]

\* A call in the critical section of c.  Its session is newer than those that
\* other calls are about to end.
InitializerInv(c, i) ==
    /\ pc[i] \in {"send", "install"} => session[c] = 0
    /\ pc[i] \in {"install", "notify", "declare"} =>
        held[i] \in open[c] /\ \A p \in Closing(c) : held[p] < held[i]
    /\ pc[i] \in {"notify", "declare"} => session[c] = held[i]

\* A client that was not closed while it was initialized.
Settled(c) ==
    /\ open[c] \subseteq {session[c]} \cup InHand(c) \cup dropped[c]
    /\ initialized[c] => session[c] \in open[c]
    /\ session[c] <= issued[c]
    /\ locked[c] = None /\ ~initialized[c] => session[c] = 0
    /\ locked[c] # None => ~initialized[c]
    /\ \A p \in Closing(c) : CloserInv(c, p)
    /\ \A i \in Inits : locked[c] = i => InitializerInv(c, i)

SessionOf(c) == open[c] \subseteq 1..issued[c] /\ (c \notin overlapped => Settled(c))

SessionInv == \A c \in Names : SessionOf(c)

IInv == TypeOK /\ LockInv /\ RegisteredInv /\ SessionInv

-----------------------------------------------------------------------------
(* Type correctness *)

LEMMA Facts ==
    /\ Clients \in Seq(Names) /\ 1 \in DOMAIN Clients
    /\ \A k \in DOMAIN Clients : Clients[k] \in Names
    /\ Discovered \in Seq(Tools)
    /\ \A u \in Users : UserTool[u] \in Tools
    /\ MaxSessions \in Nat
    /\ Inits \cap (Closers \cup Users \cup Makers) = {} /\ Closers \cap (Users \cup Makers) = {}
    /\ Users \cap Makers = {}
    /\ None \notin Inits /\ None \notin Users /\ None \notin Makers
<1>1. MaxSessions \in Nat
  BY McpAssumption, FS_CardinalityType DEF MaxSessions
<1>2. 1 \in DOMAIN Clients
  BY McpAssumption
<1>3. \A k \in DOMAIN Clients : Clients[k] \in Names
  BY McpAssumption
<1>4. \A u \in Users : UserTool[u] \in Tools
  BY DEF Tools
<1> QED
  BY <1>1, <1>2, <1>3, <1>4, McpAssumption

\* The cases of a step, one call at a time.
Initialize(i) ==
    \/ Start(i) \/ Lock(i) \/ SendInitialize(i) \/ AnswerUseless(i) \/ Unreached(i) \/ Install(i)
    \/ Notified(i) \/ NotNotified(i) \/ Declare(i)

Tooling(i) == List(i) \/ Discover(i) \/ Register(i) \/ Rollback(i)

Closes(p) == StartClose(p) \/ ReadState(p) \/ Clear(p) \/ Delete(p) \/ NotDeleted(p)

LEMMA Cases ==
  ASSUME Next
  PROVE  \/ \E i \in Inits : Initialize(i) \/ Tooling(i)
         \/ \E p \in Closers : Closes(p)
         \/ \E u \in Users : RegisterTool(u)
         \/ \E m \in Makers : CheckTools(m) \/ RegisterAgent(m)
  BY DEF Next, Initialize, Tooling, Closes

LEMMA AtName ==
  ASSUME TypeOK, NEW p \in Callers
  PROVE  At(p) \in Names /\ (At(p)' = Clients[at'[p]])
  BY Facts DEF TypeOK, At

LEMMA GoesType ==
  ASSUME TypeOK, NEW p \in Callers, NEW here, NEW there \in Places, Goes(p, here, there)
  PROVE  pc' \in [Callers -> Places]
  BY DEF TypeOK, Goes

LEMMA NextIndex ==
  ASSUME TypeOK, NEW p \in Callers, NEW here, NEW again, NEW after,
         Advances(p, here, again, after) \/ UNCHANGED at
  PROVE  at' \in [Callers -> DOMAIN Clients]
  BY Facts DEF TypeOK, Advances

\* The list of a call that registers is not longer than Discovered, so that
\* there is a next tool.
LEMMA NextTool ==
  ASSUME TypeOK, NEW i \in Inits, Len(registered[i]) < Len(Discovered)
  PROVE  Discovered[Len(registered[i]) + 1] \in Tools
  BY Facts DEF TypeOK

LEMMA InitType == Init => TypeOK
<1> SUFFICES ASSUME Init PROVE TypeOK
  OBVIOUS
<1> USE Facts DEF Init, Session
<1>1. registered \in [Inits -> Seq(Tools)] /\ at \in [Callers -> DOMAIN Clients]
  OBVIOUS
<1>2. held \in [Callers -> Session] /\ issued \in [Names -> Session] /\ session \in [Names -> Session]
  OBVIOUS
<1>3. pc \in [Callers -> Places]
  BY DEF Places
<1>4. /\ locked \in [Names -> Inits \cup {None}] /\ initialized \in [Names -> BOOLEAN]
      /\ tools \in [Tools -> Inits \cup Users \cup {None}]
  OBVIOUS
<1>5. open \in [Names -> SUBSET Session] /\ dropped \in [Names -> SUBSET Session]
  OBVIOUS
<1>6. agent \in Makers \cup {None} /\ overlapped \subseteq Names
  OBVIOUS
<1> QED
  BY <1>1, <1>2, <1>3, <1>4, <1>5, <1>6 DEF TypeOK

LEMMA TypeStep == TypeOK /\ RegisteredInv /\ [Next]_vars => TypeOK'
<1> SUFFICES ASSUME TypeOK, RegisteredInv, [Next]_vars PROVE TypeOK'
  OBVIOUS
<1> USE Facts, AtName DEF TypeOK, call, client, server, history
<1>0. Inits \subseteq Callers /\ Closers \subseteq Callers /\ Users \subseteq Callers /\ Makers \subseteq Callers
  BY DEF Callers
<1>1. CASE UNCHANGED vars
  BY <1>1 DEF vars
<1>2. ASSUME NEW i \in Inits, Initialize(i) PROVE TypeOK'
  <2>0. i \in Callers /\ At(i) \in Names
    BY <1>0
  <2>1. pc' \in [Callers -> Places]
    BY <1>2, <2>0, GoesType DEF Initialize, Start, Lock, SendInitialize, AnswerUseless, Unreached,
                                Install, Notified, NotNotified, Declare, Fails, Places
  <2>2. CASE Start(i) \/ Notified(i)
    BY <2>0, <2>1, <2>2 DEF Start, Notified
  <2>3. CASE Lock(i)
    <3>1. locked' = locked \/ locked' = [locked EXCEPT ![At(i)] = i]
      BY <2>3 DEF Lock
    <3>2. overlapped' = overlapped \/ overlapped' = overlapped \cup {At(i)}
      BY <2>3 DEF Lock
    <3>3. locked' \in [Names -> Inits \cup {None}] /\ overlapped' \subseteq Names
      BY <2>0, <3>1, <3>2
    <3> QED
      BY <2>1, <2>3, <3>3 DEF Lock
  <2>4. CASE SendInitialize(i) \/ AnswerUseless(i)
    <3>1. issued[At(i)] \in Session /\ issued[At(i)] < MaxSessions
      BY <2>0, <2>4 DEF SendInitialize, AnswerUseless, Opens
    <3>2. issued[At(i)] + 1 \in Session
      BY <3>1 DEF Session
    <3>3. issued' = [issued EXCEPT ![At(i)] = @ + 1] /\ open' = [open EXCEPT ![At(i)] = @ \cup {issued'[At(i)]}]
      BY <2>4 DEF SendInitialize, AnswerUseless, Opens
    <3>4. issued' \in [Names -> Session] /\ issued'[At(i)] \in Session
      BY <2>0, <3>2, <3>3
    <3>5. open' \in [Names -> SUBSET Session]
      BY <2>0, <3>3, <3>4
    <3>6. CASE SendInitialize(i)
      BY <2>0, <2>1, <3>4, <3>5, <3>6 DEF SendInitialize
    <3>7. CASE AnswerUseless(i)
      BY <2>0, <2>1, <3>4, <3>5, <3>7 DEF AnswerUseless, Fails
    <3> QED
      BY <2>4, <3>6, <3>7
  <2>5. CASE Unreached(i)
    BY <2>0, <2>1, <2>5 DEF Unreached, Fails
  <2>6. CASE Install(i)
    BY <2>0, <2>1, <2>6 DEF Install
  <2>7. CASE NotNotified(i)
    <3>1. session' \in [Names -> Session] /\ initialized' \in [Names -> BOOLEAN]
      <4>1. 0 \in Session
        BY DEF Session
      <4> QED
        BY <2>0, <2>7, <4>1 DEF NotNotified, Cleared
    <3>2. locked' \in [Names -> Inits \cup {None}] /\ dropped' \in [Names -> SUBSET Session]
      BY <2>0, <2>7 DEF NotNotified, Fails
    <3> QED
      BY <2>1, <2>7, <3>1, <3>2 DEF NotNotified
  <2>8. CASE Declare(i)
    BY <2>0, <2>1, <2>8 DEF Declare
  <2> QED
    BY <1>2, <2>2, <2>3, <2>4, <2>5, <2>6, <2>7, <2>8 DEF Initialize
<1>3. ASSUME NEW i \in Inits, Tooling(i) PROVE TypeOK'
  <2>0. i \in Callers /\ At(i) \in Names
    BY <1>0
  <2>1. pc' \in [Callers -> Places]
    BY <1>3, <2>0, GoesType DEF Tooling, List, Discover, Advances, Register, Rollback, Places
  <2>2. CASE List(i)
    BY <2>0, <2>1, <2>2 DEF List
  <2>3. CASE Discover(i)
    <3>1. at' \in [Callers -> DOMAIN Clients]
      BY <2>0, <2>3, NextIndex DEF Discover
    <3> QED
      BY <2>1, <2>3, <3>1 DEF Discover
  <2>4. CASE Register(i)
    <3>1. registered' \in [Inits -> Seq(Tools)] /\ tools' \in [Tools -> Inits \cup Users \cup {None}]
      <4>1. CASE UNCHANGED <<registered, tools>>
        BY <4>1
      <4>2. CASE ~UNCHANGED <<registered, tools>>
        <5> DEFINE x == Discovered[Len(registered[i]) + 1]
        <5>1. tools' = [tools EXCEPT ![x] = i] /\ registered' = [registered EXCEPT ![i] = Append(@, x)]
          BY <2>4, <4>2 DEF Register
        <5>2. x \in Tools
          BY <2>4, <4>2, NextTool DEF Register, RegisteredInv, RegisteredBy, Goes
        <5> QED
          BY <5>1, <5>2
      <4> QED
        BY <4>1, <4>2
    <3> QED
      BY <2>1, <2>4, <3>1 DEF Register
  <2>5. CASE Rollback(i)
    <3>1. registered' \in [Inits -> Seq(Tools)] /\ tools' \in [Tools -> Inits \cup Users \cup {None}]
      <4>1. CASE registered[i] = <<>>
        BY <2>5, <4>1 DEF Rollback
      <4>2. CASE registered[i] # <<>>
        <5>1. /\ tools' = [tools EXCEPT ![Head(registered[i])] = None]
              /\ registered' = [registered EXCEPT ![i] = Tail(@)]
          BY <2>5, <4>2 DEF Rollback
        <5>2. Tail(registered[i]) \in Seq(Tools)
          BY <4>2, HeadTailProperties
        <5> QED
          BY <5>1, <5>2
      <4> QED
        BY <4>1, <4>2
    <3> QED
      BY <2>1, <2>5, <3>1 DEF Rollback
  <2> QED
    BY <1>3, <2>2, <2>3, <2>4, <2>5 DEF Tooling
<1>4. ASSUME NEW p \in Closers, Closes(p) PROVE TypeOK'
  <2>0. p \in Callers /\ At(p) \in Names
    BY <1>0
  <2>1. pc' \in [Callers -> Places]
    BY <1>4, <2>0, GoesType DEF Closes, StartClose, ReadState, Clear, Delete, NotDeleted, NextClient,
                                Advances, Places
  <2>2. CASE StartClose(p)
    BY <2>1, <2>2 DEF StartClose
  <2>3. CASE ReadState(p)
    <3>1. held' \in [Callers -> Session] /\ overlapped' \subseteq Names
      BY <2>0, <2>3 DEF ReadState, Overlaps
    <3> QED
      BY <2>1, <2>3, <3>1 DEF ReadState
  <2>4. CASE Clear(p)
    <3>1. overlapped' \subseteq Names
      BY <2>0, <2>4 DEF Clear, Overlaps
    <3>2. session' \in [Names -> Session] /\ initialized' \in [Names -> BOOLEAN]
      <4>1. session' = [session EXCEPT ![At(p)] = 0] /\ initialized' = [initialized EXCEPT ![At(p)] = FALSE]
        BY <2>4 DEF Clear, Cleared
      <4>2. 0 \in Session
        BY <1>0 DEF Session
      <4>3. session' \in [Names -> Session]
        BY <4>1, <4>2
      <4>4. initialized' \in [Names -> BOOLEAN]
        BY <4>1
      <4> QED
        BY <4>3, <4>4
    <3> QED
      BY <2>1, <2>4, <3>1, <3>2 DEF Clear
  <2>5. CASE Delete(p) \/ NotDeleted(p)
    <3>1. at' \in [Callers -> DOMAIN Clients]
      BY <2>0, <2>5, NextIndex DEF Delete, NotDeleted, NextClient
    <3>2. open' \in [Names -> SUBSET Session] /\ dropped' \in [Names -> SUBSET Session]
      <4>1. CASE Delete(p)
        BY <2>0, <4>1 DEF Delete
      <4>2. CASE NotDeleted(p)
        BY <2>0, <4>2 DEF NotDeleted
      <4> QED
        BY <2>5, <4>1, <4>2
    <3> QED
      BY <2>1, <2>5, <3>1, <3>2 DEF Delete, NotDeleted
  <2> QED
    BY <1>4, <2>2, <2>3, <2>4, <2>5 DEF Closes
<1>5. ASSUME NEW u \in Users, RegisterTool(u) PROVE TypeOK'
  <2>1. pc' \in [Callers -> Places]
    BY <1>0, <1>5, GoesType DEF RegisterTool, Places
  <2>2. tools' \in [Tools -> Inits \cup Users \cup {None}]
    <3>1. tools' = [tools EXCEPT ![UserTool[u]] = u] \/ tools' = tools
      BY <1>5 DEF RegisterTool
    <3>2. CASE tools' = [tools EXCEPT ![UserTool[u]] = u]
      BY <3>2
    <3>3. CASE tools' = tools
      BY <3>3
    <3> QED
      BY <3>1, <3>2, <3>3
  <2> QED
    BY <1>5, <2>1, <2>2 DEF RegisterTool
<1>6. ASSUME NEW m \in Makers, CheckTools(m) \/ RegisterAgent(m) PROVE TypeOK'
  <2>1. pc' \in [Callers -> Places]
    BY <1>0, <1>6, GoesType DEF CheckTools, RegisterAgent, Places
  <2> QED
    BY <1>6, <2>1 DEF CheckTools, RegisterAgent
<1> QED
  BY <1>1, <1>2, <1>3, <1>4, <1>5, <1>6, Cases

-----------------------------------------------------------------------------
(* The lock of a client *)

\* A step of one call leaves the place of all others alone.
LEMMA OthersStay ==
  ASSUME TypeOK, NEW p \in Callers,
         \/ p \in Inits /\ (Initialize(p) \/ Tooling(p))
         \/ p \in Closers /\ Closes(p)
         \/ p \in Users /\ RegisterTool(p)
         \/ p \in Makers /\ (CheckTools(p) \/ RegisterAgent(p)),
         NEW q \in Callers, q # p
  PROVE  pc'[q] = pc[q] /\ at'[q] = at[q] /\ held'[q] = held[q] /\ At(q)' = At(q)
<1> USE DEF TypeOK, Goes
<1>1. pc'[q] = pc[q] /\ at'[q] = at[q] /\ held'[q] = held[q]
  <2>1. ASSUME Initialize(p) PROVE pc'[q] = pc[q] /\ at'[q] = at[q] /\ held'[q] = held[q]
    BY <2>1 DEF Initialize, Start, Lock, SendInitialize, AnswerUseless, Unreached, Install, Notified,
                NotNotified, Declare, Fails
  <2>2. ASSUME Tooling(p) PROVE pc'[q] = pc[q] /\ at'[q] = at[q] /\ held'[q] = held[q]
    BY <2>2 DEF Tooling, List, Discover, Advances, Register, Rollback
  <2>3. ASSUME Closes(p) PROVE pc'[q] = pc[q] /\ at'[q] = at[q] /\ held'[q] = held[q]
    BY <2>3 DEF Closes, StartClose, ReadState, Clear, Delete, NotDeleted, NextClient, Advances
  <2>4. ASSUME RegisterTool(p) \/ CheckTools(p) \/ RegisterAgent(p)
        PROVE  pc'[q] = pc[q] /\ at'[q] = at[q] /\ held'[q] = held[q]
    BY <2>4 DEF RegisterTool, CheckTools, RegisterAgent
  <2> QED
    BY <2>1, <2>2, <2>3, <2>4
<1> QED
  BY <1>1 DEF At

\* What a step of InitMCPClients does to the lock of its client.
LEMMA LockFacts ==
  ASSUME TypeOK, NEW i \in Inits, Initialize(i) \/ Tooling(i)
  PROVE  \/ /\ locked' = locked /\ (pc[i] \in Holding <=> pc'[i] \in Holding)
            /\ pc[i] \in Holding => at' = at
         \/ /\ locked[At(i)] = None /\ locked' = [locked EXCEPT ![At(i)] = i]
            /\ pc[i] = "initialize" /\ pc'[i] = "send" /\ at' = at
         \/ /\ locked' = [locked EXCEPT ![At(i)] = None]
            /\ pc[i] \in Holding /\ pc'[i] \notin Holding /\ at' = at
<1>0. i \in Callers
  BY DEF Callers
<1> USE <1>0 DEF TypeOK, Goes, Holding, client
<1>1. CASE Start(i) \/ Install(i) \/ Notified(i) \/ SendInitialize(i)
  BY <1>1 DEF Start, Install, Notified, SendInitialize
<1>2. CASE Lock(i)
  BY <1>2 DEF Lock
<1>3. CASE AnswerUseless(i) \/ Unreached(i) \/ NotNotified(i) \/ Declare(i)
  BY <1>3 DEF AnswerUseless, Unreached, NotNotified, Declare, Fails
<1>4. CASE Tooling(i)
  BY <1>4 DEF Tooling, List, Discover, Advances, Register, Rollback
<1> QED
  BY <1>1, <1>2, <1>3, <1>4 DEF Initialize

LEMMA LockStep == TypeOK /\ LockInv /\ [Next]_vars => LockInv'
<1> SUFFICES ASSUME TypeOK, LockInv, [Next]_vars, NEW j \in Inits, NEW c \in Names
             PROVE  locked'[c] = j <=> pc'[j] \in Holding /\ At(j)' = c
  BY DEF LockInv
<1>0. j \in Callers /\ (locked[c] = j <=> pc[j] \in Holding /\ At(j) = c)
  BY DEF LockInv, Callers
<1>1. CASE UNCHANGED vars
  BY <1>0, <1>1 DEF vars, call, client, At
<1>2. ASSUME NEW i \in Inits, Initialize(i) \/ Tooling(i)
      PROVE  locked'[c] = j <=> pc'[j] \in Holding /\ At(j)' = c
  <2>1. CASE i = j
    <3>1. at' = at => At(j)' = At(j)
      BY DEF At
    <3>2. locked \in [Names -> Inits \cup {None}] /\ None \notin Inits
      BY Facts DEF TypeOK
    <3>3. At(j) \in Names
      BY <1>0, AtName
    <3>4. CASE /\ locked' = locked /\ (pc[i] \in Holding <=> pc'[i] \in Holding)
               /\ pc[i] \in Holding => at' = at
      BY <1>0, <2>1, <3>1, <3>4
    <3>5. CASE /\ locked[At(i)] = None /\ locked' = [locked EXCEPT ![At(i)] = i]
               /\ pc[i] = "initialize" /\ pc'[i] = "send" /\ at' = at
      BY <1>0, <2>1, <3>1, <3>2, <3>3, <3>5 DEF Holding
    <3>6. CASE /\ locked' = [locked EXCEPT ![At(i)] = None]
               /\ pc[i] \in Holding /\ pc'[i] \notin Holding /\ at' = at
      BY <1>0, <2>1, <3>1, <3>2, <3>3, <3>6
    <3> QED
      BY <1>2, <3>4, <3>5, <3>6, LockFacts
  <2>2. CASE i # j
    <3>1. pc'[j] = pc[j] /\ At(j)' = At(j)
      BY <1>0, <1>2, <2>2, OthersStay DEF Callers
    <3>2. i \in Callers /\ At(i) \in Names /\ (locked[At(i)] = i <=> pc[i] \in Holding)
      BY AtName DEF Callers, LockInv
    <3>3. locked' = locked \/ (locked[At(i)] \in {None, i} /\ locked'[At(i)] \in {None, i}
                                /\ \A d \in Names : d # At(i) => locked'[d] = locked[d])
      <4>1. locked \in [Names -> Inits \cup {None}]
        BY DEF TypeOK
      <4> QED
        BY <1>2, <3>2, <4>1, LockFacts
    <3> QED
      BY <1>0, <2>2, <3>1, <3>2, <3>3, Facts
  <2> QED
    BY <2>1, <2>2
<1>3. ASSUME NEW p \in Callers \ Inits,
             \/ p \in Closers /\ Closes(p)
             \/ p \in Users /\ RegisterTool(p)
             \/ p \in Makers /\ (CheckTools(p) \/ RegisterAgent(p))
      PROVE  locked'[c] = j <=> pc'[j] \in Holding /\ At(j)' = c
  <2>1. pc'[j] = pc[j] /\ At(j)' = At(j)
    BY <1>0, <1>3, OthersStay
  <2>2. locked' = locked
    BY <1>3 DEF Closes, StartClose, ReadState, Clear, Delete, NotDeleted, RegisterTool, CheckTools,
                RegisterAgent, client
  <2> QED
    BY <1>0, <2>1, <2>2
<1> QED
  BY <1>1, <1>2, <1>3, Cases, Facts DEF Callers

-----------------------------------------------------------------------------
(* The tools that a call has registered *)

\* A call that does not change its tools may go on to register, or fail.
LEMMA RegisteredStays ==
  ASSUME TypeOK, NEW j \in Inits, RegisteredBy(j), registered'[j] = registered[j],
         \A x \in Tools : tools'[x] = j <=> tools[x] = j,
         \/ pc'[j] = pc[j]
         \/ pc[j] = "register" /\ pc'[j] = "rollback"
         \/ pc[j] = "register" /\ pc'[j] = "ok" /\ Len(registered[j]) = Len(Discovered)
         \/ pc[j] = "rollback" /\ pc'[j] = "failed" /\ registered[j] = <<>>
         \/ pc[j] \notin {"register", "rollback", "ok"} /\ pc'[j] \notin {"rollback", "ok"}
  PROVE  RegisteredBy(j)'
<1>1. Listed(j)' = Listed(j)
  BY DEF Listed
<1>2. Len(Discovered) \in Nat
  BY Facts
<1>3. registered[j] = <<>> => Len(registered[j]) = 0
  OBVIOUS
<1> QED
  BY <1>1, <1>2, <1>3 DEF RegisteredBy

\* The next tool.
LEMMA RegisterStep ==
  ASSUME TypeOK, NEW i \in Inits, RegisteredBy(i), Register(i), registered' # registered
  PROVE  RegisteredBy(i)' /\ \A j \in Inits \ {i} : \A x \in Tools : tools'[x] = j <=> tools[x] = j
<1> DEFINE s == registered[i]
<1> DEFINE y == Discovered[Len(s) + 1]
<1>1. /\ pc[i] = "register" /\ pc' = pc /\ Len(s) # Len(Discovered)
      /\ tools[y] = None /\ tools' = [tools EXCEPT ![y] = i]
      /\ registered' = [registered EXCEPT ![i] = Append(@, y)]
  BY DEF Register
<1>2. Len(s) \in Nat /\ Len(s) < Len(Discovered) /\ s \in Seq(Tools)
  BY <1>1, Facts DEF RegisteredBy, TypeOK
<1>3. y \in Tools
  BY <1>2, NextTool
<1>4. \A x \in Tools : tools'[x] = IF x = y THEN i ELSE tools[x]
  BY <1>1, <1>3 DEF TypeOK
<1>5. /\ registered'[i] = Append(s, y) /\ Len(registered'[i]) = Len(s) + 1
      /\ \A k \in 1..Len(s) : registered'[i][k] = s[k]
      /\ registered'[i][Len(s) + 1] = y
  BY <1>1, <1>2, <1>3 DEF TypeOK
<1>6. \A k \in 1..Len(s) : s[k] # y
  <2> SUFFICES ASSUME NEW k \in 1..Len(s), s[k] = y PROVE FALSE
    OBVIOUS
  <2>1. tools[y] = i
    BY <1>3 DEF RegisteredBy, Listed
  <2> QED
    BY <1>1, <2>1, Facts
<1>7. \A k \in 1..Len(registered'[i]) : k \in 1..Len(s) \/ k = Len(s) + 1
  BY <1>2, <1>5
<1>8. \A k \in 1..Len(registered'[i]) : registered'[i][k] = Discovered[k]
  BY <1>1, <1>5, <1>7 DEF RegisteredBy
<1>9. \A k, l \in 1..Len(registered'[i]) : registered'[i][k] = registered'[i][l] => k = l
  BY <1>5, <1>6, <1>7 DEF RegisteredBy
<1>10. \A x \in Tools : tools'[x] = i <=> x \in Listed(i)'
  <2>1. Listed(i)' = Listed(i) \cup {y}
    BY <1>2, <1>5, <1>7 DEF Listed
  <2> QED
    BY <1>4, <2>1 DEF RegisteredBy
<1>11. Len(registered'[i]) <= Len(Discovered)
  BY <1>2, <1>5, Facts
<1>12. RegisteredBy(i)'
  BY <1>1, <1>8, <1>9, <1>10, <1>11 DEF RegisteredBy
<1> QED
  BY <1>1, <1>4, <1>12, Facts

\* The first tool of those that were registered.
LEMMA RollbackStep ==
  ASSUME TypeOK, NEW i \in Inits, RegisteredBy(i), Rollback(i), registered[i] # <<>>
  PROVE  /\ RegisteredBy(i)' /\ tools[Head(registered[i])] = i /\ Head(registered[i]) \in Tools
         /\ \A j \in Inits \ {i} : \A x \in Tools : tools'[x] = j <=> tools[x] = j
<1> DEFINE s == registered[i]
<1> DEFINE y == Head(s)
<1>1. /\ pc[i] = "rollback" /\ pc' = pc /\ tools' = [tools EXCEPT ![y] = None]
      /\ registered' = [registered EXCEPT ![i] = Tail(@)]
  BY DEF Rollback
<1>2. s \in Seq(Tools) /\ s # <<>> /\ y = s[1] /\ Len(s) \in Nat /\ Len(s) >= 1
  BY DEF TypeOK
<1>3. /\ y \in Tools /\ Len(Tail(s)) = Len(s) - 1
      /\ \A k \in 1..Len(Tail(s)) : Tail(s)[k] = s[k + 1]
  BY <1>2, HeadTailProperties
<1>4. registered'[i] = Tail(s)
  BY <1>1 DEF TypeOK
<1>5. tools[y] = i
  <2>1. y \in Listed(i)
    BY <1>2 DEF Listed
  <2> QED
    BY <1>3, <2>1 DEF RegisteredBy
<1>6. \A x \in Tools : tools'[x] = IF x = y THEN None ELSE tools[x]
  BY <1>1, <1>3 DEF TypeOK
<1>7. \A k, l \in 1..Len(Tail(s)) : Tail(s)[k] = Tail(s)[l] => k = l
  <2> SUFFICES ASSUME NEW k \in 1..Len(Tail(s)), NEW l \in 1..Len(Tail(s)), s[k + 1] = s[l + 1] PROVE k = l
    BY <1>3
  <2>1. k + 1 \in 1..Len(s) /\ l + 1 \in 1..Len(s)
    BY <1>2, <1>3
  <2> QED
    BY <2>1 DEF RegisteredBy
<1>8. Listed(i)' = Listed(i) \ {y}
  <2>1. ASSUME NEW k \in 1..Len(Tail(s)) PROVE Tail(s)[k] \in Listed(i) \ {y}
    <3>1. k + 1 \in 1..Len(s) /\ k + 1 # 1 /\ 1 \in 1..Len(s)
      BY <1>2, <1>3
    <3>2. s[k + 1] # s[1]
      BY <3>1 DEF RegisteredBy
    <3> QED
      BY <1>2, <1>3, <3>1, <3>2 DEF Listed
  <2>2. ASSUME NEW k \in 1..Len(s), s[k] # y PROVE \E l \in 1..Len(Tail(s)) : Tail(s)[l] = s[k]
    <3>1. k # 1 /\ k - 1 \in 1..Len(Tail(s)) /\ (k - 1) + 1 = k
      BY <1>2, <1>3, <2>2
    <3> QED
      BY <1>3, <3>1
  <2>3. Listed(i)' = {Tail(s)[k] : k \in 1..Len(Tail(s))}
    BY <1>4 DEF Listed
  <2>4. Listed(i)' \subseteq Listed(i) \ {y}
    BY <2>1, <2>3
  <2>5. ASSUME NEW x \in Listed(i) \ {y} PROVE x \in {Tail(s)[k] : k \in 1..Len(Tail(s))}
    <3>1. PICK k \in 1..Len(s) : s[k] = x
      BY DEF Listed
    <3>2. PICK l \in 1..Len(Tail(s)) : Tail(s)[l] = x
      BY <2>2, <2>5, <3>1
    <3> QED
      BY <3>2
  <2> QED
    BY <2>3, <2>4, <2>5
<1>9. \A x \in Tools : tools'[x] = i <=> x \in Listed(i)'
  <2>1. \A x \in Tools : tools[x] = i <=> x \in Listed(i)
    BY DEF RegisteredBy
  <2>2. None # i
    BY Facts
  <2> HIDE DEF s, y
  <2> QED
    BY <1>6, <1>8, <2>1, <2>2
<1>10. RegisteredBy(i)'
  BY <1>1, <1>4, <1>7, <1>9 DEF RegisteredBy
<1> QED
  BY <1>3, <1>5, <1>6, <1>10, Facts

LEMMA RegisteredStep == TypeOK /\ RegisteredInv /\ [Next]_vars => RegisteredInv'
<1> SUFFICES ASSUME TypeOK, RegisteredInv, [Next]_vars, NEW j \in Inits
             PROVE  RegisteredBy(j)'
  BY DEF RegisteredInv
<1>0. RegisteredBy(j) /\ j \in Callers /\ j \notin Closers \cup Users \cup Makers /\ j # None
  BY Facts DEF RegisteredInv, Callers
<1>1. CASE UNCHANGED vars
  BY <1>0, <1>1, RegisteredStays DEF vars, call
<1>2. ASSUME NEW i \in Inits, Initialize(i) PROVE RegisteredBy(j)'
  <2>1. registered' = registered /\ tools' = tools
    BY <1>2 DEF Initialize, Start, Lock, SendInitialize, AnswerUseless, Unreached, Install, Notified,
                NotNotified, Declare
  <2>2. pc[i] \notin {"register", "rollback", "ok"} /\ pc'[i] \notin {"rollback", "ok"}
    BY <1>2 DEF Initialize, Start, Lock, SendInitialize, AnswerUseless, Unreached, Install, Notified,
                NotNotified, Declare, Fails, Goes, TypeOK, Callers
  <2>3. j # i => pc'[j] = pc[j]
    BY <1>0, <1>2, OthersStay DEF Callers
  <2> QED
    BY <1>0, <2>1, <2>2, <2>3, RegisteredStays
<1>3. ASSUME NEW i \in Inits, Tooling(i) PROVE RegisteredBy(j)'
  <2>0. j # i => pc'[j] = pc[j]
    BY <1>0, <1>3, OthersStay DEF Callers
  <2>1. CASE List(i) \/ Discover(i)
    <3>1. registered' = registered /\ tools' = tools
      BY <2>1 DEF List, Discover
    <3>2. pc[i] \notin {"register", "rollback", "ok"} /\ pc'[i] \notin {"rollback", "ok"}
      BY <2>1 DEF List, Discover, Advances, Goes, TypeOK, Callers
    <3> QED
      BY <1>0, <2>0, <3>1, <3>2, RegisteredStays
  <2>2. CASE Register(i) /\ registered' = registered
    <3>1. tools' = tools
      <4>1. CASE UNCHANGED <<registered, tools>>
        BY <4>1
      <4>2. CASE ~UNCHANGED <<registered, tools>>
        <5> DEFINE s == registered[i]
        <5>1. registered' = [registered EXCEPT ![i] = Append(@, Discovered[Len(s) + 1])]
          BY <2>2, <4>2 DEF Register
        <5>2. registered'[i] = Append(s, Discovered[Len(s) + 1]) /\ s \in Seq(Tools)
          BY <5>1 DEF TypeOK
        <5>3. Len(Append(s, Discovered[Len(s) + 1])) = Len(s) + 1 /\ Len(s) \in Nat
          BY <5>2
        <5>4. registered'[i] = s
          BY <2>2
        <5>5. Len(s) = Len(s) + 1
          BY <5>2, <5>3, <5>4
        <5>6. FALSE
          BY <5>3, <5>5
        <5> QED
          BY <5>6
      <4> QED
        BY <4>1, <4>2
    <3>2. /\ pc[i] = "register" /\ pc'[i] \in {"register", "rollback", "ok"}
          /\ pc'[i] = "ok" => Len(registered[i]) = Len(Discovered)
      BY <2>2 DEF Register, Goes, TypeOK, Callers
    <3> QED
      BY <1>0, <2>0, <2>2, <3>1, <3>2, RegisteredStays
  <2>3. CASE Register(i) /\ registered' # registered
    <3>1. /\ RegisteredBy(i)'
          /\ \A k \in Inits \ {i} : \A x \in Tools : tools'[x] = k <=> tools[x] = k
      BY <2>3, RegisterStep DEF RegisteredInv
    <3>2. j # i => registered'[j] = registered[j]
      BY <2>3 DEF Register, TypeOK
    <3> QED
      BY <1>0, <2>0, <3>1, <3>2, RegisteredStays
  <2>4. CASE Rollback(i) /\ registered[i] = <<>>
    <3>1. pc[i] = "rollback" /\ pc'[i] = "failed" /\ registered' = registered /\ tools' = tools
      BY <2>4 DEF Rollback, Goes, TypeOK, Callers
    <3> QED
      BY <1>0, <2>0, <2>4, <3>1, RegisteredStays
  <2>5. CASE Rollback(i) /\ registered[i] # <<>>
    <3>1. /\ RegisteredBy(i)'
          /\ \A k \in Inits \ {i} : \A x \in Tools : tools'[x] = k <=> tools[x] = k
      BY <2>5, RollbackStep DEF RegisteredInv
    <3>2. j # i => registered'[j] = registered[j]
      BY <2>5 DEF Rollback, TypeOK
    <3> QED
      BY <1>0, <2>0, <3>1, <3>2, RegisteredStays
  <2> QED
    BY <1>3, <2>1, <2>2, <2>3, <2>4, <2>5 DEF Tooling
<1>4. ASSUME NEW p \in Callers \ Inits,
             \/ p \in Closers /\ Closes(p)
             \/ p \in Users /\ RegisterTool(p)
             \/ p \in Makers /\ (CheckTools(p) \/ RegisterAgent(p))
      PROVE  RegisteredBy(j)'
  <2>1. pc'[j] = pc[j]
    BY <1>0, <1>4, OthersStay
  <2>2. registered' = registered
    BY <1>4 DEF Closes, StartClose, ReadState, Clear, Delete, NotDeleted, RegisterTool, CheckTools, RegisterAgent
  <2>3. \A x \in Tools : tools'[x] = j <=> tools[x] = j
    <3>1. CASE p \in Users /\ RegisterTool(p)
      BY <1>0, <3>1, Facts DEF RegisterTool, TypeOK
    <3>2. CASE ~(p \in Users /\ RegisterTool(p))
      BY <1>4, <3>2 DEF Closes, StartClose, ReadState, Clear, Delete, NotDeleted, CheckTools, RegisterAgent
    <3> QED
      BY <3>1, <3>2
  <2> QED
    BY <1>0, <2>1, <2>2, <2>3, RegisteredStays
<1> QED
  BY <1>1, <1>2, <1>3, <1>4, Cases, Facts DEF Callers

-----------------------------------------------------------------------------
(* The sessions *)

LEMMA Hands ==
  /\ \A c, x : x \in InHand(c) <=> \E q \in Installing(c) \cup Closing(c) : held[q] = x
  /\ \A c, x : x \in InHand(c)' <=> \E q \in Installing(c)' \cup Closing(c)' : held'[q] = x
  BY DEF InHand, Installing, Closing

\* A call that has no session at hand, before and after its step, does not
\* change what the others have.
LEMMA SameHands ==
  ASSUME NEW c, NEW i, Closing(c)' = Closing(c), \A p \in Closing(c) : held'[p] = held[p] /\ pc'[p] = pc[p],
         Installing(c)' \ {i} = Installing(c) \ {i}, \A p \in Installing(c) \ {i} : held'[p] = held[p],
         pc[i] \notin {"install", "notify"}, pc'[i] \notin {"install", "notify"}
  PROVE  InHand(c) = InHand(c)'
<1>1. Installing(c)' = Installing(c)
  BY DEF Installing
<1>2. \A q \in Installing(c) \cup Closing(c) : held'[q] = held[q]
  BY DEF Installing
<1>3. \A x : x \in InHand(c)' <=> x \in InHand(c)
  BY <1>1, <1>2, Hands
<1> QED
  BY <1>3

Near == Holding \cup {"clear", "delete"}

\* Steps that have nothing to do with the session of c.
LEMMA Undisturbed ==
  ASSUME TypeOK, LockInv, NEW c \in Names, SessionOf(c),
         locked'[c] = locked[c], session'[c] = session[c], initialized'[c] = initialized[c],
         open'[c] = open[c], issued'[c] = issued[c], dropped'[c] = dropped[c],
         c \notin overlapped' => c \notin overlapped,
         \A q \in Callers :
            \/ pc'[q] = pc[q] /\ At(q)' = At(q) /\ held'[q] = held[q]
            \/ (pc[q] \notin Near \/ At(q) # c) /\ (pc'[q] \notin Near \/ At(q)' # c)
  PROVE  SessionOf(c)'
<1> USE DEF Near, Holding, Callers
<1>1. Closing(c)' = Closing(c) /\ \A p \in Closing(c) : held'[p] = held[p] /\ pc'[p] = pc[p]
  BY DEF Closing
<1>2. Installing(c)' = Installing(c) /\ \A p \in Installing(c) : held'[p] = held[p] /\ pc'[p] = pc[p]
  BY DEF Installing
<1>3. InHand(c)' = InHand(c)
  <2>1. \A x : x \in InHand(c)' <=> \E q \in Installing(c) \cup Closing(c) : held'[q] = x
    BY <1>1, <1>2, Hands
  <2>2. \A q \in Installing(c) \cup Closing(c) : held'[q] = held[q]
    BY <1>1, <1>2
  <2>3. \A x : x \in InHand(c)' <=> x \in InHand(c)
    BY <2>1, <2>2, Hands
  <2> QED
    BY <2>3
<1>4. \A i \in Inits : locked[c] = i => pc'[i] = pc[i] /\ held'[i] = held[i]
  BY DEF LockInv
<1>5. ASSUME Settled(c) PROVE Settled(c)'
  <2>1. \A p \in Closing(c)' : CloserInv(c, p)'
    BY <1>1, <1>5 DEF Settled, CloserInv
  <2>2. \A i \in Inits : locked'[c] = i => InitializerInv(c, i)'
    BY <1>1, <1>4, <1>5 DEF Settled, InitializerInv
  <2> QED
    BY <1>3, <1>5, <2>1, <2>2 DEF Settled
<1> QED
  BY <1>5 DEF SessionOf

\* A step of one call changes the session of one client at most.
LEMMA Elsewhere ==
  ASSUME IInv, NEW p \in Callers,
         \/ p \in Inits /\ (Initialize(p) \/ Tooling(p))
         \/ p \in Closers /\ Closes(p)
         \/ p \in Users /\ RegisterTool(p)
         \/ p \in Makers /\ (CheckTools(p) \/ RegisterAgent(p)),
         NEW c \in Names, At(p) # c
  PROVE  SessionOf(c)'
<1> USE DEF IInv, TypeOK, client, server, history
<1>0. At(p) \in Names /\ TypeOK
  BY AtName
<1>1. /\ locked'[c] = locked[c] /\ session'[c] = session[c] /\ initialized'[c] = initialized[c]
      /\ open'[c] = open[c] /\ issued'[c] = issued[c] /\ dropped'[c] = dropped[c]
      /\ c \notin overlapped' => c \notin overlapped
  <2>1. CASE p \in Inits /\ Initialize(p)
    BY <1>0, <2>1 DEF Initialize, Start, Lock, SendInitialize, AnswerUseless, Opens, Unreached, Install,
                      Notified, NotNotified, Declare, Fails, Cleared
  <2>2. CASE p \in Inits /\ Tooling(p)
    BY <1>0, <2>2 DEF Tooling, List, Discover, Register, Rollback
  <2>3. CASE p \in Closers /\ Closes(p)
    BY <1>0, <2>3 DEF Closes, StartClose, ReadState, Clear, Delete, NotDeleted, Overlaps, Cleared
  <2>4. CASE RegisterTool(p) \/ CheckTools(p) \/ RegisterAgent(p)
    BY <1>0, <2>4 DEF RegisterTool, CheckTools, RegisterAgent
  <2> QED
    BY <2>1, <2>2, <2>3, <2>4
<1>2. pc'[p] \notin Near \/ At(p)' # c
  <2>1. at' = at => At(p)' = At(p)
    BY DEF At
  <2>2. CASE at' # at
    BY <2>2 DEF Initialize, Start, Lock, SendInitialize, AnswerUseless, Unreached, Install, Notified,
                NotNotified, Declare, Tooling, List, Discover, Register, Rollback, Closes, StartClose, ReadState,
                Clear, Delete, NotDeleted, NextClient, RegisterTool, CheckTools, RegisterAgent,
                Advances, Goes, Near, Holding
  <2> QED
    BY <2>1, <2>2
<1>3. \A q \in Callers \ {p} : pc'[q] = pc[q] /\ At(q)' = At(q) /\ held'[q] = held[q]
  BY <1>0, OthersStay
<1> QED
  BY <1>0, <1>1, <1>2, <1>3, Undisturbed DEF SessionInv

\* Steps of Initialize, for the client that is initialized.
LEMMA InitializeStep ==
  ASSUME IInv, NEW i \in Inits, Initialize(i), NEW c \in Names, At(i) = c
  PROVE  SessionOf(c)'
<1> USE DEF TypeOK, client, server, history, Goes, Holding
<1>0. /\ TypeOK /\ LockInv /\ SessionOf(c) /\ i \in Callers /\ None \notin Inits /\ i \notin Closers
      /\ pc[i] \in Holding <=> locked[c] = i
  BY Facts DEF IInv, SessionInv, LockInv, Callers
<1>1. \A q \in Callers \ {i} : pc'[q] = pc[q] /\ At(q)' = At(q) /\ held'[q] = held[q]
  BY <1>0, OthersStay
<1>2. at' = at /\ At(i)' = c
  BY DEF Initialize, Start, Lock, SendInitialize, AnswerUseless, Unreached, Install, Notified, NotNotified,
         Declare, At
<1>3. Closing(c)' = Closing(c) /\ \A p \in Closing(c) : held'[p] = held[p] /\ pc'[p] = pc[p]
  BY <1>0, <1>1 DEF Closing, Callers
<1>4. Installing(c)' \ {i} = Installing(c) \ {i} /\ \A p \in Installing(c) \ {i} : held'[p] = held[p]
  BY <1>0, <1>1 DEF Installing, Callers
<1>5. issued[c] \in Nat /\ session[c] \in Nat /\ \A q \in Callers : held[q] \in Nat
  BY <1>0 DEF Session
<1>6. CASE Start(i)
  BY <1>0, <1>1, <1>6, Undisturbed DEF Start, Near
<1>7. CASE Lock(i)
  <2>1. CASE Needless(c)
    BY <1>0, <1>1, <1>7, <2>1, Undisturbed DEF Lock, Near
  <2>2. CASE ~Needless(c) /\ c \notin overlapped'
    <3>1. /\ locked[c] = None /\ locked'[c] = i /\ pc'[i] = "send" /\ pc[i] = "initialize" /\ ~initialized[c]
          /\ c \notin overlapped /\ \A p \in Closing(c) : pc[p] # "clear"
      BY <1>0, <1>7, <2>2 DEF Lock, Needless, Closing
    <3>2. /\ session' = session /\ initialized' = initialized /\ open' = open /\ issued' = issued
          /\ dropped' = dropped
      BY <1>7 DEF Lock
    <3>3. Settled(c) /\ session[c] = 0 /\ open[c] \subseteq 1..issued[c]
      BY <1>0, <3>1 DEF SessionOf, Settled
    <3>4. InHand(c) = InHand(c)'
      BY <1>3, <1>4, <3>1, SameHands
    <3>5. \A p \in Closing(c)' : CloserInv(c, p)'
      BY <1>3, <3>1, <3>2, <3>3 DEF Settled, CloserInv
    <3>6. \A j \in Inits : locked'[c] = j => InitializerInv(c, j)'
      BY <3>1, <3>2, <3>3 DEF InitializerInv
    <3> QED
      BY <1>0, <3>1, <3>2, <3>3, <3>4, <3>5, <3>6 DEF SessionOf, Settled
  <2>3. CASE c \in overlapped'
    BY <1>0, <1>7, <2>3 DEF Lock, SessionOf
  <2> QED
    BY <2>1, <2>2, <2>3
<1>8. CASE SendInitialize(i)
  <2> DEFINE n == issued[c] + 1
  <2>1. /\ locked[c] = i /\ pc[i] = "send" /\ pc'[i] = "install" /\ issued'[c] = n /\ open'[c] = open[c] \cup {n}
        /\ held'[i] = n
    BY <1>0, <1>8 DEF SendInitialize, Opens
  <2>2. locked' = locked /\ session' = session /\ initialized' = initialized /\ dropped' = dropped
        /\ overlapped' = overlapped
    BY <1>8 DEF SendInitialize
  <2>3. open'[c] \subseteq 1..issued'[c]
    BY <1>0, <1>5, <2>1 DEF SessionOf
  <2>4. ASSUME Settled(c) PROVE Settled(c)'
    <3>1. i \in Installing(c)' /\ i \notin Installing(c)
      BY <1>2, <2>1 DEF Installing
    <3>2. open'[c] \subseteq {session'[c]} \cup InHand(c)' \cup dropped'[c]
      BY <1>3, <1>4, <2>1, <2>2, <2>4, <3>1, Hands DEF Settled
    <3>3. session[c] = 0 /\ ~initialized[c] /\ \A p \in Closing(c) : held[p] <= issued[c] /\ pc[p] # "clear"
      BY <1>0, <2>1, <2>4 DEF Settled, InitializerInv, CloserInv
    <3>4. \A p \in Closing(c)' : held'[p] < n
      BY <1>0, <1>3, <1>5, <3>3 DEF Closing, Callers
    <3>5. \A p \in Closing(c)' : CloserInv(c, p)'
      BY <1>3, <2>1, <2>2, <3>3, <3>4, <1>5 DEF CloserInv, Closing, Callers
    <3>6. \A j \in Inits : locked'[c] = j => InitializerInv(c, j)'
      BY <2>1, <2>2, <3>3, <3>4 DEF InitializerInv
    <3> QED
      BY <1>0, <1>5, <2>1, <2>2, <3>2, <3>3, <3>5, <3>6 DEF Settled
  <2> QED
    BY <1>0, <2>2, <2>3, <2>4 DEF SessionOf
<1>9. CASE AnswerUseless(i)
  <2> DEFINE n == issued[c] + 1
  <2>1. /\ locked[c] = i /\ pc[i] = "send" /\ pc'[i] = "failed" /\ issued'[c] = n /\ open'[c] = open[c] \cup {n}
        /\ locked'[c] = None /\ dropped'[c] = dropped[c] \cup {n}
    BY <1>0, <1>9 DEF AnswerUseless, Opens, Fails
  <2>2. held' = held /\ session' = session /\ initialized' = initialized /\ overlapped' = overlapped
    BY <1>9 DEF AnswerUseless
  <2>3. open'[c] \subseteq 1..issued'[c]
    BY <1>0, <1>5, <2>1 DEF SessionOf
  <2>4. ASSUME Settled(c) PROVE Settled(c)'
    <3>1. InHand(c) = InHand(c)'
      BY <1>3, <1>4, <2>1, SameHands
    <3>2. session[c] = 0 /\ ~initialized[c] /\ \A p \in Closing(c) : held[p] <= issued[c] /\ pc[p] # "clear"
      BY <1>0, <2>1, <2>4 DEF Settled, InitializerInv, CloserInv
    <3>3. \A p \in Closing(c)' : held'[p] <= n
      BY <1>0, <1>3, <1>5, <3>2 DEF Closing, Callers
    <3>4. \A p \in Closing(c)' : CloserInv(c, p)'
      BY <1>3, <2>1, <2>2, <3>2, <3>3 DEF CloserInv
    <3> QED
      BY <1>0, <1>5, <2>1, <2>2, <2>4, <3>1, <3>2, <3>4 DEF Settled
  <2> QED
    BY <1>0, <2>2, <2>3, <2>4 DEF SessionOf
<1>10. CASE Unreached(i)
  <2>1. locked[c] = i /\ pc[i] = "send" /\ pc'[i] = "failed" /\ locked'[c] = None
    BY <1>0, <1>10 DEF Unreached, Fails
  <2>2. /\ held' = held /\ session' = session /\ initialized' = initialized /\ overlapped' = overlapped
        /\ issued' = issued /\ open' = open /\ dropped' = dropped
    BY <1>10 DEF Unreached
  <2>3. ASSUME Settled(c) PROVE Settled(c)'
    <3>1. InHand(c) = InHand(c)'
      BY <1>3, <1>4, <2>1, SameHands
    <3>2. session[c] = 0 /\ ~initialized[c] /\ \A p \in Closing(c) : held[p] <= issued[c] /\ pc[p] # "clear"
      BY <1>0, <2>1, <2>3 DEF Settled, InitializerInv, CloserInv
    <3>3. \A p \in Closing(c)' : CloserInv(c, p)'
      BY <1>3, <2>2, <3>2 DEF CloserInv
    <3> QED
      BY <1>0, <2>1, <2>2, <2>3, <3>1, <3>2, <3>3 DEF Settled
  <2> QED
    BY <1>0, <2>2, <2>3 DEF SessionOf
<1>11. CASE Install(i)
  <2>1. locked[c] = i /\ pc[i] = "install" /\ pc'[i] = "notify" /\ session'[c] = held[i]
    BY <1>0, <1>11 DEF Install
  <2>2. /\ held' = held /\ locked' = locked /\ initialized' = initialized /\ overlapped' = overlapped
        /\ issued' = issued /\ open' = open /\ dropped' = dropped
    BY <1>11 DEF Install
  <2>3. ASSUME Settled(c) PROVE Settled(c)'
    <3>1. InHand(c) = InHand(c)'
      <4>1. i \in Installing(c)' /\ i \in Installing(c)
        BY <1>2, <2>1 DEF Installing
      <4>2. Installing(c)' = Installing(c)
        BY <1>4, <4>1
      <4> QED
        BY <1>3, <2>2, <4>2 DEF InHand, Installing, Closing
    <3>2. /\ session[c] = 0 /\ ~initialized[c] /\ held[i] \in open[c]
          /\ \A p \in Closing(c) : held[p] < held[i] /\ held[p] <= issued[c] /\ pc[p] # "clear"
      BY <1>0, <2>1, <2>3 DEF Settled, InitializerInv, CloserInv
    <3>3. \A p \in Closing(c)' : CloserInv(c, p)'
      BY <1>0, <1>3, <1>5, <2>1, <2>2, <3>2 DEF CloserInv, Closing, Callers
    <3>4. \A j \in Inits : locked'[c] = j => InitializerInv(c, j)'
      BY <1>3, <2>1, <2>2, <3>2 DEF InitializerInv
    <3>5. held[i] <= issued[c] /\ 0 \notin open[c]
      BY <1>0, <1>5, <3>2 DEF SessionOf
    <3> QED
      BY <1>0, <2>1, <2>2, <2>3, <3>1, <3>2, <3>3, <3>4, <3>5 DEF Settled
  <2> QED
    BY <1>0, <2>2, <2>3 DEF SessionOf
<1>12. CASE Notified(i)
  <2>1. locked[c] = i /\ pc[i] = "notify" /\ pc'[i] = "declare"
    BY <1>0, <1>12 DEF Notified
  <2>2. /\ held' = held /\ locked' = locked /\ session' = session /\ initialized' = initialized
        /\ overlapped' = overlapped /\ issued' = issued /\ open' = open /\ dropped' = dropped
    BY <1>12 DEF Notified
  <2>3. ASSUME Settled(c) PROVE Settled(c)'
    <3>1. session[c] = held[i]
      BY <2>1, <2>3 DEF Settled, InitializerInv
    <3>2. \A x \in InHand(c) : x = session[c] \/ x \in InHand(c)'
      BY <1>3, <1>4, <2>2, <3>1, Hands
    <3>3. \A p \in Closing(c)' : CloserInv(c, p)'
      BY <1>3, <2>2, <2>3 DEF Settled, CloserInv
    <3>4. \A j \in Inits : locked'[c] = j => InitializerInv(c, j)'
      BY <1>3, <2>1, <2>2, <2>3 DEF Settled, InitializerInv
    <3> QED
      BY <1>0, <2>1, <2>2, <2>3, <3>2, <3>3, <3>4 DEF Settled
  <2> QED
    BY <1>0, <2>2, <2>3 DEF SessionOf
<1>13. CASE NotNotified(i)
  <2>1. /\ locked[c] = i /\ pc[i] = "notify" /\ pc'[i] = "failed" /\ locked'[c] = None /\ session'[c] = 0
        /\ ~initialized'[c] /\ dropped'[c] = dropped[c] \cup {held[i]}
    BY <1>0, <1>13 DEF NotNotified, Fails, Cleared
  <2>2. held' = held /\ overlapped' = overlapped /\ issued' = issued /\ open' = open
    BY <1>13 DEF NotNotified
  <2>3. ASSUME Settled(c) PROVE Settled(c)'
    <3>1. session[c] = held[i] /\ \A p \in Closing(c) : held[p] <= issued[c] /\ pc[p] # "clear"
      BY <1>0, <2>1, <2>3 DEF Settled, InitializerInv, CloserInv
    <3>2. \A x \in InHand(c) : x = held[i] \/ x \in InHand(c)'
      BY <1>3, <1>4, <2>2, Hands
    <3>3. \A p \in Closing(c)' : CloserInv(c, p)'
      BY <1>3, <2>1, <2>2, <3>1 DEF CloserInv
    <3> QED
      BY <1>0, <1>5, <2>1, <2>2, <2>3, <3>1, <3>2, <3>3 DEF Settled
  <2> QED
    BY <1>0, <2>2, <2>3 DEF SessionOf
<1>14. CASE Declare(i)
  <2>1. locked[c] = i /\ pc[i] = "declare" /\ pc'[i] = "list" /\ locked'[c] = None /\ initialized'[c]
    BY <1>0, <1>14 DEF Declare
  <2>2. /\ held' = held /\ overlapped' = overlapped /\ issued' = issued /\ open' = open /\ session' = session
        /\ dropped' = dropped
    BY <1>14 DEF Declare
  <2>3. ASSUME Settled(c) PROVE Settled(c)'
    <3>1. InHand(c) = InHand(c)'
      BY <1>3, <1>4, <2>1, SameHands
    <3>2. /\ session[c] = held[i] /\ held[i] \in open[c]
          /\ \A p \in Closing(c) : held[p] <= issued[c] /\ pc[p] # "clear"
      BY <1>0, <2>1, <2>3 DEF Settled, InitializerInv, CloserInv
    <3>3. \A p \in Closing(c)' : CloserInv(c, p)'
      BY <1>3, <2>2, <2>3, <3>2 DEF Settled, CloserInv
    <3> QED
      BY <1>0, <2>1, <2>2, <2>3, <3>1, <3>2, <3>3 DEF Settled
  <2> QED
    BY <1>0, <2>2, <2>3 DEF SessionOf
<1> QED
  BY <1>6, <1>7, <1>8, <1>9, <1>10, <1>11, <1>12, <1>13, <1>14 DEF Initialize

\* Steps of InitMCPClients with the tools leave the sessions alone.
LEMMA ToolingStep ==
  ASSUME IInv, NEW i \in Inits, Tooling(i), NEW c \in Names, At(i) = c
  PROVE  SessionOf(c)'
<1>0. TypeOK /\ LockInv /\ SessionOf(c) /\ i \in Callers
  BY DEF IInv, SessionInv, Callers
<1>1. \A q \in Callers \ {i} : pc'[q] = pc[q] /\ At(q)' = At(q) /\ held'[q] = held[q]
  BY <1>0, OthersStay
<1>2. /\ locked' = locked /\ session' = session /\ initialized' = initialized /\ overlapped' = overlapped
      /\ issued' = issued /\ open' = open /\ dropped' = dropped
  BY DEF Tooling, List, Discover, Register, Rollback, client, server, history
<1>3. pc[i] \notin Near /\ pc'[i] \notin Near
  BY <1>0 DEF Tooling, List, Discover, Advances, Register, Rollback, Goes, Near, Holding, TypeOK
<1> QED
  BY <1>0, <1>1, <1>2, <1>3, Undisturbed

\* Steps of Close, for the client that is closed.
LEMMA CloseStep ==
  ASSUME IInv, NEW p \in Closers, Closes(p), NEW c \in Names, At(p) = c
  PROVE  SessionOf(c)'
<1> USE DEF TypeOK, client, server, history, Goes
<1>0. TypeOK /\ LockInv /\ SessionOf(c) /\ p \in Callers /\ p \notin Inits /\ None \notin Inits
  BY Facts DEF IInv, SessionInv, Callers
<1>1. \A q \in Callers \ {p} : pc'[q] = pc[q] /\ At(q)' = At(q) /\ held'[q] = held[q]
  BY <1>0, OthersStay
<1>2. \A q \in Closing(c)' : q # p => q \in Closing(c) /\ held'[q] = held[q] /\ pc'[q] = pc[q]
  BY <1>0, <1>1 DEF Closing, Callers
<1>3. \A q \in Closing(c) \ {p} : q \in Closing(c)' /\ held'[q] = held[q]
  BY <1>0, <1>1 DEF Closing, Callers
<1>4. Installing(c)' = Installing(c) /\ \A q \in Installing(c) : held'[q] = held[q]
  BY <1>0, <1>1 DEF Installing, Callers
<1>5. issued[c] \in Nat /\ session[c] \in Nat /\ \A q \in Callers : held[q] \in Nat
  BY <1>0 DEF Session
<1>6. \A i \in Inits : pc'[i] = pc[i] /\ held'[i] = held[i]
  BY <1>0, <1>1 DEF Callers
<1>7. CASE StartClose(p)
  BY <1>0, <1>1, <1>7, Undisturbed DEF StartClose, Near, Holding
<1>8. CASE ReadState(p)
  <2>1. /\ locked' = locked /\ session' = session /\ initialized' = initialized
        /\ issued' = issued /\ open' = open /\ dropped' = dropped
        /\ pc[p] = "read" /\ pc'[p] = "clear" /\ held'[p] = session[c] /\ at' = at
    BY <1>0, <1>8 DEF ReadState
  <2>2. c \notin overlapped' => locked[c] = None /\ c \notin overlapped
    BY <1>0, <1>8 DEF ReadState, Overlaps
  <2>3. ASSUME Settled(c), locked[c] = None PROVE Settled(c)'
    <3>1. p \notin Closing(c)
      BY <2>1 DEF Closing
    <3>2. \A x \in InHand(c) : x \in InHand(c)'
      BY <1>3, <1>4, <3>1, Hands
    <3>3. \A q \in Closing(c)' : CloserInv(c, q)'
      BY <1>2, <2>1, <2>3 DEF Settled, CloserInv
    <3>4. \A i \in Inits : locked'[c] # i
      BY <1>0, <2>1, <2>3
    <3> QED
      BY <2>1, <2>3, <3>2, <3>3, <3>4 DEF Settled
  <2> QED
    BY <1>0, <2>1, <2>2, <2>3 DEF SessionOf
<1>9. CASE Clear(p)
  <2>1. /\ locked' = locked /\ held' = held /\ issued' = issued /\ open' = open /\ dropped' = dropped
        /\ pc[p] = "clear" /\ pc'[p] = "delete" /\ at' = at /\ session'[c] = 0 /\ ~initialized'[c]
    BY <1>0, <1>9 DEF Clear, Cleared
  <2>2. c \notin overlapped' => locked[c] = None /\ c \notin overlapped
    BY <1>0, <1>9 DEF Clear, Overlaps
  <2>3. ASSUME Settled(c), locked[c] = None PROVE Settled(c)'
    <3>1. p \in Closing(c) /\ p \in Closing(c)'
      BY <2>1 DEF Closing, At
    <3>2. \A x \in InHand(c) : x \in InHand(c)'
      BY <1>3, <1>4, <2>1, <3>1, Hands
    <3>3. session[c] \in {0, held[p]}
      BY <2>1, <2>3, <3>1 DEF Settled, CloserInv
    <3>4. held[p] \in InHand(c)' /\ 0 \notin open[c]
      BY <1>0, <1>5, <2>1, <3>1, Hands DEF SessionOf
    <3>5. \A q \in Closing(c)' : CloserInv(c, q)'
      BY <1>2, <2>1, <2>3, <3>1 DEF Settled, CloserInv
    <3>6. \A i \in Inits : locked'[c] # i
      BY <1>0, <2>1, <2>3
    <3> QED
      BY <1>5, <2>1, <2>3, <3>2, <3>3, <3>4, <3>5, <3>6 DEF Settled
  <2> QED
    BY <1>0, <2>1, <2>2, <2>3 DEF SessionOf
<1>10. CASE Delete(p) \/ NotDeleted(p)
  <2>1. /\ locked' = locked /\ session' = session /\ initialized' = initialized /\ overlapped' = overlapped
        /\ issued' = issued /\ held' = held /\ pc[p] = "delete" /\ pc'[p] \in {"read", "ok"}
    BY <1>0, <1>10 DEF Delete, NotDeleted, NextClient, Advances
  <2>2. \/ open'[c] = open[c] \ {held[p]} /\ dropped' = dropped
        \/ open' = open /\ dropped'[c] = dropped[c] \cup {held[p]}
    BY <1>0, <1>10 DEF Delete, NotDeleted
  <2>3. ASSUME Settled(c) PROVE Settled(c)'
    <3>1. p \in Closing(c) /\ p \notin Closing(c)'
      BY <2>1 DEF Closing
    <3>2. \A x \in InHand(c) : x = held[p] \/ x \in InHand(c)'
      BY <1>3, <1>4, <3>1, Hands
    <3>3. session[c] \in open[c] => session[c] # held[p]
      BY <1>0, <1>5, <2>1, <2>3, <3>1 DEF SessionOf, Settled, CloserInv
    <3>4. open'[c] \subseteq {session'[c]} \cup InHand(c)' \cup dropped'[c]
      BY <2>1, <2>2, <2>3, <3>2 DEF Settled
    <3>5. \A q \in Closing(c)' : CloserInv(c, q)'
      BY <1>2, <2>1, <2>3, <3>1 DEF Settled, CloserInv
    <3>6. ASSUME NEW i \in Inits, locked'[c] = i PROVE InitializerInv(c, i)'
      <4>1. InitializerInv(c, i) /\ pc'[i] = pc[i] /\ held'[i] = held[i]
        BY <1>6, <2>1, <2>3, <3>6 DEF Settled
      <4>2. pc[i] \in {"install", "notify", "declare"} => held[i] # held[p]
        BY <1>0, <1>5, <3>1, <4>1 DEF InitializerInv, Callers
      <4>3. pc[i] \in {"install", "notify", "declare"} => held[i] \in open'[c]
        BY <2>2, <4>1, <4>2 DEF InitializerInv
      <4>4. \A q \in Closing(c)' : q \in Closing(c) /\ held'[q] = held[q]
        BY <1>2, <3>1
      <4> QED
        BY <2>1, <4>1, <4>3, <4>4 DEF InitializerInv
    <3>7. initialized'[c] => session'[c] \in open'[c]
      BY <2>1, <2>2, <2>3, <3>3 DEF Settled
    <3> QED
      BY <2>1, <2>3, <3>4, <3>5, <3>6, <3>7 DEF Settled
  <2>4. open'[c] \subseteq 1..issued'[c]
    BY <1>0, <2>1, <2>2 DEF SessionOf
  <2> QED
    BY <1>0, <2>1, <2>3, <2>4 DEF SessionOf
<1> QED
  BY <1>7, <1>8, <1>9, <1>10 DEF Closes

LEMMA SessionStep == IInv /\ [Next]_vars => SessionInv'
<1> SUFFICES ASSUME IInv, [Next]_vars, NEW c \in Names PROVE SessionOf(c)'
  BY DEF SessionInv
<1>0. TypeOK /\ LockInv /\ SessionOf(c)
  BY DEF IInv, SessionInv
<1>1. CASE UNCHANGED vars
  BY <1>0, <1>1, Undisturbed DEF vars, call, client, server, history, At
<1>2. ASSUME NEW i \in Inits, Initialize(i) \/ Tooling(i) PROVE SessionOf(c)'
  BY <1>2, InitializeStep, ToolingStep, Elsewhere DEF Callers
<1>3. ASSUME NEW p \in Closers, Closes(p) PROVE SessionOf(c)'
  BY <1>3, CloseStep, Elsewhere DEF Callers
<1>4. ASSUME NEW p \in Callers \ (Inits \cup Closers),
             \/ p \in Users /\ RegisterTool(p)
             \/ p \in Makers /\ (CheckTools(p) \/ RegisterAgent(p))
      PROVE  SessionOf(c)'
  <2>1. \A q \in Callers \ {p} : pc'[q] = pc[q] /\ At(q)' = At(q) /\ held'[q] = held[q]
    BY <1>0, <1>4, OthersStay
  <2>2. /\ locked' = locked /\ session' = session /\ initialized' = initialized /\ overlapped' = overlapped
        /\ issued' = issued /\ open' = open /\ dropped' = dropped
    BY <1>4 DEF RegisterTool, CheckTools, RegisterAgent, client, server, history
  <2>3. pc[p] \notin Near /\ pc'[p] \notin Near
    BY <1>0, <1>4 DEF RegisterTool, CheckTools, RegisterAgent, Goes, Near, Holding, TypeOK
  <2> QED
    BY <1>0, <2>1, <2>2, <2>3, Undisturbed
<1> QED
  BY <1>1, <1>2, <1>3, <1>4, Cases, Facts DEF Callers

-----------------------------------------------------------------------------
(* Theorems *)

LEMMA InitIInv == Init => IInv
<1> SUFFICES ASSUME Init PROVE IInv
  OBVIOUS
<1>1. TypeOK
  BY InitType
<1>2. LockInv
  BY Facts DEF Init, LockInv, Holding, Callers
<1>3. RegisteredInv
  <2> SUFFICES ASSUME NEW i \in Inits PROVE RegisteredBy(i)
    BY DEF RegisteredInv
  <2>1. pc[i] = "idle" /\ registered[i] = <<>> /\ \A x \in Tools : tools[x] # i
    BY Facts DEF Init, Callers
  <2>2. Listed(i) = {} /\ 1..Len(registered[i]) = {}
    BY <2>1 DEF Listed
  <2> QED
    BY <2>1, <2>2 DEF RegisteredBy
<1>4. SessionInv
  <2> SUFFICES ASSUME NEW c \in Names PROVE SessionOf(c)
    BY DEF SessionInv
  <2>1. Closing(c) = {}
    BY DEF Init, Closing, Callers
  <2> QED
    BY <2>1, Facts DEF Init, SessionOf, Settled
<1> QED
  BY <1>1, <1>2, <1>3, <1>4 DEF IInv

LEMMA Inductive == Spec => []IInv
<1>1. IInv /\ [Next]_vars => IInv'
  BY TypeStep, LockStep, RegisteredStep, SessionStep DEF IInv
<1> QED
  BY <1>1, InitIInv, PTL DEF Spec

\* Every variable has its type.
THEOREM TypeCorrect == Spec => []TypeOK
<1>1. IInv => TypeOK
  BY DEF IInv
<1> QED
  BY <1>1, Inductive, PTL

\* InitMCPClients registers the tools of all servers or none.
THEOREM Whole == Spec => []AllOrNothing
<1>1. IInv => AllOrNothing
  <2> SUFFICES ASSUME IInv, NEW i \in Inits
               PROVE  /\ pc[i] = "ok" => \A x \in ToSet(Discovered) : tools[x] = i
                      /\ pc[i] = "failed" => \A x \in Tools : tools[x] # i
    BY DEF AllOrNothing
  <2>1. RegisteredBy(i)
    BY DEF IInv, RegisteredInv
  <2>2. ASSUME pc[i] = "ok", NEW x \in ToSet(Discovered) PROVE tools[x] = i
    <3>1. PICK k \in 1..Len(Discovered) : Discovered[k] = x
      BY Facts DEF ToSet
    <3>2. x \in Listed(i) /\ x \in Tools
      BY <2>1, <2>2, <3>1 DEF RegisteredBy, Listed, Tools
    <3> QED
      BY <2>1, <3>2 DEF RegisteredBy
  <2>3. ASSUME pc[i] = "failed", NEW x \in Tools PROVE tools[x] # i
    BY <2>1, <2>3 DEF RegisteredBy, Listed
  <2> QED
    BY <2>2, <2>3
<1> QED
  BY <1>1, Inductive, PTL

\* A tool and an agent that a call registered with success stay.
THEOREM Stay == Spec => RegistrationsStay
<1>1. IInv /\ [Next]_vars =>
        [/\ \A x \in Tools : tools[x] # None /\ pc[tools[x]] = "ok" => tools'[x] = tools[x]
         /\ agent # None => agent' = agent]_vars
  <2> SUFFICES ASSUME IInv, [Next]_vars
               PROVE  /\ \A x \in Tools : tools[x] # None /\ pc[tools[x]] = "ok" => tools'[x] = tools[x]
                      /\ agent # None => agent' = agent
    OBVIOUS
  <2>0. TypeOK /\ RegisteredInv
    BY DEF IInv
  <2>1. ASSUME NEW i \in Inits, Register(i), registered' # registered
        PROVE  \A x \in Tools : tools[x] # None => tools'[x] = tools[x]
    BY <2>0, <2>1 DEF Register, TypeOK
  <2>2. ASSUME NEW i \in Inits, Rollback(i), registered[i] # <<>>
        PROVE  \A x \in Tools : pc[tools[x]] = "ok" => tools'[x] = tools[x]
    <3>1. /\ pc[i] = "rollback" /\ tools[Head(registered[i])] = i
          /\ tools' = [tools EXCEPT ![Head(registered[i])] = None]
      BY <2>0, <2>2, RollbackStep DEF Rollback, RegisteredInv
    <3> QED
      BY <2>0, <3>1 DEF TypeOK
  <2>3. ASSUME NEW u \in Users, RegisterTool(u)
        PROVE  \A x \in Tools : tools[x] # None => tools'[x] = tools[x]
    BY <2>0, <2>3 DEF RegisterTool, TypeOK
  <2>4. UNCHANGED tools \/ \A x \in Tools : tools[x] # None /\ pc[tools[x]] = "ok" => tools'[x] = tools[x]
    <3>1. ASSUME NEW i \in Inits, Register(i), registered' = registered PROVE UNCHANGED tools
      <4>1. registered[i] \in Seq(Tools) /\ \A y : Append(registered[i], y) # registered[i]
        <5>1. registered[i] \in Seq(Tools)
          BY <2>0 DEF TypeOK
        <5>2. ASSUME NEW y PROVE Append(registered[i], y) # registered[i]
          <6>1. Len(Append(registered[i], y)) = Len(registered[i]) + 1 /\ Len(registered[i]) \in Nat
            BY <5>1
          <6>2. Len(registered[i]) + 1 # Len(registered[i])
            BY <6>1
          <6> QED
            BY <6>1, <6>2
        <5> QED
          BY <5>1, <5>2
      <4> QED
        BY <2>0, <3>1, <4>1 DEF Register, TypeOK
    <3>2. ASSUME NEW i \in Inits, Rollback(i), registered[i] = <<>> PROVE UNCHANGED tools
      BY <3>2 DEF Rollback
    <3>3. ASSUME NEW i \in Inits, Initialize(i) \/ List(i) \/ Discover(i) PROVE UNCHANGED tools
      BY <3>3 DEF Initialize, Start, Lock, SendInitialize, AnswerUseless, Unreached, Install, Notified,
                  NotNotified, Declare, List, Discover
    <3>4. ASSUME NEW p \in Closers, Closes(p) PROVE UNCHANGED tools
      BY <3>4 DEF Closes, StartClose, ReadState, Clear, Delete, NotDeleted
    <3>5. ASSUME NEW m \in Makers, CheckTools(m) \/ RegisterAgent(m) PROVE UNCHANGED tools
      BY <3>5 DEF CheckTools, RegisterAgent
    <3>6. ASSUME UNCHANGED vars PROVE UNCHANGED tools
      BY <3>6 DEF vars
    <3> QED
      BY <2>1, <2>2, <2>3, <3>1, <3>2, <3>3, <3>4, <3>5, <3>6, Cases DEF Tooling
  <2>5. agent # None => agent' = agent
    BY DEF Next, Start, Lock, SendInitialize, AnswerUseless, Unreached, Install, Notified, NotNotified, Declare,
           List, Discover, Register, Rollback, StartClose, ReadState, Clear, Delete, NotDeleted, RegisterTool,
           CheckTools, RegisterAgent, vars
  <2> QED
    BY <2>4, <2>5
<1> QED
  BY <1>1, Inductive, PTL DEF Spec, RegistrationsStay

\* The sessions that a server keeps open are known to its client.
THEOREM Kept == Spec => []SessionKept
<1>1. IInv => SessionKept
  BY DEF IInv, SessionInv, SessionOf, Settled, SessionKept
<1> QED
  BY <1>1, Inductive, PTL

=============================================================================
