------------------------- MODULE InteractionProofs --------------------------
(***************************************************************************)
(* Proofs about module Interaction: for any number of runs, questions and  *)
(* answers, an answer reaches the question that it was given for, and a    *)
(* question that waits can be answered.                                    *)
(*                                                                         *)
(* The invariant follows one question from its registration: it is in      *)
(* Task.pending under its identifier, or the call that took it out is      *)
(* about to send its answer, or the answer is in its channel.              *)
(***************************************************************************)
EXTENDS Interaction, TLAPS

\* A question that has been, or could not be, registered.
Past(q) ==
    /\ q[2] <= asks[q[1]]
    /\ q[2] = asks[q[1]] => pc[q[1]] \notin {"checkpoint", "register"}

AskInv ==
    /\ \A q \in Questions : q[2] > asks[q[1]] => id[q] = None
    /\ \A a \in Askers : pc[a] \notin {"running", "failed"} => asks[a] >= 1

CallInv ==
    /\ \A w \in Answerers : call[w] # "idle" => found[w] \in Questions /\ Past(found[w])
    /\ \A w \in Answerers : call[w] \in {"delete", "send", "accepted"} => w \in acked

ChannelInv ==
    \A q \in Questions, w \in Answerers :
        w \in {answer[q], got[q]} => call[w] = "accepted" /\ found[w] = q

PendingInv ==
    \A i \in Ids : pending[i] # None => id[pending[i]] = i /\ Past(pending[i])

Reachable(q) ==
    \/ pending[id[q]] = q
    \/ \E w \in Answerers : found[w] = q /\ call[w] = "send"
    \/ answer[q] # None

WaitInv ==
    Fresh => \A a \in Askers :
        pc[a] \in {"waiting", "request", "select"} => Reachable(Current(a))

IInv == TypeOK /\ AskInv /\ CallInv /\ ChannelInv /\ PendingInv /\ WaitInv

-----------------------------------------------------------------------------
(* Type correctness *)

LEMMA NotNext ==
  ASSUME NEW m \in Nat, NEW n \in Nat, m # n + 1, m <= n + 1
  PROVE  m <= n
  OBVIOUS

\* Questions are pairs of a run and a number.
LEMMA QuestionFacts ==
  /\ \A q \in Questions : q[1] \in Askers /\ q[2] \in Nat /\ q[2] >= 1 /\ q = <<q[1], q[2]>>
  /\ \A a \in Askers : \A n \in 1..MaxAsks : <<a, n>> \in Questions
  /\ None \notin Questions /\ None \notin Ids /\ None \notin Answerers
  /\ MaxAsks \in Nat /\ MaxAsks >= 1 /\ ModelIds \subseteq Ids
  BY InteractionAssumption DEF Questions

LEMMA InitIInv == Init => IInv
<1> SUFFICES ASSUME Init PROVE IInv
  OBVIOUS
<1> USE QuestionFacts DEF Init
<1>1. TypeOK
  <2>1. \A q \in Questions : ~(q[2] <= asks[q[1]])
    OBVIOUS
  <2>2. asks \in [Askers -> 0..MaxAsks]
    OBVIOUS
  <2> QED
    BY <2>1, <2>2, Zenon DEF TypeOK
<1>2. AskInv /\ CallInv /\ ChannelInv /\ PendingInv /\ WaitInv
  BY DEF AskInv, CallInv, ChannelInv, PendingInv, WaitInv
<1> QED
  BY <1>1, <1>2 DEF IInv

\* The steps by which a run or a call only gives itself another place.
Moves(a) == EmitCheckpoint(a) \/ EmitWaiting(a) \/ EmitRequested(a) \/ EmitRunning(a) \/ LeaveSelect(a)

LEMMA Cases ==
  ASSUME Next
  PROVE  \/ \E a \in Askers : Moves(a) \/ Register(a) \/ TakeAnswer(a) \/ Cleanup(a) \/ Stop(a)
         \/ \E a \in Askers, given \in ModelIds \cup {None} : Ask(a, given)
         \/ \E w \in Answerers : \/ EmitResponded(w) \/ DeletePending(w) \/ Send(w) \/ Abandon(w)
                                 \/ \E i \in Ids : Lookup(w, i)
         \/ Close
  BY DEF Next, Request, Answer, Moves

\* What a move changes.
LEMMA MoveFacts ==
  ASSUME TypeOK, NEW a \in Askers, Moves(a)
  PROVE  /\ UNCHANGED <<asks, id, pending, answer, got, answering, stopped, closed>>
         /\ \E there \in {"register", "request", "select", "leave", "return", "failed"} :
                pc' = [pc EXCEPT ![a] = there]
         /\ pc[a] \notin {"running", "failed"}
         /\ pc'[a] = "register" => pc[a] = "checkpoint"
         /\ pc'[a] \in {"request", "select"} => pc[a] \in {"waiting", "request"}
  BY DEF Moves, EmitCheckpoint, EmitWaiting, EmitRequested, EmitRunning, LeaveSelect, Emits, At, TypeOK

\* The question that a run begins, and its identifier.
LEMMA AskFacts ==
  ASSUME TypeOK, NEW a \in Askers, NEW given \in ModelIds \cup {None}, Ask(a, given)
  PROVE  /\ <<a, asks[a] + 1>> \in Questions /\ asks[a] + 1 \in 0..MaxAsks
         /\ \E i \in Ids : id' = [id EXCEPT ![<<a, asks[a] + 1>>] = i]
         /\ asks' = [asks EXCEPT ![a] = @ + 1]
         /\ pc[a] = "running" /\ pc' = [pc EXCEPT ![a] = "checkpoint"]
         /\ UNCHANGED <<pending, answer, got, answering, stopped, closed>>
<1> USE QuestionFacts DEF TypeOK
<1>1. asks[a] + 1 \in 1..MaxAsks /\ asks[a] + 1 \in 0..MaxAsks
  BY DEF Ask
<1>2. <<a, asks[a] + 1>> \in Questions
  BY <1>1
<1>3. IdOf(given) \subseteq Ids
  BY DEF IdOf
<1>4. \E i \in Ids : id' = [id EXCEPT ![<<a, asks[a] + 1>>] = i]
  BY <1>3 DEF Ask
<1>5. asks' = [asks EXCEPT ![a] = @ + 1] /\ pc[a] = "running" /\ pc' = [pc EXCEPT ![a] = "checkpoint"]
  BY DEF Ask, At
<1>6. UNCHANGED <<pending, answer, got, answering, stopped, closed>>
  BY DEF Ask
<1> QED
  BY <1>1, <1>2, <1>4, <1>5, <1>6, Zenon

LEMMA TypeStep == TypeOK /\ AskInv /\ CallInv /\ [Next]_vars => TypeOK'
<1> SUFFICES ASSUME TypeOK, AskInv, CallInv, [Next]_vars PROVE TypeOK'
  OBVIOUS
<1> USE QuestionFacts DEF TypeOK, answering, asking
<1>1. CASE UNCHANGED vars
  BY <1>1 DEF vars
<1>2. ASSUME NEW a \in Askers, Moves(a) PROVE TypeOK'
  BY <1>2, MoveFacts
<1>3. ASSUME NEW a \in Askers, Register(a) \/ TakeAnswer(a) \/ Cleanup(a) \/ Stop(a) PROVE TypeOK'
  <2>1. asks[a] >= 1 => Current(a) \in Questions
    BY DEF Current
  <2>2. CASE Register(a)
    <3>1. pc[a] = "register" /\ pc' \in [Askers -> {"running", "checkpoint", "register", "waiting",
                          "request", "select", "resume", "return", "leave", "failed"}]
      BY <2>2 DEF Register, At
    <3>2. Current(a) \in Questions
      BY <2>1, <3>1 DEF AskInv
    <3>3. pending' \in [Ids -> Questions \cup {None}]
      BY <2>2, <3>2 DEF Register
    <3> QED
      BY <2>2, <3>1, <3>3 DEF Register
  <2>3. CASE TakeAnswer(a)
    BY <2>1, <2>3 DEF TakeAnswer, At, AskInv
  <2>4. CASE Cleanup(a) \/ Stop(a)
    BY <2>4 DEF Cleanup, Stop, At
  <2> QED
    BY <1>3, <2>2, <2>3, <2>4
<1>4. ASSUME NEW a \in Askers, NEW given \in ModelIds \cup {None}, Ask(a, given) PROVE TypeOK'
  <2>1. PICK i \in Ids : id' = [id EXCEPT ![<<a, asks[a] + 1>>] = i]
    BY <1>4, AskFacts
  <2>2. \A q \in Questions : q[2] <= asks'[q[1]] => id'[q] \in Ids
    <3> SUFFICES ASSUME NEW q \in Questions, q[2] <= asks'[q[1]] PROVE id'[q] \in Ids
      OBVIOUS
    <3>1. CASE q = <<a, asks[a] + 1>>
      BY <2>1, <3>1
    <3>2. CASE q # <<a, asks[a] + 1>>
      <4>1. q[2] <= asks[q[1]]
        <5>1. asks' = [asks EXCEPT ![a] = @ + 1]
          BY <1>4, AskFacts
        <5>2. CASE q[1] = a
          <6>1. q[2] # asks[a] + 1 /\ q[2] <= asks[a] + 1 /\ asks[a] \in Nat /\ q[2] \in Nat
            BY <3>2, <5>1, <5>2
          <6>2. q[2] <= asks[a]
            BY <6>1, NotNext
          <6> QED
            BY <5>2, <6>2, Zenon
        <5>3. CASE q[1] # a
          BY <5>1, <5>3
        <5> QED
          BY <5>2, <5>3
      <4> QED
        BY <2>1, <3>2, <4>1
    <3> QED
      BY <3>1, <3>2
  <2>3. /\ asks[a] + 1 \in 0..MaxAsks /\ asks' = [asks EXCEPT ![a] = @ + 1]
        /\ pc' = [pc EXCEPT ![a] = "checkpoint"]
        /\ UNCHANGED <<pending, answer, got, answering, stopped, closed>>
    BY <1>4, AskFacts
  <2>4. asks' \in [Askers -> 0..MaxAsks]
    BY <2>3
  <2>5. id' \in [Questions -> Ids \cup {None}]
    BY <2>1
  <2>6. pc' \in [Askers -> {"running", "checkpoint", "register", "waiting",
                            "request", "select", "resume", "return", "leave", "failed"}]
    BY <2>3
  <2> QED
    BY <2>2, <2>3, <2>4, <2>5, <2>6
<1>5. ASSUME NEW w \in Answerers,
             \/ EmitResponded(w) \/ DeletePending(w) \/ Send(w) \/ Abandon(w)
             \/ \E i \in Ids : Lookup(w, i)
      PROVE  TypeOK'
  <2>1. CASE EmitResponded(w) \/ Abandon(w)
    BY <2>1 DEF EmitResponded, Abandon, Go, RefusedTo
  <2>2. CASE DeletePending(w)
    BY <2>2 DEF DeletePending, Go
  <2>3. CASE Send(w)
    BY <2>3 DEF Send, Sent, Go
  <2>4. ASSUME NEW i \in Ids, Lookup(w, i) PROVE TypeOK'
    BY <2>4 DEF Lookup, AfterLookup, Go
  <2> QED
    BY <1>5, <2>1, <2>2, <2>3, <2>4
<1>6. CASE Close
  BY <1>6 DEF Close
<1> QED
  BY <1>1, <1>2, <1>3, <1>4, <1>5, <1>6, Cases

-----------------------------------------------------------------------------
(* Questions and calls only go forward *)

LEMMA PastStep ==
  ASSUME TypeOK, AskInv, CallInv, [Next]_vars, NEW q \in Questions, Past(q)
  PROVE  Past(q)'
<1> USE QuestionFacts DEF Past, TypeOK, answering, asking
<1>1. CASE UNCHANGED vars
  BY <1>1 DEF vars
<1>2. ASSUME NEW a \in Askers, Moves(a) PROVE Past(q)'
  BY <1>2, MoveFacts
<1>3. ASSUME NEW a \in Askers, Register(a) \/ TakeAnswer(a) \/ Cleanup(a) \/ Stop(a) PROVE Past(q)'
  BY <1>3 DEF Register, TakeAnswer, Cleanup, Stop, At
<1>4. ASSUME NEW a \in Askers, NEW given \in ModelIds \cup {None}, Ask(a, given) PROVE Past(q)'
  <2>0. asks' = [asks EXCEPT ![a] = @ + 1] /\ pc' = [pc EXCEPT ![a] = "checkpoint"]
    BY <1>4, AskFacts
  <2>1. q[1] # a => UNCHANGED <<asks[q[1]], pc[q[1]]>>
    BY <1>4, <2>0
  <2>2. q[1] = a => asks'[a] = asks[a] + 1
    BY <1>4, <2>0
  <2> QED
    BY <2>1, <2>2
<1>5. ASSUME NEW w \in Answerers,
             \/ EmitResponded(w) \/ DeletePending(w) \/ Send(w) \/ Abandon(w)
             \/ \E i \in Ids : Lookup(w, i)
      PROVE  Past(q)'
  BY <1>5 DEF EmitResponded, DeletePending, Send, Abandon, Lookup
<1>6. CASE Close
  BY <1>6 DEF Close
<1> QED
  BY <1>1, <1>2, <1>3, <1>4, <1>5, <1>6, Cases

LEMMA AskStep == TypeOK /\ AskInv /\ [Next]_vars => AskInv'
<1> SUFFICES ASSUME TypeOK, AskInv, [Next]_vars PROVE AskInv'
  OBVIOUS
<1> USE QuestionFacts DEF AskInv, TypeOK, answering, asking
<1>1. CASE UNCHANGED vars
  BY <1>1 DEF vars
<1>2. ASSUME NEW a \in Askers, Moves(a) PROVE AskInv'
  BY <1>2, MoveFacts
<1>3. ASSUME NEW a \in Askers, Register(a) \/ TakeAnswer(a) \/ Cleanup(a) \/ Stop(a) PROVE AskInv'
  BY <1>3 DEF Register, TakeAnswer, Cleanup, Stop, At
<1>4. ASSUME NEW a \in Askers, NEW given \in ModelIds \cup {None}, Ask(a, given) PROVE AskInv'
  <2>1. PICK i \in Ids : id' = [id EXCEPT ![<<a, asks[a] + 1>>] = i]
    BY <1>4, AskFacts
  <2>2. asks' = [asks EXCEPT ![a] = @ + 1] /\ pc' = [pc EXCEPT ![a] = "checkpoint"]
    BY <1>4, AskFacts
  <2> QED
    BY <2>1, <2>2
<1>5. ASSUME NEW w \in Answerers,
             \/ EmitResponded(w) \/ DeletePending(w) \/ Send(w) \/ Abandon(w)
             \/ \E i \in Ids : Lookup(w, i)
      PROVE  AskInv'
  BY <1>5 DEF EmitResponded, DeletePending, Send, Abandon, Lookup
<1>6. CASE Close
  BY <1>6 DEF Close
<1> QED
  BY <1>1, <1>2, <1>3, <1>4, <1>5, <1>6, Cases

LEMMA CallStep == TypeOK /\ AskInv /\ CallInv /\ PendingInv /\ [Next]_vars => CallInv'
<1> SUFFICES ASSUME TypeOK, AskInv, CallInv, PendingInv, [Next]_vars PROVE CallInv'
  OBVIOUS
<1>1. ASSUME UNCHANGED <<call, found, acked>> PROVE CallInv'
  BY <1>1, PastStep DEF CallInv
<1>2. ASSUME NEW w \in Answerers,
             \/ EmitResponded(w) \/ DeletePending(w) \/ Send(w) \/ Abandon(w)
             \/ \E i \in Ids : Lookup(w, i)
      PROVE  CallInv'
  <2>1. ASSUME NEW v \in Answerers, call'[v] # "idle"
        PROVE  (found[v] \in Questions /\ Past(found[v]))'
    <3>1. CASE call[v] # "idle" /\ found'[v] = found[v]
      BY <3>1, PastStep DEF CallInv, Past
    <3>2. ASSUME NEW i \in Ids, Lookup(w, i), v = w
          PROVE  (found[v] \in Questions /\ Past(found[v]))'
      <4>1. pending[i] \in Questions /\ Past(pending[i]) /\ found'[w] = pending[i]
        BY <3>2, QuestionFacts DEF Lookup, PendingInv, TypeOK
      <4> QED
        BY <3>2, <4>1, PastStep DEF Past
    <3>3. \/ call[v] # "idle" /\ found'[v] = found[v]
          \/ \E i \in Ids : Lookup(w, i) /\ v = w
      BY <1>2, <2>1 DEF EmitResponded, DeletePending, Send, Abandon, Lookup, Go, TypeOK
    <3> QED
      BY <3>1, <3>2, <3>3
  <2>2. ASSUME NEW v \in Answerers, call'[v] \in {"delete", "send", "accepted"}
        PROVE  v \in acked'
    BY <1>2, <2>2 DEF CallInv, EmitResponded, DeletePending, Send, Abandon, Lookup, Go, RefusedTo, TypeOK
  <2> QED
    BY <2>1, <2>2 DEF CallInv
<1>3. CASE UNCHANGED vars
  BY <1>1, <1>3 DEF vars, answering
<1>4. ASSUME NEW a \in Askers, Moves(a) \/ Register(a) \/ TakeAnswer(a) \/ Cleanup(a) \/ Stop(a)
      PROVE  CallInv'
  BY <1>1, <1>4, MoveFacts DEF Register, TakeAnswer, Cleanup, Stop, answering
<1>5. ASSUME NEW a \in Askers, NEW given \in ModelIds \cup {None}, Ask(a, given) PROVE CallInv'
  BY <1>1, <1>5 DEF Ask, answering
<1>6. CASE Close
  BY <1>1, <1>6 DEF Close, answering
<1> QED
  BY <1>2, <1>3, <1>4, <1>5, <1>6, Cases

\* An answer stays with the question that its call has found.
LEMMA ChannelStep == IInv /\ [Next]_vars => ChannelInv'
<1> SUFFICES ASSUME IInv, [Next]_vars PROVE ChannelInv'
  OBVIOUS
<1> USE QuestionFacts DEF IInv, TypeOK, ChannelInv, answering, asking
<1>1. CASE UNCHANGED vars
  BY <1>1 DEF vars
<1>2. ASSUME NEW a \in Askers, Moves(a) \/ Register(a) \/ Cleanup(a) \/ Stop(a) PROVE ChannelInv'
  BY <1>2, MoveFacts DEF Register, Cleanup, Stop
<1>3. ASSUME NEW a \in Askers, TakeAnswer(a) PROVE ChannelInv'
  BY <1>3 DEF TakeAnswer, Current
<1>4. ASSUME NEW a \in Askers, NEW given \in ModelIds \cup {None}, Ask(a, given) PROVE ChannelInv'
  BY <1>4 DEF Ask
<1>5. ASSUME NEW w \in Answerers, EmitResponded(w) \/ DeletePending(w) \/ Abandon(w) PROVE ChannelInv'
  BY <1>5 DEF EmitResponded, DeletePending, Abandon, Go
<1>6. ASSUME NEW w \in Answerers, Send(w) PROVE ChannelInv'
  BY <1>6 DEF Send, Sent, Go
<1>7. ASSUME NEW w \in Answerers, NEW i \in Ids, Lookup(w, i) PROVE ChannelInv'
  BY <1>7 DEF Lookup, Go
<1>8. CASE Close
  BY <1>8 DEF Close
<1> QED
  BY <1>1, <1>2, <1>3, <1>4, <1>5, <1>6, <1>7, <1>8, Cases

\* An identifier stays with its question.
LEMMA IdStep ==
  ASSUME TypeOK, AskInv, [Next]_vars, NEW q \in Questions, id[q] # None
  PROVE  id'[q] = id[q]
<1> USE QuestionFacts DEF TypeOK, answering, asking
<1>1. CASE UNCHANGED vars
  BY <1>1 DEF vars
<1>2. ASSUME NEW a \in Askers, Moves(a) \/ Register(a) \/ TakeAnswer(a) \/ Cleanup(a) \/ Stop(a)
      PROVE  id' = id
  BY <1>2, MoveFacts DEF Register, TakeAnswer, Cleanup, Stop
<1>3. ASSUME NEW a \in Askers, NEW given \in ModelIds \cup {None}, Ask(a, given) PROVE id'[q] = id[q]
  <2>1. q # <<a, asks[a] + 1>>
    <3>1. id[<<a, asks[a] + 1>>] = None
      BY <1>3, AskFacts DEF AskInv
    <3> QED
      BY <3>1
  <2>2. PICK i \in Ids : id' = [id EXCEPT ![<<a, asks[a] + 1>>] = i]
    BY <1>3, AskFacts
  <2> QED
    BY <2>1, <2>2
<1>4. ASSUME NEW w \in Answerers,
             \/ EmitResponded(w) \/ DeletePending(w) \/ Send(w) \/ Abandon(w)
             \/ \E i \in Ids : Lookup(w, i)
      PROVE  id' = id
  BY <1>4 DEF EmitResponded, DeletePending, Send, Abandon, Lookup
<1>5. CASE Close
  BY <1>5 DEF Close
<1> QED
  BY <1>1, <1>2, <1>3, <1>4, <1>5, Cases

\* Names that are taken twice, and answers given up, are not taken back.
LEMMA FreshStep == IInv /\ [Next]_vars /\ Fresh' => Fresh
<1> SUFFICES ASSUME IInv, [Next]_vars, Fresh' PROVE Fresh
  OBVIOUS
<1>1. ASSUME NEW q1 \in Questions, NEW q2 \in Questions, id[q1] = id[q2], id[q1] # None
      PROVE  q1 = q2
  <2>1. id'[q1] = id[q1] /\ id'[q2] = id[q2]
    BY <1>1, IdStep DEF IInv
  <2> QED
    BY <1>1, <2>1 DEF Fresh
<1>2. ASSUME NEW w \in Answerers, call[w] = "error"
      PROVE  w \notin acked
  <2>1. call'[w] = "error" /\ acked \subseteq acked'
    <3>1. ASSUME NEW v \in Answerers,
             \/ EmitResponded(v) \/ DeletePending(v) \/ Send(v) \/ Abandon(v)
             \/ \E i \in Ids : Lookup(v, i)
          PROVE  call'[w] = "error" /\ acked \subseteq acked'
      BY <1>2, <3>1 DEF EmitResponded, DeletePending, Send, Abandon, Lookup, Go, IInv, TypeOK
    <3>2. CASE UNCHANGED vars \/ Close
      BY <1>2, <3>2 DEF vars, Close, answering
    <3>3. ASSUME NEW a \in Askers, Moves(a) \/ Register(a) \/ TakeAnswer(a) \/ Cleanup(a) \/ Stop(a)
          PROVE  UNCHANGED answering
      BY <3>3, MoveFacts DEF Register, TakeAnswer, Cleanup, Stop, IInv, answering
    <3>4. ASSUME NEW a \in Askers, NEW given \in ModelIds \cup {None}, Ask(a, given)
          PROVE  UNCHANGED answering
      BY <3>4 DEF Ask, answering
    <3> QED
      BY <1>2, <3>1, <3>2, <3>3, <3>4, Cases DEF answering
  <2> QED
    BY <2>1 DEF Fresh
<1> QED
  BY <1>1, <1>2 DEF Fresh

LEMMA PendingStep == IInv /\ [Next]_vars => PendingInv'
<1> SUFFICES ASSUME IInv, [Next]_vars, NEW i \in Ids, pending'[i] # None
             PROVE  id'[pending'[i]] = i /\ (Past(pending[i]))'
  BY DEF PendingInv
<1> USE QuestionFacts
<1>1. CASE pending'[i] = pending[i]
  <2>1. pending[i] \in Questions /\ id[pending[i]] = i /\ Past(pending[i])
    BY <1>1 DEF IInv, TypeOK, PendingInv
  <2> QED
    BY <1>1, <2>1, IdStep, PastStep DEF IInv, Past
<1>2. ASSUME NEW a \in Askers, Register(a), pending'[i] # pending[i]
      PROVE  id'[pending'[i]] = i /\ (Past(pending[i]))'
  <2>1. /\ pc[a] = "register" /\ pc' = [pc EXCEPT ![a] = "waiting"]
        /\ pending' = [pending EXCEPT ![id[Current(a)]] = Current(a)]
        /\ UNCHANGED <<id, asks>>
    BY <1>2 DEF Register, At
  <2>2. id[Current(a)] = i /\ pending'[i] = Current(a)
    BY <1>2, <2>1 DEF IInv, TypeOK
  <2>3. pc'[a] = "waiting" /\ asks[a] \in Nat
    BY <2>1 DEF IInv, TypeOK
  <2> QED
    BY <2>1, <2>2, <2>3 DEF Past, Current
<1>3. \/ pending'[i] = pending[i]
      \/ \E a \in Askers : Register(a) /\ pending'[i] # pending[i]
  <2> USE DEF IInv, TypeOK
  <2>1. CASE UNCHANGED vars \/ Close
    BY <2>1 DEF vars, Close
  <2>2. ASSUME NEW a \in Askers, Moves(a) \/ TakeAnswer(a) \/ Stop(a) PROVE pending'[i] = pending[i]
    BY <2>2, MoveFacts DEF TakeAnswer, Stop
  <2>3. ASSUME NEW a \in Askers, Cleanup(a) PROVE pending'[i] = pending[i]
    BY <2>3 DEF Cleanup
  <2>4. ASSUME NEW a \in Askers, NEW given \in ModelIds \cup {None}, Ask(a, given)
        PROVE  pending'[i] = pending[i]
    BY <2>4 DEF Ask
  <2>5. ASSUME NEW w \in Answerers, EmitResponded(w) \/ Send(w) \/ Abandon(w)
        PROVE  pending'[i] = pending[i]
    BY <2>5 DEF EmitResponded, Send, Abandon
  <2>6. ASSUME NEW w \in Answerers, DeletePending(w) PROVE pending'[i] = pending[i]
    BY <2>6 DEF DeletePending
  <2>7. ASSUME NEW w \in Answerers, NEW j \in Ids, Lookup(w, j) PROVE pending'[i] = pending[i]
    BY <2>7 DEF Lookup, AfterLookup
  <2> QED
    BY <2>1, <2>2, <2>3, <2>4, <2>5, <2>6, <2>7, Cases
<1> QED
  BY <1>1, <1>2, <1>3

-----------------------------------------------------------------------------
(* A question that waits can be reached *)

LEMMA WaitStep == IInv /\ [Next]_vars => WaitInv'
<1> SUFFICES ASSUME IInv, [Next]_vars, Fresh', NEW a \in Askers,
                    pc'[a] \in {"waiting", "request", "select"}
             PROVE  Reachable(Current(a))'
  BY DEF WaitInv
<1> DEFINE q == Current(a)
<1> USE QuestionFacts
<1>0. TypeOK /\ AskInv /\ Fresh /\ TypeOK'
  BY FreshStep, TypeStep DEF IInv
<1>1. ASSUME pc[a] \in {"waiting", "request", "select"}, asks'[a] = asks[a], NEW b \in Askers,
             b # a, Cleanup(b) \/ Register(b) \/ TakeAnswer(b)
      PROVE  Reachable(q)'
  <2>1. /\ q \in Questions /\ id[q] \in Ids /\ q' = q
        /\ Reachable(q) /\ UNCHANGED <<id, call, found>>
    BY <1>0, <1>1 DEF IInv, WaitInv, AskInv, TypeOK, Current, Cleanup, Register, TakeAnswer, answering
  <2>2. pc[b] \notin {"running", "failed"} /\ Current(b) # q
    BY <1>0, <1>1 DEF Cleanup, Register, TakeAnswer, At, Current
  <2>3. Current(b) \in Questions /\ id[Current(b)] \in Ids
    BY <1>0, <2>2 DEF AskInv, TypeOK, Current
  <2>4. id[Current(b)] # id[q]
    BY <1>0, <2>1, <2>2, <2>3 DEF Fresh
  <2>5. answer'[q] = answer[q] /\ pending'[id[q]] = pending[id[q]]
    BY <1>0, <1>1, <2>1, <2>2, <2>3, <2>4 DEF Cleanup, Register, TakeAnswer, TypeOK
  <2> QED
    BY <2>1, <2>5 DEF Reachable
<1>2. ASSUME Register(a) PROVE Reachable(q)'
  <2>1. /\ pending' = [pending EXCEPT ![id[q]] = q]
        /\ pc[a] = "register" /\ q' = q /\ id' = id
    BY <1>0, <1>2 DEF Register, At, Current, TypeOK
  <2>2. id[q] \in Ids
    BY <1>0, <2>1 DEF AskInv, TypeOK, Current
  <2> QED
    BY <1>0, <2>1, <2>2 DEF Reachable, TypeOK
<1>3. ASSUME pc[a] \in {"waiting", "request", "select"}, UNCHANGED <<asks, id, pending, answer, call, found>>
      PROVE  Reachable(q)'
  BY <1>0, <1>3 DEF IInv, WaitInv, Reachable, Current
<1>4. ASSUME NEW b \in Askers, NEW given \in ModelIds \cup {None}, Ask(b, given) PROVE Reachable(q)'
  <2>1. b # a /\ pc'[a] = pc[a] /\ asks'[a] = asks[a] /\ UNCHANGED <<pending, answer, call, found>>
    <3>1. /\ asks' = [asks EXCEPT ![b] = @ + 1] /\ pc' = [pc EXCEPT ![b] = "checkpoint"]
          /\ UNCHANGED <<pending, answer, answering>>
      BY <1>0, <1>4, AskFacts
    <3> QED
      BY <1>0, <3>1 DEF TypeOK, answering
  <2>2. q \in Questions /\ id[q] \in Ids /\ q' = q /\ Reachable(q)
    <3>1. pc[a] \in {"waiting", "request", "select"} /\ asks[a] >= 1
      BY <1>0, <2>1 DEF AskInv
    <3>2. q \in Questions /\ q' = q
      BY <1>0, <2>1, <3>1 DEF TypeOK, Current
    <3>3. id[q] \in Ids
      BY <1>0, <3>2 DEF TypeOK, Current
    <3>4. Reachable(q)
      BY <1>0, <3>1 DEF IInv, WaitInv
    <3> QED
      BY <3>2, <3>3, <3>4
  <2>3. id'[q] = id[q]
    BY <1>0, <2>2, IdStep
  <2> QED
    BY <2>1, <2>2, <2>3 DEF Reachable
<1>5. ASSUME NEW w \in Answerers, 
             \/ EmitResponded(w) \/ DeletePending(w) \/ Send(w) \/ Abandon(w)
             \/ \E i \in Ids : Lookup(w, i)
      PROVE  Reachable(q)'
  <2>1. UNCHANGED <<pc, asks, id>>
    BY <1>5 DEF EmitResponded, DeletePending, Send, Abandon, Lookup, asking
  <2>2. q \in Questions /\ id[q] \in Ids /\ q' = q /\ Reachable(q)
    <3>1. pc[a] \in {"waiting", "request", "select"} /\ asks[a] >= 1
      BY <1>0, <2>1 DEF AskInv
    <3>2. q \in Questions /\ q' = q
      BY <1>0, <2>1, <3>1 DEF TypeOK, Current
    <3>3. id[q] \in Ids
      BY <1>0, <3>2 DEF TypeOK, Current
    <3>4. Reachable(q)
      BY <1>0, <3>1 DEF IInv, WaitInv
    <3> QED
      BY <3>2, <3>3, <3>4
  <2>3. ASSUME EmitResponded(w) \/ \E i \in Ids : Lookup(w, i) PROVE Reachable(q)'
    <3>1. /\ call[w] # "send" /\ UNCHANGED <<pending, answer>>
          /\ \A v \in Answerers : v # w => call'[v] = call[v] /\ found'[v] = found[v]
      BY <1>0, <2>3 DEF EmitResponded, Lookup, AfterLookup, Go, TypeOK
    <3> QED
      BY <2>1, <2>2, <3>1 DEF Reachable
  <2>4. ASSUME DeletePending(w) PROVE Reachable(q)'
    <3>1. /\ call[w] = "delete" /\ call'[w] = "send" /\ UNCHANGED <<answer, found>>
          /\ \A v \in Answerers : v # w => call'[v] = call[v]
          /\ pending' = [pending EXCEPT ![id[found[w]]] = None]
      BY <1>0, <2>4 DEF DeletePending, Go, TypeOK
    <3>2. CASE found[w] = q
      BY <2>1, <2>2, <3>1, <3>2 DEF Reachable
    <3>3. CASE found[w] # q
      <4>1. found[w] \in Questions
        BY <3>1 DEF IInv, CallInv
      <4>2. id[found[w]] # id[q]
        BY <1>0, <2>2, <3>3, <4>1 DEF Fresh
      <4>3. pending'[id[q]] = pending[id[q]]
        BY <1>0, <2>2, <3>1, <4>2 DEF TypeOK
      <4>4. \A v \in Answerers : call[v] = "send" => call'[v] = "send"
        BY <3>1
      <4> QED
        BY <2>1, <2>2, <3>1, <4>3, <4>4 DEF Reachable
    <3> QED
      BY <3>2, <3>3
  <2>5. ASSUME Send(w) PROVE Reachable(q)'
    <3>1. /\ answer' = [answer EXCEPT ![found[w]] = w] /\ UNCHANGED <<pending, found>>
          /\ \A v \in Answerers : v # w => call'[v] = call[v]
      BY <1>0, <2>5 DEF Send, Sent, Go, TypeOK
    <3>2. answer[q] # None \/ found[w] = q => answer'[q] # None
      BY <1>0, <2>2, <3>1 DEF TypeOK
    <3> QED
      BY <2>1, <2>2, <3>1, <3>2 DEF Reachable
  <2>6. ASSUME Abandon(w) PROVE FALSE
    BY <1>0, <2>6 DEF Abandon, Go, IInv, CallInv, TypeOK, Fresh
  <2> QED
    BY <1>5, <2>3, <2>4, <2>5, <2>6
<1>6. ASSUME UNCHANGED vars \/ Close PROVE Reachable(q)'
  BY <1>3, <1>6 DEF vars, Close, asking, answering
<1>7. ASSUME NEW b \in Askers, Moves(b) \/ Stop(b) PROVE Reachable(q)'
  <2>1. pc[a] \in {"waiting", "request", "select"}
    BY <1>0, <1>7, MoveFacts DEF Stop, asking, TypeOK
  <2> QED
    BY <1>0, <1>3, <1>7, <2>1, MoveFacts DEF Stop, asking, answering
<1>8. ASSUME NEW b \in Askers, Register(b) \/ TakeAnswer(b) \/ Cleanup(b) PROVE Reachable(q)'
  <2>1. CASE b = a
    <3>1. Register(a)
      BY <1>0, <1>8, <2>1 DEF TakeAnswer, Cleanup, At, TypeOK
    <3> QED
      BY <1>2, <3>1
  <2>2. CASE b # a
    <3>1. pc'[a] = pc[a] /\ asks'[a] = asks[a]
      BY <1>0, <1>8, <2>2 DEF Register, TakeAnswer, Cleanup, At, TypeOK
    <3> QED
      BY <1>1, <1>8, <2>2, <3>1
  <2> QED
    BY <2>1, <2>2
<1> QED
  BY <1>4, <1>5, <1>6, <1>7, <1>8, Cases

-----------------------------------------------------------------------------

LEMMA Inductive == Spec => []IInv
<1>1. IInv /\ [Next]_vars => IInv'
  BY TypeStep, AskStep, CallStep, ChannelStep, PendingStep, WaitStep DEF IInv
<1> QED
  BY <1>1, InitIInv, PTL DEF Spec

\* The state of the questions has its type.
THEOREM TypeCorrect == Spec => []TypeOK
  BY Inductive, PTL DEF IInv

\* Whatever questions, answers, refusals and cancellations interleave, an answer
\* is that of a call that found this question and was acknowledged.
THEOREM Own == Spec => []AnswerIsOwn
<1>1. IInv => AnswerIsOwn
  BY DEF IInv, ChannelInv, CallInv, AnswerIsOwn
<1> QED
  BY <1>1, Inductive, PTL

\* A question that waits for its answer is in Task.pending, unless an identifier
\* was used twice or an acknowledged answer was given up.
THEOREM Answerable == Spec => []WaitingIsAnswerable
<1>1. IInv => WaitingIsAnswerable
  <2> SUFFICES ASSUME IInv, Fresh, NEW q \in Questions, Unanswered(q)
               PROVE  pending[id[q]] = q
    BY DEF WaitingIsAnswerable
  <2>1. q[1] \in Askers /\ pc[q[1]] = "select" /\ q = Current(q[1])
    BY QuestionFacts DEF Unanswered
  <2>2. Reachable(q)
    BY <2>1 DEF IInv, WaitInv
  <2> QED
    BY <2>2 DEF Reachable, Unanswered
<1> QED
  BY <1>1, Inductive, PTL
=============================================================================
