------------------------- MODULE ConversationProofs -------------------------
(***************************************************************************)
(* Proofs about module Conversation, for any number of turns, messages and *)
(* crashes.  One run at a time has the Memory, and no message of a Task is *)
(* lost that no summary covers: IInv.  Calls and results are paired in     *)
(* each request: AllInv, which says how calls and results stand in the     *)
(* Memory at every step (Paired), what a run has still in hand (RunOf),    *)
(* and that the stored checkpoint will be paired once it is restored,      *)
(* when other turns count as broken than now (CheckpointInv).  Each step   *)
(* of a run is shown to be one of Moves, which keep these invariants.      *)
(***************************************************************************)
EXTENDS Conversation, SequenceTheorems, NaturalsInduction, FiniteSetTheorems, TLAPS

\* The positions of a run that has the Memory.
Active == {"loop", "summarize", "request", "model", "tools", "tool", "asked"}

\* It holds the gate.
GateInv == \A t \in Turns : pc[t] \in Active => gate = t

Places == {"idle", "waiting", "restored", "completed", "failed"} \cup Active

\* Where the runs may stand; one at a call has it in hand.
PcInv ==
    /\ pc \in [Turns -> Places] /\ DOMAIN todo = Turns
    /\ \A t \in Turns : pc[t] \in {"tool", "asked"} => todo[t] # <<>>

\* A sequence, whatever its elements.
IsSeq(s) == Len(s) \in Nat /\ s = [i \in 1..Len(s) |-> s[i]]

\* In Task mode the Memory and the calls in hand are sequences.
SeqInv == mode = "task" => IsSeq(messages) /\ \A t \in Turns : IsSeq(todo[t])

StoredInv ==
    stored # None => /\ stored.turn \in Turns /\ IsSeq(stored.messages)
                     /\ stored.pending \in {"none", "asked", "tool", "final"}

IInv == PcInv /\ GateInv /\ SeqInv /\ StoredInv /\ NothingLost

-----------------------------------------------------------------------------
(* Sequences *)

LEMMA InSeq ==
  ASSUME NEW s, IsSeq(s), NEW S, \A i \in 1..Len(s) : s[i] \in S
  PROVE  s \in Seq(S)
<1>1. [i \in 1..Len(s) |-> s[i]] \in [1..Len(s) -> S]
  OBVIOUS
<1>2. s = [i \in 1..Len(s) |-> s[i]] /\ Len(s) \in Nat
  BY Zenon DEF IsSeq
<1>3. s \in [1..Len(s) -> S]
  BY <1>1, <1>2, Zenon
<1>4. s \in UNION {[1..n -> S] : n \in Nat}
  <2>1. [1..Len(s) -> S] \in {[1..n -> S] : n \in Nat}
    BY <1>2
  <2> QED
    BY <1>3, <2>1
<1>5. Seq(S) = UNION {[1..n -> S] : n \in Nat}
  BY SeqDef
<1> QED
  BY <1>4, <1>5, Zenon

LEMMA IsSeqIn ==
  ASSUME NEW S, NEW s \in Seq(S)
  PROVE  IsSeq(s)
  BY DEF IsSeq

LEMMA Joined ==
  ASSUME NEW a, NEW b, IsSeq(a), IsSeq(b)
  PROVE  IsSeq(a \o b)
<1> DEFINE S == {a[i] : i \in 1..Len(a)} \cup {b[i] : i \in 1..Len(b)}
<1>1. a \in Seq(S) /\ b \in Seq(S)
  <2>1. (\A i \in 1..Len(a) : a[i] \in S) /\ (\A i \in 1..Len(b) : b[i] \in S)
    OBVIOUS
  <2> HIDE DEF S
  <2> QED
    BY <2>1, InSeq
<1> HIDE DEF S
<1>2. a \o b \in Seq(S)
  BY <1>1
<1> QED
  BY <1>2, IsSeqIn

LEMMA Rest ==
  ASSUME NEW s, IsSeq(s), s # <<>>
  PROVE  IsSeq(Tail(s))
<1> DEFINE S == {s[i] : i \in 1..Len(s)}
<1>1. s \in Seq(S)
  <2>1. \A i \in 1..Len(s) : s[i] \in S
    OBVIOUS
  <2> HIDE DEF S
  <2> QED
    BY <2>1, InSeq
<1> HIDE DEF S
<1>2. Tail(s) \in Seq(S)
  BY <1>1
<1> QED
  BY <1>2, IsSeqIn

LEMMA Short ==
  /\ IsSeq(<<>>)
  /\ \A x : IsSeq(<<x>>)
  /\ \A x, y : IsSeq(<<x, y>>)
<1>1. IsSeq(<<>>)
  BY DEF IsSeq
<1>2. ASSUME NEW x PROVE IsSeq(<<x>>)
  BY DEF IsSeq
<1>3. ASSUME NEW x, NEW y PROVE IsSeq(<<x, y>>)
  BY DEF IsSeq
<1> QED
  BY <1>1, <1>2, <1>3

LEMMA IsSeqOfRange ==
  ASSUME NEW n \in Nat, NEW f, DOMAIN f = 1..n, f = [i \in 1..n |-> f[i]]
  PROVE  IsSeq(f)
<1> DEFINE S == {f[i] : i \in 1..n}
<1>1. f \in [1..n -> S]
  <2>1. [i \in 1..n |-> f[i]] \in [1..n -> S]
    OBVIOUS
  <2> QED
    BY <2>1, Zenon
<1> HIDE DEF S
<1>2. f \in Seq(S)
  BY <1>1
<1> QED
  BY <1>2, IsSeqIn

\* What is left of the Memory after a summary is short.
LEMMA RecentIsShort ==
  ASSUME NEW s, IsSeq(s)
  PROVE  IsSeq(Recent(s)) /\ Len(Recent(s)) <= KeepRecent
<1> DEFINE S == {s[i] : i \in 1..Len(s)}
<1> DEFINE m == (IF Len(s) > KeepRecent THEN Len(s) - KeepRecent ELSE 0) + 1
<1>0. KeepRecent \in Nat /\ Len(s) \in Nat
  BY ConversationAssumption DEF Normalized, IsSeq
<1>1. s \in Seq(S)
  <2>1. \A i \in 1..Len(s) : s[i] \in S
    OBVIOUS
  <2> HIDE DEF S
  <2> QED
    BY <2>1, InSeq
<1>2. m \in Nat /\ m >= 1 /\ m <= Len(s) + 1 /\ Len(s) - m + 1 <= KeepRecent
  BY <1>0
<1> HIDE DEF S, m
<1>3. SubSeq(s, m, Len(s)) \in Seq(S) /\ Len(SubSeq(s, m, Len(s))) <= KeepRecent
  BY <1>0, <1>1, <1>2, SubSeqProperties
<1>4. Recent(s) = SubSeq(s, m, Len(s))
  BY DEF Recent, m
<1> QED
  BY <1>3, <1>4, IsSeqIn

-----------------------------------------------------------------------------
(* The gate *)

\* What a step of one run does to the gate.
LEMMA OneAtATime ==
  ASSUME PcInv, GateInv, NEW t \in Turns, Start(t) \/ Run(t) \/ CallReturns(t) \/ Cancel(t) \/ AnswerRestored(t)
  PROVE  /\ PcInv' /\ GateInv'
         /\ \A u \in Turns \ {t} : pc'[u] = pc[u]
<1> USE DEF PcInv, Places, Active, Goes, Ends, Released
<1> DEFINE Moves == \/ /\ pc[t] \notin Active /\ gate = None /\ gate' = t
                    \/ /\ pc[t] \in Active /\ pc'[t] \notin Active /\ gate' = None
                    \/ /\ gate' = gate /\ (pc'[t] \in Active => pc[t] \in Active)
                    \/ /\ pc[t] \notin Active /\ pc'[t] \notin Active /\ gate = None /\ gate' = None
<1>1. /\ PcInv' /\ Moves /\ \A u \in Turns \ {t} : pc'[u] = pc[u]
  <2>1. CASE Start(t) \/ CancelledWhileWaiting(t) \/ Cancel(t) \/ AnswerRestored(t)
    BY <2>1 DEF Start, CancelledWhileWaiting, Cancel, AnswerRestored, run
  <2>2. CASE Acquire(t)
    BY <2>2 DEF Acquire
  <2>3. CASE Loop(t) \/ LoopsExceeded(t)
    BY <2>3 DEF Loop, LoopsExceeded
  <2>4. CASE Summarize(t) \/ SummaryFails(t)
    BY <2>4 DEF Summarize, SummaryFails
  <2>5. CASE Ask(t) \/ ModelFails(t) \/ Answer(t) \/ CutResponse(t)
    BY <2>5 DEF Ask, ModelFails, Answer, CutResponse
  <2>6. CASE \E n \in 1..MaxCalls : WantsTools(t, n)
    BY <2>6 DEF WantsTools
  <2>7. CASE (\E kind \in {"tool", "asked"} : Call(t, kind)) \/ CallsDone(t)
    BY <2>7 DEF Call, CallsDone
  <2>8. CASE CallReturns(t)
    BY <2>8 DEF CallReturns
  <2> QED
    BY <2>1, <2>2, <2>3, <2>4, <2>5, <2>6, <2>7, <2>8 DEF Run
<1>2. GateInv'
  <2> SUFFICES ASSUME NEW u \in Turns, pc'[u] \in Active PROVE gate' = u
    BY DEF GateInv
  <2>1. CASE u = t
    BY <1>1, <2>1 DEF GateInv
  <2>2. CASE u # t
    BY <1>1, <2>2, ConversationAssumption DEF GateInv
  <2> QED
    BY <2>1, <2>2
<1> QED
  BY <1>1, <1>2

LEMMA CrashStep ==
  ASSUME PcInv, StoredInv, Crash
  PROVE  PcInv' /\ GateInv' /\ \A u \in Turns : pc'[u] \notin Active
<1> DEFINE t == stored.turn
<1>1. stored # None /\ t \in Turns /\ stored.pending \in {"none", "asked", "tool", "final"}
  BY DEF Crash, StoredInv
<1>2. Restored(stored.pending) \in {"waiting", "restored", "completed", "failed"}
  BY <1>1 DEF Restored
<1>3. pc' = [u \in Turns |-> IF u = t THEN Restored(stored.pending)
                            ELSE IF pc[u] = "idle" \/ pc[u] \in Ended THEN pc[u] ELSE "failed"]
  BY DEF Crash
<1>4. DOMAIN todo' = Turns
  BY DEF Crash
<1>5. \A u \in Turns : pc'[u] \in Places \ Active
  BY <1>2, <1>3 DEF PcInv, Places, Active, Ended
<1> QED
  BY <1>3, <1>4, <1>5 DEF PcInv, GateInv, Active

-----------------------------------------------------------------------------
(* The Memory of a Task *)

LEMMA Remembers ==
  ASSUME mode = "task", IsSeq(messages), NEW news, IsSeq(news), Remember(news)
  PROVE  IsSeq(messages') /\ lost' = lost
<1>1. messages' = messages \o news
  BY DEF Remember
<1> QED
  BY <1>1, Joined DEF Remember

\* A checkpoint that is stored, or the one before.
LEMMA Stored ==
  ASSUME NEW t \in Turns, NEW pending \in {"none", "asked", "tool", "final"}, StoredInv, IsSeq(messages'),
         Stores(t, pending) \/ MayStore(t, pending) \/ UNCHANGED stored
  PROVE  StoredInv'
<1>1. stored' = stored \/ stored' = Saved(t, messages', pending)
  BY DEF Stores, MayStore
<1>2. CASE stored' = Saved(t, messages', pending)
  BY <1>2 DEF StoredInv, Saved
<1> QED
  BY <1>1, <1>2 DEF StoredInv

\* What a step of run t does to the Memory of a Task.
Effect(t) ==
    /\ SeqInv' /\ StoredInv' /\ lost' = lost
    /\ \/ messages' = messages /\ (pc'[t] = "request" => pc[t] = "request" \/ Len(messages) < HardLimit)
       \/ (pc[t] \in Active \/ gate = None) /\ pc'[t] # "request"
       \/ pc[t] \in Active /\ Len(messages') < HardLimit

LEMMA TaskStep ==
  ASSUME mode = "task", PcInv, SeqInv, StoredInv, NEW t \in Turns,
         Start(t) \/ Run(t) \/ CallReturns(t) \/ Cancel(t) \/ AnswerRestored(t)
  PROVE  Effect(t) /\ mode' = mode
<1> USE DEF PcInv, Places, Active, Goes, Ends, memory, run
<1>0. /\ IsSeq(messages) /\ \A u \in Turns : IsSeq(todo[u])
      /\ KeepRecent < MaxMessages /\ MaxMessages < HardLimit /\ Len(messages) \in Nat
      /\ KeepRecent \in Nat /\ MaxMessages \in Nat /\ HardLimit \in Nat
  BY ConversationAssumption DEF SeqInv, Normalized, IsSeq
<1>m. mode' = mode
  BY DEF Start, Run, Acquire, CancelledWhileWaiting, Loop, LoopsExceeded, Summarize, SummaryFails, Ask, ModelFails,
         Answer, CutResponse, WantsTools, Call, CallsDone, CallReturns, Cancel, AnswerRestored
\* It is enough that the new Memory, its calls and its checkpoint are sequences.
<1>q. ASSUME IsSeq(messages'), todo' = todo \/ (\E q : IsSeq(q) /\ todo' = [todo EXCEPT ![t] = q])
      PROVE  SeqInv'
  BY <1>0, <1>m, <1>q DEF SeqInv
<1>1. CASE Start(t) \/ CancelledWhileWaiting(t) \/ Cancel(t) \/ AnswerRestored(t)
  <2>1. todo' = todo \/ todo' = [todo EXCEPT ![t] = <<>>]
    BY <1>1 DEF Start, CancelledWhileWaiting, Cancel, AnswerRestored
  <2>2. SeqInv'
    BY <1>0, <1>1, <1>q, <2>1, Short DEF Start, CancelledWhileWaiting, Cancel, AnswerRestored
  <2> QED
    BY <1>1, <2>2 DEF Start, CancelledWhileWaiting, Cancel, AnswerRestored, Effect, StoredInv
<1>2. CASE Acquire(t)
  <2>1. IsSeq(First(t))
    <3>1. IsSeq([i \in DOMAIN todo[t] |-> Said("tool", t, <<todo[t][i]>>)])
      <4>1. DOMAIN todo[t] = 1..Len(todo[t]) /\ Len(todo[t]) \in Nat
        BY <1>0 DEF IsSeq
      <4> QED
        BY <4>1, IsSeqOfRange
    <3> QED
      BY <3>1, Short DEF First
  <2>2. IsSeq(messages') /\ lost' = lost
    BY <1>0, <1>2, <2>1, Remembers DEF Acquire
  <2>3. SeqInv'
    BY <1>2, <1>q, <2>2, Short DEF Acquire
  <2>4. StoredInv'
    BY <1>2, <2>2, Stored DEF Acquire
  <2> QED
    BY <1>2, <2>2, <2>3, <2>4 DEF Acquire, Effect
<1>3. CASE Loop(t) \/ LoopsExceeded(t)
  <2>1. SeqInv'
    BY <1>0, <1>3, <1>q, Short DEF Loop, LoopsExceeded
  <2> QED
    BY <1>0, <1>3, <2>1 DEF Loop, LoopsExceeded, Effect, StoredInv
<1>4. CASE Summarize(t)
  <2>1. IsSeq(messages') /\ Len(messages') <= KeepRecent /\ Len(messages') \in Nat
    BY <1>0, <1>4, RecentIsShort DEF Summarize, IsSeq
  <2>2. SeqInv'
    BY <1>4, <1>q, <2>1, Short DEF Summarize
  <2>3. StoredInv'
    BY <1>4, <2>1, Stored DEF Summarize
  <2> QED
    BY <1>0, <1>4, <2>1, <2>2, <2>3 DEF Summarize, Effect
<1>5. CASE SummaryFails(t)
  <2>1. SeqInv'
    BY <1>0, <1>5, <1>q, Short DEF SummaryFails, KeepsAll
  <2> QED
    BY <1>0, <1>5, <2>1 DEF SummaryFails, KeepsAll, Effect, StoredInv
<1>6. CASE Ask(t) \/ ModelFails(t) \/ CallsDone(t)
  <2>1. SeqInv'
    BY <1>0, <1>6, <1>q, Short DEF Ask, ModelFails, CallsDone
  <2> QED
    BY <1>0, <1>6, <2>1 DEF Ask, ModelFails, CallsDone, Effect, StoredInv
<1>7. CASE Answer(t) \/ CutResponse(t)
  <2>1. IsSeq(messages') /\ lost' = lost
    BY <1>0, <1>7, Remembers, Short DEF Answer, CutResponse
  <2>2. SeqInv'
    BY <1>7, <1>q, <2>1, Short DEF Answer, CutResponse
  <2>3. StoredInv'
    BY <1>7, <2>1, Stored DEF Answer, CutResponse
  <2> QED
    BY <1>7, <2>1, <2>2, <2>3 DEF Answer, CutResponse, Effect
<1>8. CASE \E n \in 1..MaxCalls : WantsTools(t, n)
  <2>1. PICK n \in 1..MaxCalls : WantsTools(t, n)
    BY <1>8
  <2> DEFINE calls == [i \in 1..n |-> <<t, loopCount[t], i>>]
  <2>2. IsSeq(calls)
    BY IsSeqOfRange
  <2>3. /\ pc[t] = "model" /\ pc'[t] = "tools" /\ Remember(<<Said("assistant", t, calls)>>)
        /\ todo' = [todo EXCEPT ![t] = calls] /\ stored' = stored
    BY <2>1 DEF WantsTools
  <2> HIDE DEF calls
  <2>4. IsSeq(messages') /\ lost' = lost
    BY <1>0, <2>3, Remembers, Short
  <2>5. SeqInv'
    BY <1>q, <2>2, <2>3, <2>4
  <2>6. StoredInv'
    BY <2>3 DEF StoredInv
  <2>7. pc[t] \in Active /\ pc'[t] # "request"
    BY <2>3
  <2> QED
    BY <1>m, <2>4, <2>5, <2>6, <2>7 DEF Effect
<1>9. CASE \E kind \in {"tool", "asked"} : Call(t, kind)
  <2>1. PICK kind \in {"tool", "asked"} : Call(t, kind)
    BY <1>9
  <2>2. /\ pc[t] = "tools" /\ pc'[t] \in {"tool", "asked", "failed"}
        /\ todo' = todo \/ todo' = [todo EXCEPT ![t] = <<>>]
    BY <2>1 DEF Call
  <2>3. IsSeq(messages') /\ lost' = lost
    <3>1. CASE UNCHANGED memory
      BY <1>0, <3>1
    <3>2. CASE Result(t)
      BY <1>0, <3>2, Remembers, Short DEF Result
    <3> QED
      BY <2>1, <3>1, <3>2 DEF Call
  <2>4. SeqInv'
    BY <1>q, <2>2, <2>3, Short
  <2>5. StoredInv'
    <3>1. CASE Stores(t, kind) \/ UNCHANGED stored
      BY <2>3, <3>1, Stored
    <3>2. CASE stored' = Saved(t, messages, kind)
      BY <1>0, <3>2 DEF StoredInv, Saved
    <3> QED
      BY <2>1, <3>1, <3>2 DEF Call
  <2>6. pc[t] \in Active /\ pc'[t] # "request"
    BY <2>2
  <2> QED
    BY <1>m, <2>3, <2>4, <2>5, <2>6 DEF Effect
<1>10. CASE CallReturns(t)
  <2>1. IsSeq(messages') /\ lost' = lost
    BY <1>0, <1>10, Remembers, Short DEF CallReturns, Result
  <2>2. SeqInv'
    <3>1. todo[t] # <<>>
      BY <1>10 DEF CallReturns
    <3> QED
      BY <1>0, <1>10, <1>q, <2>1, <3>1, Rest, Short DEF CallReturns
  <2>3. StoredInv'
    BY <1>10, <2>1, Stored DEF CallReturns
  <2> QED
    BY <1>10, <2>1, <2>2, <2>3 DEF CallReturns, Effect
<1> QED
  BY <1>m, <1>1, <1>2, <1>3, <1>4, <1>5, <1>6, <1>7, <1>8, <1>9, <1>10 DEF Run

-----------------------------------------------------------------------------
(* Theorems *)

LEMMA InitIInv == Init => IInv
<1> SUFFICES ASSUME Init PROVE IInv
  OBVIOUS
<1>1. PcInv /\ GateInv
  BY DEF Init, PcInv, GateInv, Places, Active
<1>2. SeqInv /\ StoredInv
  BY Short DEF Init, SeqInv, StoredInv
<1>3. NothingLost
  BY DEF Init, NothingLost
<1> QED
  BY <1>1, <1>2, <1>3 DEF IInv

LEMMA StepIInv == IInv /\ [Next]_vars => IInv'
<1> SUFFICES ASSUME IInv, [Next]_vars PROVE IInv'
  OBVIOUS
<1> USE DEF IInv
<1>1. CASE UNCHANGED vars
  BY <1>1 DEF vars, run, memory, PcInv, GateInv, SeqInv, StoredInv, NothingLost, IsSeq
<1>2. CASE AddSystemMessage
  <2>1. PcInv' /\ GateInv' /\ StoredInv'
    BY <1>2 DEF AddSystemMessage, run, PcInv, GateInv, StoredInv
  <2>2. mode' # "task"
    BY <1>2 DEF AddSystemMessage
  <2> QED
    BY <2>1, <2>2 DEF SeqInv, NothingLost
<1>3. CASE Crash
  <2>1. PcInv' /\ GateInv' /\ \A u \in Turns : pc'[u] \notin Active
    BY <1>3, CrashStep
  <2>2. stored # None /\ stored' = stored /\ messages' = stored.messages /\ lost' = lost /\ mode' = mode
    BY <1>3 DEF Crash
  <2>3. StoredInv'
    BY <2>2 DEF StoredInv
  <2>4. SeqInv'
    <3>1. IsSeq(messages')
      BY <2>2 DEF StoredInv
    <3>2. \A u \in Turns : todo'[u] = <<Pending(stored.messages)>> \/ todo'[u] = <<>>
      BY <1>3 DEF Crash
    <3> QED
      BY <3>1, <3>2, Short DEF SeqInv
  <2>5. NothingLost'
    BY <2>1, <2>2 DEF NothingLost, Active
  <2> QED
    BY <2>1, <2>3, <2>4, <2>5
<1>4. ASSUME NEW t \in Turns, Start(t) \/ Run(t) \/ CallReturns(t) \/ Cancel(t) \/ AnswerRestored(t)
      PROVE  IInv'
  <2>1. PcInv' /\ GateInv' /\ \A u \in Turns \ {t} : pc'[u] = pc[u]
    BY <1>4, OneAtATime
  <2>2. CASE mode = "task"
    <3>1. Effect(t) /\ mode' = mode
      BY <1>4, <2>2, TaskStep
    <3>2. ASSUME NEW u \in Turns, pc'[u] = "request" PROVE Len(messages') < HardLimit
      <4>1. CASE u = t
        BY <2>2, <3>1, <3>2, <4>1 DEF Effect, NothingLost
      <4>2. CASE u # t
        <5>1. pc[u] = "request" /\ gate = u /\ u # None /\ Len(messages) < HardLimit
          BY <2>1, <2>2, <3>2, <4>2, ConversationAssumption DEF GateInv, NothingLost, Active
        <5>2. pc[t] \notin Active /\ gate # None
          BY <4>2, <5>1 DEF GateInv
        <5> QED
          BY <3>1, <5>1, <5>2 DEF Effect
      <4> QED
        BY <4>1, <4>2
    <3>3. NothingLost'
      BY <2>2, <3>1, <3>2 DEF Effect, NothingLost
    <3> QED
      BY <2>1, <3>1, <3>3 DEF Effect
  <2>3. CASE mode # "task"
    <3>1. stored' = stored
      <4>1. CASE Summarize(t)
        BY <2>3, <4>1 DEF Summarize, Stores, MayStore
      <4>2. CASE Answer(t) \/ CutResponse(t) \/ Acquire(t) \/ CallReturns(t)
        BY <2>3, <4>2 DEF Answer, CutResponse, Acquire, CallReturns, Stores
      <4>3. CASE \E kind \in {"tool", "asked"} : Call(t, kind)
        BY <2>3, <4>3 DEF Call, Stores
      <4>4. CASE \E n \in 1..MaxCalls : WantsTools(t, n)
        BY <4>4 DEF WantsTools
      <4>5. CASE \/ Start(t) \/ CancelledWhileWaiting(t) \/ Loop(t) \/ LoopsExceeded(t) \/ SummaryFails(t)
                 \/ Ask(t) \/ ModelFails(t) \/ CallsDone(t) \/ Cancel(t) \/ AnswerRestored(t)
        BY <4>5 DEF Start, CancelledWhileWaiting, Loop, LoopsExceeded, SummaryFails, Ask, ModelFails, CallsDone,
                    Cancel, AnswerRestored
      <4> QED
        BY <1>4, <4>1, <4>2, <4>3, <4>4, <4>5 DEF Run
    <3>2. mode' = mode
      BY <1>4 DEF Start, Run, Acquire, CancelledWhileWaiting, Loop, LoopsExceeded, Summarize, SummaryFails,
         Ask, ModelFails, Answer, CutResponse, WantsTools, Call, CallsDone, CallReturns, Cancel, AnswerRestored
    <3>3. StoredInv' /\ SeqInv' /\ NothingLost'
      BY <2>3, <3>1, <3>2 DEF StoredInv, SeqInv, NothingLost
    <3> QED
      BY <2>1, <3>3
  <2> QED
    BY <2>2, <2>3
<1> QED
  BY <1>1, <1>2, <1>3, <1>4 DEF Next

LEMMA Inductive == Spec => []IInv
  BY InitIInv, StepIInv, PTL DEF Spec

\* The gate of a conversation: two runs of one agent never use its Memory at the
\* same time, also when runs fail, are cancelled, or go on after a crash.
THEOREM Exclusive ==
  Spec => [](\A t, u \in Turns : pc[t] \in Active /\ pc[u] \in Active => t = u)
<1>1. IInv => \A t, u \in Turns : pc[t] \in Active /\ pc[u] \in Active => t = u
  BY DEF IInv, GateInv
<1> QED
  BY <1>1, Inductive, PTL

\* A summary that fails loses nothing, and a request stays below the hard limit.
THEOREM Lossless == Spec => []NothingLost
  BY Inductive, PTL DEF IInv

-----------------------------------------------------------------------------
(* The messages of a Memory *)

\* Each call belongs to the turn of its message, and a result to one call.
Typed(ms) ==
    /\ ms \in Seq(Message)
    /\ \A i \in DOMAIN ms : \A n \in DOMAIN ms[i].calls : ms[i].calls[n][1] = ms[i].turn
    /\ \A i \in DOMAIN ms : ms[i].role = "tool" => Len(ms[i].calls) = 1
    /\ \A i \in DOMAIN ms : ms[i].role \in {"system", "user"} => ms[i].calls = <<>>

\* Message j is the result of a call.
IsResult(ms, j, id) == ms[j].role = "tool" /\ ms[j].calls[1] = id

\* No call has two results.
Unique(ms) ==
    \A j, k \in DOMAIN ms :
        ms[j].role = "tool" /\ ms[k].role = "tool" /\ ms[j].calls[1] = ms[k].calls[1] => j = k

\* A call has a result behind it, is of a turn of B, or is open.
Answered(ms, B, open) ==
    \A i \in DOMAIN ms : ms[i].role = "assistant" =>
        \A n \in DOMAIN ms[i].calls :
            \/ \E j \in (i + 1)..Len(ms) : IsResult(ms, j, ms[i].calls[n])
            \/ ms[i].turn \in B
            \/ ms[i].calls[n] \in open

\* ResultBelongs, with the turns of B for the broken ones.
Belongs(ms, B, j) ==
    \E i \in 1..(j - 1) :
        /\ ms[i].role = "assistant" /\ Contains(ms[i].calls, ms[j].calls[1])
        /\ \A k \in (i + 1)..(j - 1) :
            \/ ms[k].role = "system"
            \/ ms[k].role = "tool" /\ Contains(ms[i].calls, ms[k].calls[1])
            \/ ms[i].turn \in B

AllBelong(ms, B) == \A j \in DOMAIN ms : ms[j].role = "tool" => Belongs(ms, B, j)

\* The calls of each turn are of its loops up to L.
Upto(ms, L) == \A i \in DOMAIN ms : \A n \in DOMAIN ms[i].calls : ms[i].calls[n][2] <= L[ms[i].calls[n][1]]

\* A Memory in which calls and results are paired; after a cut, only the calls.
Paired(ms, B, open, L, whole) ==
    /\ Typed(ms) /\ Unique(ms) /\ Answered(ms, B, open) /\ Upto(ms, L)
    /\ whole => AllBelong(ms, B)

Unanswered(ms, id) == \A j \in DOMAIN ms : ~IsResult(ms, j, id)

LEMMA MessageIs ==
  ASSUME NEW m \in Message
  PROVE  /\ m.role \in {"system", "user", "assistant", "tool"} /\ m.turn \in Turns \cup {None}
         /\ m.calls \in Seq(Calls) /\ Len(m.calls) \in Nat /\ DOMAIN m.calls = 1..Len(m.calls)
         /\ \A n \in DOMAIN m.calls : m.calls[n] \in Calls
<1>1. m.calls \in Seq(Calls)
  BY DEF Message
<1> QED
  BY <1>1, LenProperties, ElementOfSeq DEF Message

LEMMA TypedIs ==
  ASSUME NEW ms, Typed(ms)
  PROVE  /\ Len(ms) \in Nat /\ DOMAIN ms = 1..Len(ms)
         /\ \A i \in 1..Len(ms) : ms[i] \in Message
  BY LenProperties, ElementOfSeq DEF Typed

LEMMA CallIs ==
  ASSUME NEW c \in Calls
  PROVE  c[1] \in Turns /\ c[2] \in 1..MaxLoops /\ MaxLoops \in Nat
  BY ConversationAssumption DEF Calls

\* More turns are broken, more loops begun, and calls open.
LEMMA PairedMore ==
  ASSUME NEW ms, NEW B, NEW B2, NEW open, NEW open2, NEW L \in [Turns -> Int], NEW L2 \in [Turns -> Int],
         NEW whole \in BOOLEAN, NEW whole2 \in BOOLEAN,
         Paired(ms, B, open, L, whole), B \subseteq B2, \A c \in open : c \in open2 \/ c[1] \in B2,
         \A t \in Turns : L[t] <= L2[t], whole2 => whole
  PROVE  Paired(ms, B2, open2, L2, whole2)
<1> USE DEF Paired
<1>1. Typed(ms) /\ Unique(ms)
  OBVIOUS
<1>2. Answered(ms, B2, open2)
  BY <1>1 DEF Answered, Typed
<1>3. Upto(ms, L2)
  <2> SUFFICES ASSUME NEW i \in DOMAIN ms, NEW n \in DOMAIN ms[i].calls
               PROVE  ms[i].calls[n][2] <= L2[ms[i].calls[n][1]]
    BY DEF Upto
  <2> DEFINE c == ms[i].calls[n]
  <2>1. ms[i] \in Message /\ c \in Calls
    BY <1>1, TypedIs, MessageIs
  <2>2. c[1] \in Turns /\ c[2] \in Int
    BY <2>1, CallIs
  <2>3. c[2] <= L[c[1]]
    BY DEF Upto
  <2> HIDE DEF c
  <2>4. L[c[1]] \in Int /\ L2[c[1]] \in Int /\ L[c[1]] <= L2[c[1]]
    BY <2>2
  <2>5. c[2] <= L2[c[1]]
    BY <2>2, <2>3, <2>4
  <2> QED
    BY <2>5 DEF c
<1>4. whole2 => AllBelong(ms, B2)
  <2> SUFFICES ASSUME AllBelong(ms, B) PROVE AllBelong(ms, B2)
    OBVIOUS
  <2> QED
    BY DEF AllBelong, Belongs
<1> QED
  BY <1>1, <1>2, <1>3, <1>4

\* One message is added.
Grown(ms, new, m) ==
    /\ new \in Seq(Message) /\ m \in Message /\ Len(new) = Len(ms) + 1
    /\ \A i \in 1..Len(ms) : new[i] = ms[i]
    /\ new[Len(ms) + 1] = m

LEMMA GrownIs ==
  ASSUME NEW ms, Typed(ms), NEW new, NEW m, Grown(ms, new, m)
  PROVE  /\ Len(ms) \in Nat /\ DOMAIN ms = 1..Len(ms) /\ DOMAIN new = 1..(Len(ms) + 1)
         /\ \A i \in DOMAIN ms : i \in DOMAIN new /\ new[i] = ms[i]
         /\ \A i \in DOMAIN new : i \in DOMAIN ms \/ (i = Len(ms) + 1 /\ new[i] = m)
<1>1. DOMAIN new = 1..Len(new)
  BY LenProperties DEF Grown
<1> QED
  BY <1>1, TypedIs DEF Grown

LEMMA GrownBelongs ==
  ASSUME NEW ms, NEW new, NEW m, NEW B, Typed(ms), Grown(ms, new, m), AllBelong(ms, B),
         m.role = "tool" => Belongs(new, B, Len(new))
  PROVE  AllBelong(new, B)
<1> SUFFICES ASSUME NEW j \in DOMAIN new, new[j].role = "tool" PROVE Belongs(new, B, j)
  BY DEF AllBelong
<1>1. CASE j \in DOMAIN ms
  <2>1. Belongs(ms, B, j) /\ j \in 1..Len(ms)
    BY <1>1, GrownIs DEF AllBelong
  <2>2. \A i \in 1..j : new[i] = ms[i]
    BY <2>1, GrownIs
  <2>3. PICK i \in 1..(j - 1) :
           /\ ms[i].role = "assistant" /\ Contains(ms[i].calls, ms[j].calls[1])
           /\ \A k \in (i + 1)..(j - 1) :
               \/ ms[k].role = "system"
               \/ ms[k].role = "tool" /\ Contains(ms[i].calls, ms[k].calls[1])
               \/ ms[i].turn \in B
    BY <2>1 DEF Belongs
  <2>4. new[i] = ms[i] /\ new[j] = ms[j] /\ \A k \in (i + 1)..(j - 1) : new[k] = ms[k]
    BY <2>1, <2>2, GrownIs
  <2> QED
    BY <2>3, <2>4 DEF Belongs
<1>2. CASE j = Len(ms) + 1 /\ new[j] = m
  BY <1>2 DEF Grown
<1> QED
  BY <1>1, <1>2, GrownIs

\* A message without calls.
LEMMA PlainKeeps ==
  ASSUME NEW ms, NEW new, NEW m, NEW B, NEW open, NEW L, NEW whole \in BOOLEAN, Paired(ms, B, open, L, whole),
         Grown(ms, new, m), m.calls = <<>>, m.role # "tool"
  PROVE  Paired(new, B, open, L, whole)
<1> USE DEF Paired
<1>0. Typed(ms) /\ DOMAIN m.calls = {}
  OBVIOUS
<1>1. Typed(new)
  BY <1>0, GrownIs DEF Typed, Grown
<1>2. Unique(new)
  BY <1>0, GrownIs DEF Unique
<1>3. Answered(new, B, open)
  <2> SUFFICES ASSUME NEW i \in DOMAIN new, new[i].role = "assistant", NEW n \in DOMAIN new[i].calls
               PROVE  \/ \E j \in (i + 1)..Len(new) : IsResult(new, j, new[i].calls[n])
                      \/ new[i].turn \in B
                      \/ new[i].calls[n] \in open
    BY DEF Answered
  <2>1. i \in DOMAIN ms /\ new[i] = ms[i]
    BY <1>0, GrownIs
  <2>2. \A j \in (i + 1)..Len(ms) : j \in (i + 1)..Len(new) /\ new[j] = ms[j]
    BY <1>0, <2>1, GrownIs DEF Grown
  <2> QED
    BY <2>1, <2>2 DEF Answered, IsResult
<1>4. Upto(new, L)
  BY <1>0, GrownIs DEF Upto
<1>5. whole => AllBelong(new, B)
  BY <1>0, GrownBelongs
<1> QED
  BY <1>1, <1>2, <1>3, <1>4, <1>5

\* A response with calls, which are open then.
LEMMA ResponseKeeps ==
  ASSUME NEW ms, NEW new, NEW m, NEW B, NEW open, NEW L, NEW whole \in BOOLEAN, Paired(ms, B, open, L, whole),
         Grown(ms, new, m), m.role = "assistant",
         \A n \in DOMAIN m.calls : m.calls[n] \in open /\ m.calls[n][1] = m.turn /\ m.calls[n][2] <= L[m.calls[n][1]]
  PROVE  Paired(new, B, open, L, whole)
<1> USE DEF Paired
<1>0. Typed(ms)
  OBVIOUS
<1>1. Typed(new)
  BY <1>0, GrownIs DEF Typed, Grown
<1>2. Unique(new)
  BY <1>0, GrownIs DEF Unique
<1>3. Answered(new, B, open)
  <2> SUFFICES ASSUME NEW i \in DOMAIN new, new[i].role = "assistant", NEW n \in DOMAIN new[i].calls
               PROVE  \/ \E j \in (i + 1)..Len(new) : IsResult(new, j, new[i].calls[n])
                      \/ new[i].turn \in B
                      \/ new[i].calls[n] \in open
    BY DEF Answered
  <2>0. CASE i = Len(ms) + 1 /\ new[i] = m
    BY <2>0
  <2>1. CASE i \in DOMAIN ms /\ new[i] = ms[i]
    <3>1. \A j \in (i + 1)..Len(ms) : j \in (i + 1)..Len(new) /\ new[j] = ms[j]
      BY <1>0, <2>1, GrownIs DEF Grown
    <3> QED
      BY <2>1, <3>1 DEF Answered, IsResult
  <2> QED
    BY <1>0, <2>0, <2>1, GrownIs
<1>4. Upto(new, L)
  BY <1>0, GrownIs DEF Upto
<1>5. whole => AllBelong(new, B)
  BY <1>0, GrownBelongs
<1> QED
  BY <1>1, <1>2, <1>3, <1>4, <1>5

\* The result of a call that has none yet.
LEMMA ResultKeeps ==
  ASSUME NEW ms, NEW new, NEW m, NEW c \in Calls, NEW B, NEW open, NEW L, NEW whole \in BOOLEAN,
         Paired(ms, B, open \cup {c}, L, whole), Grown(ms, new, m),
         m.role = "tool", m.calls = <<c>>, Unanswered(ms, c), c[1] = m.turn, c[2] <= L[c[1]],
         whole => Belongs(new, B, Len(new))
  PROVE  Paired(new, B, open, L, whole)
<1> USE DEF Paired
<1>0. Typed(ms) /\ DOMAIN m.calls = {1} /\ m.calls[1] = c /\ Len(m.calls) = 1
  OBVIOUS
<1>1. Typed(new)
  <2>1. new \in Seq(Message) /\ \A i \in DOMAIN new : (i \in DOMAIN ms /\ new[i] = ms[i]) \/ new[i] = m
    BY <1>0, GrownIs DEF Grown
  <2>2. ASSUME NEW i \in DOMAIN new, NEW n \in DOMAIN new[i].calls PROVE new[i].calls[n][1] = new[i].turn
    <3>1. CASE new[i] = m
      <4>1. n = 1 /\ new[i].calls[n] = c
        BY <1>0, <2>2, <3>1
      <4> QED
        BY <3>1, <4>1
    <3>2. CASE i \in DOMAIN ms /\ new[i] = ms[i]
      BY <1>0, <2>2, <3>2 DEF Typed
    <3> QED
      BY <2>1, <3>1, <3>2
  <2>3. \A i \in DOMAIN new : new[i].role = "tool" => Len(new[i].calls) = 1
    BY <1>0, <2>1 DEF Typed
  <2>4. \A i \in DOMAIN new : new[i].role \in {"system", "user"} => new[i].calls = <<>>
    BY <1>0, <2>1 DEF Typed
  <2> QED
    BY <2>1, <2>2, <2>3, <2>4 DEF Typed
<1>2. Unique(new)
  BY <1>0, GrownIs DEF Unique, Unanswered, IsResult
<1>3. Answered(new, B, open)
  <2> SUFFICES ASSUME NEW i \in DOMAIN new, new[i].role = "assistant", NEW n \in DOMAIN new[i].calls
               PROVE  \/ \E j \in (i + 1)..Len(new) : IsResult(new, j, new[i].calls[n])
                      \/ new[i].turn \in B
                      \/ new[i].calls[n] \in open
    BY DEF Answered
  <2>1. i \in DOMAIN ms /\ new[i] = ms[i]
    BY <1>0, GrownIs
  <2>2. \A j \in (i + 1)..Len(ms) : j \in (i + 1)..Len(new) /\ new[j] = ms[j]
    BY <1>0, <2>1, GrownIs DEF Grown
  <2>3. Len(new) \in (i + 1)..Len(new) /\ IsResult(new, Len(new), c)
    BY <1>0, <2>1, GrownIs DEF Grown, IsResult
  <2> QED
    BY <2>1, <2>2, <2>3 DEF Answered, IsResult
<1>4. Upto(new, L)
  BY <1>0, GrownIs DEF Upto
<1>5. whole => AllBelong(new, B)
  BY <1>0, GrownBelongs
<1> QED
  BY <1>1, <1>2, <1>3, <1>4, <1>5

\* d messages are dropped, behind p system messages.
Trimmed(ms, new, p, d) ==
    /\ new \in Seq(Message) /\ p \in Nat /\ d \in Nat /\ p + d <= Len(ms)
    /\ Len(new) = Len(ms) - d
    /\ \A i \in 1..Len(new) : new[i] = IF i <= p THEN ms[i] ELSE ms[i + d]
    /\ \A i \in 1..p : ms[i].role = "system"

LEMMA TrimKeeps ==
  ASSUME NEW ms, NEW new, NEW p, NEW d, NEW B, NEW open, NEW L, NEW whole \in BOOLEAN, Paired(ms, B, open, L, whole),
         Trimmed(ms, new, p, d), NEW whole2 \in BOOLEAN, ~whole2
  PROVE  /\ Paired(new, B, open, L, whole2)
         /\ \A c : Unanswered(ms, c) => Unanswered(new, c)
<1> DEFINE was(i) == IF i <= p THEN i ELSE i + d
<1>0. Typed(ms) /\ Len(ms) \in Nat /\ DOMAIN ms = 1..Len(ms) /\ DOMAIN new = 1..Len(new) /\ Len(new) \in Nat
  BY TypedIs, LenProperties DEF Paired, Trimmed
<1>1. \A i \in DOMAIN new : was(i) \in DOMAIN ms /\ new[i] = ms[was(i)] /\ i \in Nat
  BY <1>0 DEF Trimmed
<1>2. \A i, j \in DOMAIN new : was(i) = was(j) => i = j
  BY <1>0 DEF Trimmed
<1>3. \A i \in DOMAIN new : new[i].role # "system" => was(i) = i + d
  BY <1>0, <1>1 DEF Trimmed
<1> HIDE DEF was
<1> USE DEF Paired
<1>4. Typed(new)
  BY <1>1 DEF Typed, Trimmed
<1>5. Unique(new)
  BY <1>1, <1>2 DEF Unique
<1>6. Upto(new, L)
  BY <1>1 DEF Upto
<1>7. Answered(new, B, open)
  <2> SUFFICES ASSUME NEW i \in DOMAIN new, new[i].role = "assistant", NEW n \in DOMAIN new[i].calls
               PROVE  \/ \E j \in (i + 1)..Len(new) : IsResult(new, j, new[i].calls[n])
                      \/ new[i].turn \in B
                      \/ new[i].calls[n] \in open
    BY DEF Answered
  <2>1. i + d \in DOMAIN ms /\ new[i] = ms[i + d] /\ i \in Nat /\ d \in Nat /\ i > p
    <3>1. i > p
      BY <1>0, <1>1 DEF Trimmed
    <3> QED
      BY <1>1, <1>3, <3>1 DEF Trimmed
  <2>2. ASSUME NEW j \in (i + d + 1)..Len(ms) PROVE j - d \in (i + 1)..Len(new) /\ new[j - d] = ms[j]
    <3>1. j - d \in (i + 1)..Len(new) /\ j - d \in 1..Len(new) /\ j - d > p
      BY <1>0, <2>1, <2>2 DEF Trimmed
    <3>2. new[j - d] = ms[(j - d) + d]
      BY <3>1, <2>1 DEF Trimmed
    <3> QED
      BY <1>0, <2>1, <3>1, <3>2
  <2>3. \/ \E j \in (i + d + 1)..Len(ms) : IsResult(ms, j, ms[i + d].calls[n])
        \/ ms[i + d].turn \in B
        \/ ms[i + d].calls[n] \in open
    BY <2>1 DEF Answered
  <2> QED
    BY <2>1, <2>2, <2>3 DEF IsResult
<1>8. ASSUME NEW c, Unanswered(ms, c) PROVE Unanswered(new, c)
  BY <1>1, <1>8 DEF Unanswered, IsResult
<1> QED
  BY <1>4, <1>5, <1>6, <1>7, <1>8
-----------------------------------------------------------------------------
(* The calls of a run *)

AtCalls == {"tools", "tool", "asked"}

\* The calls in hand are different ones of this loop, without a result.
TodoIs(t) ==
    /\ todo[t] \in Seq(Calls)
    /\ \A i \in DOMAIN todo[t] : todo[t][i][1] = t /\ todo[t][i][2] = loopCount[t]
    /\ \A i, j \in DOMAIN todo[t] : todo[t][i] = todo[t][j] => i = j
    /\ \A i \in DOMAIN todo[t] : Unanswered(messages, todo[t][i])

\* Behind the response there are only results of it, and system messages.
Responded(t) ==
    \E i \in DOMAIN messages :
        /\ messages[i].role = "assistant"
        /\ \A n \in DOMAIN todo[t] : Contains(messages[i].calls, todo[t][n])
        /\ \A k \in (i + 1)..Len(messages) :
            \/ messages[k].role = "system"
            \/ messages[k].role = "tool" /\ Contains(messages[i].calls, messages[k].calls[1])

\* In Task mode its results are in the order of its calls.
InOrder(t) ==
    \E i \in DOMAIN messages :
        LET calls == messages[i].calls
            k == Len(messages) - i
        IN /\ messages[i].role = "assistant" /\ calls # <<>> /\ messages[i].turn = t
           /\ Len(calls) = k + Len(todo[t])
           /\ \A n \in DOMAIN todo[t] : todo[t][n] = calls[k + n]
           /\ \A j \in (i + 1)..Len(messages) : messages[j].role = "tool"

\* The call of a question that was restored.
Reasked(t) ==
    todo[t] # <<>> =>
        \E c \in Calls :
            /\ todo[t] = <<c>> /\ c[1] = t /\ c[2] <= loopCount[t] /\ t \in resumed
            /\ Unanswered(messages, c)
            /\ ~cut => \E i \in DOMAIN messages : /\ messages[i].role = "assistant" /\ messages[i].turn = t
                                                  /\ Contains(messages[i].calls, c)

RunOf(t) ==
    /\ pc[t] \in AtCalls => TodoIs(t) /\ (~cut => Responded(t)) /\ (mode = "task" => InOrder(t))
    /\ pc[t] \in {"waiting", "restored"} => Reasked(t)
    /\ pc[t] \notin AtCalls \cup {"waiting", "restored"} => todo[t] = <<>>
    /\ pc[t] \in {"summarize", "request", "model"} => loopCount[t] > 0

RunInv == \A t \in Turns : RunOf(t)

Spoilt == {t \in Turns : Broken(t)}

Open == {c \in Calls : \E t \in Turns : pc[t] \in AtCalls /\ \E i \in DOMAIN todo[t] : todo[t][i] = c}

\* The last loop of which there may be calls.
Begun == [t \in Turns |-> IF pc[t] \in {"summarize", "request", "model"} THEN loopCount[t] - 1 ELSE loopCount[t]]

MemoryInv == Paired(messages, Spoilt, Open, Begun, ~cut)

\* The turns that are broken once the stored checkpoint is restored.
SpoiltAfter ==
    {t \in Turns : t \in resumed \/ IF t = stored.turn THEN stored.pending # "final" ELSE pc[t] = "failed"}

LoopsAfter == [loopCount EXCEPT ![stored.turn] = stored.loops]

\* In a Memory that ends with an unfinished response of t, the next call has no
\* result: it is the question.
Asks(ms, t) ==
    \E i \in DOMAIN ms :
        LET calls == ms[i].calls
            k == Len(ms) - i
        IN /\ ms[i].role = "assistant" /\ ms[i].turn = t
           /\ k < Len(calls) /\ Unanswered(ms, calls[k + 1])
           /\ \A j \in (i + 1)..Len(ms) : ms[j].role = "tool"

CheckpointInv ==
    mode = "task" /\ stored # None =>
        /\ stored.turn \in Turns /\ stored.loops \in 0..MaxLoops
        /\ Paired(stored.messages, SpoiltAfter, {}, LoopsAfter, ~cut)
        /\ stored.pending = "asked" => Asks(stored.messages, stored.turn)

LoopInv == loopCount \in [Turns -> 0..MaxLoops] /\ resumed \subseteq Turns /\ (mode # "task" => resumed = {})


-----------------------------------------------------------------------------
(* Memory.Add and the recent messages of a summary *)

LEMMA LeadingSystemIs ==
  ASSUME NEW ms \in Seq(Message)
  PROVE  /\ LeadingSystem(ms) \in 0..Len(ms)
         /\ \A i \in 1..LeadingSystem(ms) : ms[i].role = "system"
<1> DEFINE S == {n \in 0..Len(ms) : n < Len(ms) => ms[n + 1].role # "system"}
<1>0. Len(ms) \in Nat
  OBVIOUS
<1>1. S \in SUBSET Nat /\ S # {}
  <2>1. Len(ms) \in S
    BY <1>0
  <2> QED
    BY <1>0, <2>1
<1> HIDE DEF S
<1>2. PICK n \in S : \A m \in S : n <= m
  <2> DEFINE R == OpToRel(<, Nat)
  <2>1. \A m, n \in Nat : m < n => <<m, n>> \in R
    BY Zenon DEF OpToRel
  <2>2. IsWellFoundedOn(R, Nat)
    BY NatLessThanWellFounded
  <2> HIDE DEF R
  <2>3. PICK n \in S : \A m \in S : ~(<<m, n>> \in R)
    BY <1>1, <2>2, WFMin, Zenon
  <2>4. \A m \in S : n <= m
    <3> TAKE m \in S
    <3>1. m \in Nat /\ n \in Nat /\ ~(m < n)
      BY <1>1, <2>1, <2>3
    <3> QED
      BY <3>1
  <2> QED
    BY <2>4
<1>3. n \in 0..Len(ms) /\ n \in Nat /\ (n < Len(ms) => ms[n + 1].role # "system")
  BY <1>0, <1>2 DEF S
<1>4. ASSUME NEW i \in 1..n PROVE ms[i].role = "system"
  <2>1. i - 1 \in 0..Len(ms) /\ i - 1 < Len(ms) /\ ~(n <= i - 1) /\ (i - 1) + 1 = i
    BY <1>0, <1>3, <1>4
  <2>2. i - 1 \notin S
    BY <1>2, <2>1
  <2> QED
    BY <2>1, <2>2 DEF S
<1> QED
  BY <1>3, <1>4 DEF LeadingSystem

\* What a full Memory drops.
LEMMA EvictedIs ==
  ASSUME NEW ms \in Seq(Message)
  PROVE  \/ Evicted(ms) = ms
         \/ \E p, d \in Nat : Trimmed(ms, Evicted(ms), p, d) /\ Len(Evicted(ms)) < Len(ms)
<1> DEFINE half == IF Capacity \div 2 < 1 THEN 1 ELSE Capacity \div 2
<1> DEFINE start == LeadingSystem(ms)
<1>1. Capacity \in Nat /\ Capacity >= 1 /\ half \in Nat /\ half >= 1 /\ half <= Capacity /\ Len(ms) \in Nat
  BY ConversationAssumption
<1>2. start \in Nat /\ start <= Len(ms) /\ \A i \in 1..start : ms[i].role = "system"
  BY <1>1, LeadingSystemIs
<1>3. Evicted(ms) = IF Len(ms) < Capacity THEN ms
                    ELSE IF start < half THEN SubSeq(ms, 1, start) \o SubSeq(ms, half + 1, Len(ms))
                    ELSE SubSeq(ms, half + 1, Len(ms))
  BY DEF Evicted
<1> HIDE DEF half, start
<1>b. Len(ms) >= Capacity => half <= Len(ms)
  BY <1>1
<1>4. ASSUME Len(ms) >= Capacity
      PROVE  /\ SubSeq(ms, half + 1, Len(ms)) \in Seq(Message)
             /\ Len(SubSeq(ms, half + 1, Len(ms))) = Len(ms) - half
             /\ \A i \in 1..(Len(ms) - half) : SubSeq(ms, half + 1, Len(ms))[i] = ms[half + i]
  BY <1>1, <1>b, <1>4, SubSeqProperties
<1>5. CASE Len(ms) >= Capacity /\ ~(start < half)
  <2>1. Evicted(ms) = SubSeq(ms, half + 1, Len(ms))
    BY <1>1, <1>3, <1>5
  <2>2. Trimmed(ms, Evicted(ms), 0, half) /\ Len(Evicted(ms)) < Len(ms)
    BY <1>1, <1>b, <1>4, <1>5, <2>1 DEF Trimmed
  <2> QED
    BY <1>1, <2>2
<1>6. CASE Len(ms) >= Capacity /\ start < half
  <2> DEFINE a == SubSeq(ms, 1, start)
  <2> DEFINE b == SubSeq(ms, half + 1, Len(ms))
  <2>1. Evicted(ms) = a \o b
    <3>1. ~(Len(ms) < Capacity)
      BY <1>1, <1>6
    <3> QED
      BY <1>3, <1>6, <3>1, Zenon
  <2>2. a \in Seq(Message) /\ Len(a) = start /\ \A i \in 1..start : a[i] = ms[i]
    BY <1>1, <1>2, SubSeqProperties
  <2>3. b \in Seq(Message) /\ Len(b) = Len(ms) - half /\ \A i \in 1..(Len(ms) - half) : b[i] = ms[half + i]
    BY <1>4, <1>6
  <2> HIDE DEF a, b
  <2>4. /\ a \o b \in Seq(Message) /\ Len(a \o b) = start + (Len(ms) - half)
        /\ \A i \in 1..(start + (Len(ms) - half)) :
              (a \o b)[i] = IF i <= start THEN a[i] ELSE b[i - start]
    <3>1. /\ a \o b \in Seq(Message) /\ Len(a \o b) = Len(a) + Len(b)
          /\ \A i \in 1..(Len(a) + Len(b)) : (a \o b)[i] = IF i <= Len(a) THEN a[i] ELSE b[i - Len(a)]
      BY <2>2, <2>3, ConcatProperties, Zenon
    <3> QED
      BY <2>2, <2>3, <3>1, Zenon
  <2>5. ASSUME NEW i \in 1..(start + (Len(ms) - half))
        PROVE  (a \o b)[i] = IF i <= start THEN ms[i] ELSE ms[i + (half - start)]
    <3>1. CASE i <= start
      BY <2>2, <2>4, <3>1
    <3>2. CASE i > start
      <4>1. i - start \in 1..(Len(ms) - half) /\ half + (i - start) = i + (half - start)
        BY <1>1, <1>2, <1>b, <1>6, <2>5, <3>2
      <4> QED
        BY <1>2, <2>3, <2>4, <3>2, <4>1
    <3>3. i <= start \/ i > start
      BY <1>1, <1>2, <1>b, <1>6, <2>5
    <3> QED
      BY <3>1, <3>2, <3>3, Zenon
  <2>6. half - start \in Nat /\ start + (half - start) <= Len(ms)
    BY <1>1, <1>2, <1>b, <1>6
  <2>7. Trimmed(ms, Evicted(ms), start, half - start)
    BY <1>1, <1>2, <2>1, <2>4, <2>5, <2>6 DEF Trimmed
  <2>8. Len(Evicted(ms)) < Len(ms)
    BY <1>1, <1>2, <1>b, <1>6, <2>1, <2>4
  <2> QED
    BY <1>2, <2>6, <2>7, <2>8
<1>7. CASE Len(ms) < Capacity
  BY <1>3, <1>7, Zenon
<1> QED
  BY <1>1, <1>5, <1>6, <1>7

LEMMA RecentIs ==
  ASSUME NEW ms \in Seq(Message)
  PROVE  \E d \in Nat : Trimmed(ms, Recent(ms), 0, d)
<1> DEFINE d == IF Len(ms) > KeepRecent THEN Len(ms) - KeepRecent ELSE 0
<1>1. KeepRecent \in Nat /\ Len(ms) \in Nat /\ d \in Nat /\ d <= Len(ms)
  BY ConversationAssumption DEF Normalized
<1>2. Recent(ms) = SubSeq(ms, d + 1, Len(ms))
  BY DEF Recent
<1> HIDE DEF d
<1>3. /\ SubSeq(ms, d + 1, Len(ms)) \in Seq(Message)
      /\ Len(SubSeq(ms, d + 1, Len(ms))) = Len(ms) - d
      /\ \A i \in 1..(Len(ms) - d) : SubSeq(ms, d + 1, Len(ms))[i] = ms[d + i]
  BY <1>1, SubSeqProperties
<1>4. Trimmed(ms, Recent(ms), 0, d)
  BY <1>1, <1>2, <1>3 DEF Trimmed
<1> QED
  BY <1>1, <1>4

\* The Memory before a message is added: what was there, or what is left of it.
Room(ms, mid) == mid = ms \/ \E p, d \in Nat : Trimmed(ms, mid, p, d) /\ Len(mid) < Len(ms)

LEMMA AddedIs ==
  ASSUME NEW ms \in Seq(Message), NEW m \in Message
  PROVE  /\ Room(ms, Evicted(ms)) /\ Grown(Evicted(ms), Added(ms, m), m)
         /\ Added(ms, m) \in Seq(Message) /\ Len(Evicted(ms)) \in Nat
<1>1. Room(ms, Evicted(ms)) /\ Evicted(ms) \in Seq(Message)
  BY EvictedIs DEF Room, Trimmed
<1>2. Grown(Evicted(ms), Append(Evicted(ms), m), m)
  BY <1>1, AppendProperties DEF Grown
<1> QED
  BY <1>1, <1>2 DEF Added, Grown

LEMMA RoomKeeps ==
  ASSUME NEW ms, NEW mid, NEW B, NEW open, NEW L, NEW whole \in BOOLEAN, NEW whole2 \in BOOLEAN,
         Paired(ms, B, open, L, whole), Room(ms, mid), whole2 => whole /\ mid = ms
  PROVE  /\ Paired(mid, B, open, L, whole2)
         /\ \A c : Unanswered(ms, c) => Unanswered(mid, c)
<1>1. CASE mid = ms
  BY <1>1 DEF Paired
<1>2. CASE \E p, d \in Nat : Trimmed(ms, mid, p, d) /\ Len(mid) < Len(ms)
  <2>1. ~whole2
    <3>1. Len(ms) \in Nat
      BY TypedIs DEF Paired
    <3> QED
      BY <1>2, <3>1
  <2>2. PICK p, d \in Nat : Trimmed(ms, mid, p, d)
    BY <1>2
  <2> QED
    BY <2>1, <2>2, TrimKeeps
<1> QED
  BY <1>1, <1>2 DEF Room

LEMMA GrownUnanswered ==
  ASSUME NEW ms, NEW new, NEW m, NEW c, Typed(ms), Grown(ms, new, m), Unanswered(ms, c), ~(m.role = "tool" /\ m.calls[1] = c)
  PROVE  Unanswered(new, c)
  BY GrownIs DEF Unanswered, IsResult

LEMMA RememberOne ==
  ASSUME messages \in Seq(Message), NEW m \in Message, Remember(<<m>>)
  PROVE  \E mid : /\ Room(messages, mid) /\ Grown(mid, messages', m)
                  /\ (~cut' => ~cut /\ mid = messages)
                  /\ (mode = "task" => mid = messages)
<1>0. Len(messages) \in Nat /\ Len(<<m>>) = 1 /\ <<m>>[1] = m
  OBVIOUS
<1>c. ~cut' => ~cut /\ ~(Len(messages') < Len(messages) + 1)
  BY <1>0 DEF Remember
<1>1. CASE mode = "task"
  <2>1. messages' = Append(messages, m)
    BY <1>1, AppendIsConcat DEF Remember
  <2>2. Grown(messages, messages', m)
    BY <2>1, AppendProperties DEF Grown
  <2> QED
    BY <1>c, <2>2 DEF Room
<1>2. CASE mode # "task"
  <2>1. messages' = Added(messages, m)
    BY <1>0, <1>2 DEF Remember
  <2> DEFINE mid == Evicted(messages)
  <2>2. Room(messages, mid) /\ Grown(mid, messages', m) /\ Len(mid) \in Nat
    BY <2>1, AddedIs
  <2> HIDE DEF mid
  <2>3. Len(messages') = Len(mid) + 1
    BY <2>2 DEF Grown
  <2>4. ~cut' => ~cut /\ mid = messages
    <3>1. Len(mid) < Len(messages) => cut'
      BY <1>0, <1>c, <2>2, <2>3
    <3> QED
      BY <1>c, <2>2, <3>1 DEF Room
  <2> QED
    BY <1>2, <2>2, <2>4
<1> QED
  BY <1>1, <1>2

LEMMA RememberTwo ==
  ASSUME messages \in Seq(Message), NEW m \in Message, NEW n \in Message, Remember(<<m, n>>)
  PROVE  \E mid, one, two : /\ Room(messages, mid) /\ Grown(mid, one, m)
                            /\ Room(one, two) /\ Grown(two, messages', n)
                            /\ (~cut' => ~cut /\ mid = messages /\ two = one)
<1>0. Len(messages) \in Nat /\ Len(<<m, n>>) = 2 /\ <<m, n>>[1] = m /\ <<m, n>>[2] = n
  OBVIOUS
<1>c. ~cut' => ~cut /\ ~(Len(messages') < Len(messages) + 2)
  BY <1>0 DEF Remember
<1>1. CASE mode = "task"
  <2>1. messages' = messages \o <<m, n>>
    BY <1>1 DEF Remember
  <2> DEFINE one == Append(messages, m)
  <2>2. Grown(messages, one, m) /\ one \in Seq(Message)
    BY AppendProperties DEF Grown
  <2>3. messages' = Append(one, n)
    BY <1>0, <2>1
  <2> HIDE DEF one
  <2>4. Grown(one, messages', n)
    BY <2>2, <2>3, AppendProperties DEF Grown
  <2> QED
    BY <1>c, <2>2, <2>4 DEF Room
<1>2. CASE mode # "task"
  <2> DEFINE mid == Evicted(messages)
  <2> DEFINE one == Added(messages, m)
  <2> DEFINE two == Evicted(one)
  <2>1. messages' = Added(one, n)
    BY <1>0, <1>2 DEF Remember
  <2>2. Room(messages, mid) /\ Grown(mid, one, m) /\ one \in Seq(Message) /\ Len(mid) \in Nat
    BY AddedIs
  <2> HIDE DEF mid, one
  <2>3. Room(one, two) /\ Grown(two, messages', n) /\ Len(two) \in Nat
    BY <2>1, <2>2, AddedIs
  <2> HIDE DEF two
  <2>4. Len(one) = Len(mid) + 1 /\ Len(messages') = Len(two) + 1
    BY <2>2, <2>3 DEF Grown
  <2>5. Len(mid) <= Len(messages) /\ Len(two) <= Len(one)
    BY <1>0, <2>2, <2>3, <2>4 DEF Room
  <2>6. ~cut' => ~cut /\ mid = messages /\ two = one
    <3>1. Len(mid) < Len(messages) => cut'
      BY <1>0, <1>c, <2>2, <2>3, <2>4, <2>5
    <3>2. Len(two) < Len(one) => cut'
      BY <1>0, <1>c, <2>2, <2>3, <2>4, <2>5
    <3> QED
      BY <1>c, <2>2, <2>3, <3>1, <3>2 DEF Room
  <2> QED
    BY <2>2, <2>3, <2>6
<1> QED
  BY <1>1, <1>2

\* The messages go on: no call gets a result but those of t, and unless some are
\* cut all stay where they are.
GoesOn(t) ==
    /\ \A c \in Calls : c[1] # t /\ Unanswered(messages, c) => Unanswered(messages', c)
    /\ ~cut' => /\ ~cut
                /\ \A i \in 1..Len(messages) : i \in 1..Len(messages') /\ messages'[i] = messages[i]

\* What a message that is added, behind what is left of the Memory, does.
LEMMA GoesOnFrom ==
  ASSUME NEW B, NEW open, NEW L, Paired(messages, B, open, L, ~cut),
         NEW mid, Room(messages, mid), NEW m, Grown(mid, messages', m), ~cut' => ~cut /\ mid = messages
  PROVE  /\ Paired(mid, B, open, L, ~cut')
         /\ \A c : Unanswered(messages, c) => Unanswered(mid, c)
         /\ \A c : Unanswered(messages, c) /\ ~(m.role = "tool" /\ m.calls[1] = c) => Unanswered(messages', c)
         /\ \A t : (m.role = "tool" => m.calls[1][1] = t) => GoesOn(t)
<1>1. Paired(mid, B, open, L, ~cut') /\ \A c : Unanswered(messages, c) => Unanswered(mid, c)
  <2>1. (~cut) \in BOOLEAN /\ (~cut') \in BOOLEAN
    BY Zenon
  <2> QED
    BY <2>1, RoomKeeps
<1>2. Typed(mid)
  BY <1>1 DEF Paired
<1>3. ASSUME NEW c, Unanswered(messages, c), ~(m.role = "tool" /\ m.calls[1] = c) PROVE Unanswered(messages', c)
  BY <1>1, <1>2, <1>3, GrownUnanswered
<1>4. ASSUME NEW t, m.role = "tool" => m.calls[1][1] = t PROVE GoesOn(t)
  <2>1. \A c \in Calls : c[1] # t /\ Unanswered(messages, c) => Unanswered(messages', c)
    BY <1>3, <1>4
  <2>2. ~cut' => \A i \in 1..Len(messages) : i \in 1..Len(messages') /\ messages'[i] = messages[i]
    BY <1>2, GrownIs DEF Grown
  <2> QED
    BY <2>1, <2>2 DEF GoesOn
<1> QED
  BY <1>1, <1>3, <1>4

\* A message without calls is added: of the user, the model or the application.
LEMMA PlainAdded ==
  ASSUME NEW B, NEW open, NEW L, Paired(messages, B, open, L, ~cut), NEW m \in Message, Remember(<<m>>),
         m.calls = <<>>, m.role # "tool"
  PROVE  /\ Paired(messages', B, open, L, ~cut')
         /\ \A c : Unanswered(messages, c) => Unanswered(messages', c)
         /\ \A t : GoesOn(t)
         /\ ~cut' => Grown(messages, messages', m)
<1>1. messages \in Seq(Message)
  BY DEF Paired, Typed
<1>2. PICK mid : /\ Room(messages, mid) /\ Grown(mid, messages', m) /\ (~cut' => ~cut /\ mid = messages)
  BY <1>1, RememberOne
<1>3. /\ Paired(mid, B, open, L, ~cut')
      /\ \A c : Unanswered(messages, c) => Unanswered(messages', c)
      /\ \A t : GoesOn(t)
  BY <1>2, GoesOnFrom
<1>4. (~cut') \in BOOLEAN
  BY Zenon
<1>5. Paired(messages', B, open, L, ~cut')
  BY <1>2, <1>3, <1>4, PlainKeeps
<1> QED
  BY <1>2, <1>3, <1>5

\* The part of a response that was cut, and the request to go on.
LEMMA TwoAdded ==
  ASSUME NEW B, NEW open, NEW L, Paired(messages, B, open, L, ~cut), NEW m \in Message, NEW n \in Message,
         Remember(<<m, n>>), m.calls = <<>>, m.role # "tool", n.calls = <<>>, n.role # "tool"
  PROVE  /\ Paired(messages', B, open, L, ~cut')
         /\ \A t : GoesOn(t)
<1>0. (~cut) \in BOOLEAN /\ (~cut') \in BOOLEAN
  BY Zenon
<1>1. messages \in Seq(Message)
  BY DEF Paired, Typed
<1>2. PICK mid, one, two : /\ Room(messages, mid) /\ Grown(mid, one, m)
                           /\ Room(one, two) /\ Grown(two, messages', n)
                           /\ (~cut' => ~cut /\ mid = messages /\ two = one)
  BY <1>1, RememberTwo
<1>3. Paired(mid, B, open, L, ~cut') /\ \A c : Unanswered(messages, c) => Unanswered(mid, c)
  BY <1>0, <1>2, RoomKeeps
<1>4. Paired(one, B, open, L, ~cut')
  BY <1>0, <1>2, <1>3, PlainKeeps
<1>5. Paired(two, B, open, L, ~cut') /\ \A c : Unanswered(one, c) => Unanswered(two, c)
  BY <1>0, <1>2, <1>4, RoomKeeps
<1>6. Paired(messages', B, open, L, ~cut')
  BY <1>0, <1>2, <1>5, PlainKeeps
<1>7. ASSUME NEW c, Unanswered(messages, c) PROVE Unanswered(messages', c)
  <2>1. Unanswered(one, c)
    BY <1>2, <1>3, <1>7, GrownUnanswered DEF Paired
  <2> QED
    BY <1>2, <1>5, <2>1, GrownUnanswered DEF Paired
<1>8. ~cut' => ~cut /\ \A i \in 1..Len(messages) : i \in 1..Len(messages') /\ messages'[i] = messages[i]
  <2> SUFFICES ASSUME ~cut' PROVE ~cut /\ \A i \in 1..Len(messages) : i \in 1..Len(messages') /\ messages'[i] = messages[i]
    OBVIOUS
  <2>1. Typed(messages) /\ Typed(one) /\ Grown(messages, one, m) /\ Grown(one, messages', n)
    BY <1>2, <1>4 DEF Paired
  <2> QED
    BY <1>2, <2>1, GrownIs DEF Grown
<1>9. \A t : GoesOn(t)
  BY <1>7, <1>8 DEF GoesOn
<1> QED
  BY <1>6, <1>9

-----------------------------------------------------------------------------
(* What a step of one run may do to the Memory, the runs and the checkpoint *)

Frame(t) ==
    /\ \A u \in Turns \ {t} : pc'[u] = pc[u] /\ todo'[u] = todo[u] /\ loopCount'[u] = loopCount[u]
    /\ resumed' = resumed /\ mode' = mode /\ loopCount' \in [Turns -> 0..MaxLoops]
    /\ pc[t] # "failed" /\ \A u \in Turns : Begun[u] <= Begun'[u] /\ loopCount[u] <= loopCount'[u]

\* Calls without a result are open then, or of a turn that is broken.
Keeps ==
    \E open : /\ Paired(messages', Spoilt, open, Begun', ~cut')
              /\ \A c \in open : c \in Open' \/ c[1] \in Spoilt'

Checkpoint(t) ==
    \/ stored' = stored
    \/ \E ms, pending, open :
          /\ stored' = Saved(t, ms, pending)
          /\ Paired(ms, Spoilt, open, Begun', ~cut')
          /\ \A c \in open : c[1] = t /\ pending # "final"
          /\ pending = "asked" => Asks(ms, t)

Moves(t) ==
    /\ Frame(t) /\ Keeps /\ GoesOn(t) /\ RunOf(t)' /\ Checkpoint(t)
    /\ messages' = messages \/ gate \in {None, t}

LEMMA BegunIs ==
  ASSUME LoopInv
  PROVE  /\ Begun \in [Turns -> Int] /\ MaxLoops \in Nat
         /\ \A t \in Turns : loopCount[t] \in Int /\ Begun[t] <= loopCount[t]
  BY ConversationAssumption DEF LoopInv, Begun

LEMMA OpenIs ==
  ASSUME PcInv, GateInv, RunInv
  PROVE  /\ gate = None => Open = {}
         /\ \A t \in Turns : pc[t] \in Active \ AtCalls => Open = {}
         /\ \A t \in Turns : pc[t] \in AtCalls =>
               Open = {c \in Calls : c[1] = t /\ \E i \in DOMAIN todo[t] : todo[t][i] = c}
<1>1. \A t \in Turns : pc[t] \in AtCalls => pc[t] \in Active /\ gate = t /\ t # None
  BY ConversationAssumption DEF GateInv, Active, AtCalls
<1>2. ASSUME NEW t \in Turns, pc[t] \in AtCalls
      PROVE  Open = {c \in Calls : c[1] = t /\ \E i \in DOMAIN todo[t] : todo[t][i] = c}
  <2>1. \A u \in Turns : pc[u] \in AtCalls => u = t
    BY <1>1, <1>2
  <2>2. \A i \in DOMAIN todo[t] : todo[t][i][1] = t
    BY <1>2 DEF RunInv, RunOf, TodoIs
  <2> QED
    BY <1>2, <2>1, <2>2 DEF Open
<1>3. ASSUME NEW t \in Turns, pc[t] \in Active \ AtCalls PROVE Open = {}
  BY <1>1, <1>3 DEF Open, GateInv
<1>4. gate = None => Open = {}
  BY <1>1 DEF Open
<1> QED
  BY <1>2, <1>3, <1>4

LEMMA SpoiltGrows ==
  ASSUME NEW t \in Turns, Frame(t)
  PROVE  Spoilt \subseteq Spoilt'
  BY DEF Frame, Spoilt, Broken

LEMMA MemoryNext ==
  ASSUME NEW t \in Turns, LoopInv, Frame(t), Keeps
  PROVE  MemoryInv' /\ LoopInv'
<1>1. LoopInv'
  BY DEF LoopInv, Frame
<1>2. Begun' \in [Turns -> Int]
  BY <1>1, BegunIs, ConversationAssumption DEF LoopInv, Begun
<1>3. PICK open : /\ Paired(messages', Spoilt, open, Begun', ~cut')
                  /\ \A c \in open : c \in Open' \/ c[1] \in Spoilt'
  BY DEF Keeps
<1>4. (~cut') \in BOOLEAN /\ \A u \in Turns : Begun'[u] <= Begun'[u]
  BY <1>2
<1>5. Paired(messages', Spoilt', Open', Begun', ~cut')
  BY <1>2, <1>3, <1>4, SpoiltGrows, PairedMore
<1> QED
  BY <1>1, <1>5 DEF MemoryInv

\* What the other runs have in hand stays true.
LEMMA OthersNext ==
  ASSUME NEW t \in Turns, PcInv, GateInv, RunInv, Frame(t), GoesOn(t), messages' = messages \/ gate \in {None, t},
         NEW u \in Turns, u # t
  PROVE  RunOf(u)'
<1>0. /\ pc'[u] = pc[u] /\ todo'[u] = todo[u] /\ loopCount'[u] = loopCount[u] /\ resumed' = resumed /\ mode' = mode
      /\ RunOf(u)
  BY DEF Frame, RunInv
<1>1. ASSUME pc[u] \in AtCalls PROVE messages' = messages /\ (~cut' => ~cut)
  BY <1>1, ConversationAssumption DEF GateInv, Active, AtCalls, GoesOn
<1>2. pc[u] \in AtCalls => (TodoIs(u) /\ (~cut => Responded(u)) /\ (mode = "task" => InOrder(u)))'
  BY <1>0, <1>1 DEF RunOf, TodoIs, Responded, InOrder
<1>3. ASSUME Reasked(u) PROVE Reasked(u)'
  <2> SUFFICES ASSUME todo[u] # <<>>
               PROVE  \E c \in Calls :
                        /\ todo[u] = <<c>> /\ c[1] = u /\ c[2] <= loopCount[u] /\ u \in resumed
                        /\ Unanswered(messages', c)
                        /\ ~cut' => \E i \in DOMAIN messages' :
                                      /\ messages'[i].role = "assistant" /\ messages'[i].turn = u
                                      /\ Contains(messages'[i].calls, c)
    BY <1>0 DEF Reasked
  <2>1. PICK c \in Calls :
            /\ todo[u] = <<c>> /\ c[1] = u /\ c[2] <= loopCount[u] /\ u \in resumed
            /\ Unanswered(messages, c)
            /\ ~cut => \E i \in DOMAIN messages : /\ messages[i].role = "assistant" /\ messages[i].turn = u
                                                  /\ Contains(messages[i].calls, c)
    BY <1>3 DEF Reasked
  <2>2. Unanswered(messages', c)
    BY <2>1 DEF GoesOn
  <2>3. ASSUME ~cut'
        PROVE  \E i \in DOMAIN messages' : /\ messages'[i].role = "assistant" /\ messages'[i].turn = u
                                           /\ Contains(messages'[i].calls, c)
    <3>1. PICK i \in DOMAIN messages : /\ messages[i].role = "assistant" /\ messages[i].turn = u
                                       /\ Contains(messages[i].calls, c)
      BY <2>1, <2>3 DEF GoesOn
    <3>2. i \in DOMAIN messages' /\ messages'[i] = messages[i]
      BY <2>3, <3>1 DEF GoesOn
    <3> QED
      BY <3>1, <3>2
  <2> QED
    BY <2>1, <2>2, <2>3
<1> QED
  BY <1>0, <1>2, <1>3 DEF RunOf

LEMMA CheckpointNext ==
  ASSUME NEW t \in Turns, LoopInv, LoopInv', Frame(t), Checkpoint(t), CheckpointInv, ~cut' => ~cut
  PROVE  CheckpointInv'
<1> SUFFICES ASSUME mode' = "task", stored' # None PROVE CheckpointInv'
  BY DEF CheckpointInv
<1>0. /\ mode = "task" /\ (~cut) \in BOOLEAN /\ (~cut') \in BOOLEAN
      /\ loopCount \in [Turns -> 0..MaxLoops] /\ loopCount' \in [Turns -> 0..MaxLoops] /\ MaxLoops \in Nat
      /\ \A u \in Turns : loopCount[u] \in Int /\ loopCount'[u] \in Int
  BY ConversationAssumption DEF Frame, LoopInv
<1>1. CASE stored' = stored
  <2>1. /\ stored.turn \in Turns /\ stored.loops \in 0..MaxLoops
        /\ Paired(stored.messages, SpoiltAfter, {}, LoopsAfter, ~cut)
        /\ stored.pending = "asked" => Asks(stored.messages, stored.turn)
    BY <1>0, <1>1 DEF CheckpointInv
  <2>2. SpoiltAfter \subseteq SpoiltAfter'
    BY <1>1 DEF Frame, SpoiltAfter
  <2>3. LoopsAfter \in [Turns -> Int] /\ LoopsAfter' \in [Turns -> Int]
    BY <1>0, <1>1, <2>1 DEF LoopsAfter
  <2>4. \A u \in Turns : LoopsAfter[u] <= LoopsAfter'[u]
    <3> TAKE u \in Turns
    <3>1. CASE u = stored.turn
      BY <1>0, <1>1, <2>1, <3>1 DEF LoopsAfter
    <3>2. CASE u # stored.turn
      BY <1>0, <1>1, <2>1, <3>2 DEF LoopsAfter, Frame
    <3> QED
      BY <3>1, <3>2
  <2>5. Paired(stored.messages, SpoiltAfter', {}, LoopsAfter', ~cut')
    <3>1. \A c \in {} : c \in {} \/ c[1] \in SpoiltAfter'
      OBVIOUS
    <3>2. ~cut' => ~cut
      OBVIOUS
    <3>3. ASSUME NEW ms, NEW B, NEW B2, NEW L \in [Turns -> Int], NEW L2 \in [Turns -> Int],
                 Paired(ms, B, {}, L, ~cut), B \subseteq B2, \A u \in Turns : L[u] <= L2[u]
          PROVE  Paired(ms, B2, {}, L2, ~cut')
      <4> DEFINE open == {}
      <4>1. Paired(ms, B, open, L, ~cut) /\ \A c \in open : c \in open \/ c[1] \in B2
        BY <3>3
      <4> HIDE DEF open
      <4>2. Paired(ms, B2, open, L2, ~cut')
        BY <1>0, <3>2, <3>3, <4>1, PairedMore
      <4> QED
        BY <4>2 DEF open
    <3> QED
      BY <2>1, <2>2, <2>3, <2>4, <3>3
  <2> QED
    BY <1>1, <2>1, <2>5 DEF CheckpointInv
<1>2. CASE \E ms, pending, open :
              /\ stored' = Saved(t, ms, pending)
              /\ Paired(ms, Spoilt, open, Begun', ~cut')
              /\ \A c \in open : c[1] = t /\ pending # "final"
              /\ pending = "asked" => Asks(ms, t)
  <2>1. PICK ms, pending, open :
              /\ stored' = Saved(t, ms, pending)
              /\ Paired(ms, Spoilt, open, Begun', ~cut')
              /\ \A c \in open : c[1] = t /\ pending # "final"
              /\ pending = "asked" => Asks(ms, t)
    BY <1>2
  <2>2. stored'.turn = t /\ stored'.messages = ms /\ stored'.pending = pending /\ stored'.loops = loopCount'[t]
    BY <2>1 DEF Saved
  <2>3. Spoilt \subseteq SpoiltAfter'
    BY <2>2 DEF Frame, SpoiltAfter, Spoilt, Broken
  <2>4. \A c \in open : c[1] \in SpoiltAfter'
    BY <2>1, <2>2 DEF SpoiltAfter
  <2>5. LoopsAfter' = loopCount'
    BY <1>0, <2>2 DEF LoopsAfter
  <2>6. Begun' \in [Turns -> Int] /\ loopCount' \in [Turns -> Int] /\ \A u \in Turns : Begun'[u] <= loopCount'[u]
    BY <1>0 DEF Begun
  <2>7. Paired(ms, SpoiltAfter', {}, LoopsAfter', ~cut')
    BY <1>0, <2>1, <2>3, <2>4, <2>5, <2>6, PairedMore
  <2> QED
    BY <1>0, <2>1, <2>2, <2>7 DEF CheckpointInv
<1> QED
  BY <1>1, <1>2 DEF Checkpoint

LEMMA MovesKeep ==
  ASSUME NEW t \in Turns, PcInv, GateInv, LoopInv, RunInv, MemoryInv, CheckpointInv, Moves(t)
  PROVE  LoopInv' /\ RunInv' /\ MemoryInv' /\ CheckpointInv'
<1>1. LoopInv' /\ MemoryInv'
  BY MemoryNext DEF Moves
<1>2. CheckpointInv'
  BY <1>1, CheckpointNext DEF Moves, GoesOn
<1>3. \A u \in Turns : RunOf(u)'
  BY OthersNext DEF Moves
<1> QED
  BY <1>1, <1>2, <1>3 DEF RunInv

-----------------------------------------------------------------------------
(* The steps of one run *)

AllInv == PcInv /\ GateInv /\ LoopInv /\ RunInv /\ MemoryInv /\ CheckpointInv

\* The run goes on in its loop, or its loop counter is 1 more.
LEMMA FrameFrom ==
  ASSUME PcInv, LoopInv, NEW t \in Turns,
         pc[t] # "failed", resumed' = resumed, mode' = mode,
         NEW p \in Places, pc' = [pc EXCEPT ![t] = p],
         todo' = todo \/ \E q : todo' = [todo EXCEPT ![t] = q],
         \/ /\ loopCount' = loopCount
            /\ p \in {"summarize", "request", "model"} => pc[t] \in {"summarize", "request", "model"}
         \/ /\ loopCount[t] < MaxLoops /\ loopCount' = [loopCount EXCEPT ![t] = @ + 1]
            /\ pc[t] = "loop"
  PROVE  Frame(t) /\ pc'[t] = p
<1>0. MaxLoops \in Nat /\ loopCount \in [Turns -> 0..MaxLoops] /\ loopCount[t] \in 0..MaxLoops
  BY ConversationAssumption DEF LoopInv
<1>1. pc'[t] = p /\ \A u \in Turns \ {t} : pc'[u] = pc[u] /\ todo'[u] = todo[u] /\ loopCount'[u] = loopCount[u]
  BY <1>0 DEF PcInv
<1>2. loopCount' \in [Turns -> 0..MaxLoops]
  BY <1>0
<1>3. \A u \in Turns : loopCount[u] <= loopCount'[u]
  BY <1>0
<1>4. \A u \in Turns : Begun[u] <= Begun'[u]
  <2> TAKE u \in Turns
  <2>1. CASE u # t
    BY <1>0, <1>1, <2>1 DEF Begun
  <2>2. CASE u = t /\ loopCount' = loopCount
    BY <1>0, <1>1, <2>2 DEF Begun
  <2>3. CASE u = t /\ loopCount' = [loopCount EXCEPT ![t] = @ + 1] /\ pc[t] = "loop"
    BY <1>0, <1>1, <2>3 DEF Begun
  <2> QED
    BY <2>1, <2>2, <2>3
<1> QED
  BY <1>1, <1>2, <1>3, <1>4 DEF Frame

\* The Memory stays as it is.
LEMMA Quiet ==
  ASSUME AllInv, NEW t \in Turns, Frame(t), messages' = messages, cut' = cut,
         \/ pc[t] \notin AtCalls
         \/ pc'[t] \in AtCalls /\ todo'[t] = todo[t]
         \/ pc'[t] = "failed"
         \/ todo[t] = <<>>
  PROVE  Keeps /\ GoesOn(t)
<1>0. (~cut) \in BOOLEAN /\ (~cut') \in BOOLEAN
  BY Zenon
<1>1. ASSUME NEW c \in Open PROVE c \in Open' \/ c[1] \in Spoilt'
  <2>1. PICK u \in Turns : pc[u] \in AtCalls /\ \E i \in DOMAIN todo[u] : todo[u][i] = c
    BY DEF Open
  <2>2. c \in Calls
    BY DEF Open
  <2>3. CASE u # t
    BY <2>1, <2>2, <2>3 DEF Frame, Open
  <2>4. CASE u = t
    <3>1. c[1] = t
      BY <2>1, <2>4 DEF AllInv, RunInv, RunOf, TodoIs
    <3>2. CASE pc'[t] \in AtCalls /\ todo'[t] = todo[t]
      BY <2>1, <2>2, <2>4, <3>2 DEF Open
    <3>3. CASE pc'[t] = "failed"
      BY <3>1, <3>3 DEF Spoilt, Broken
    <3> QED
      BY <2>1, <2>4, <3>2, <3>3
  <2> QED
    BY <2>3, <2>4
<1>2. Paired(messages', Spoilt, Open, Begun', ~cut')
  <2>1. Begun \in [Turns -> Int] /\ Begun' \in [Turns -> Int]
    BY BegunIs DEF AllInv, LoopInv, Frame, Begun
  <2>2. Paired(messages, Spoilt, Open, Begun, ~cut)
    BY DEF AllInv, MemoryInv
  <2>3. \A u \in Turns : Begun[u] <= Begun'[u]
    BY DEF Frame
  <2>4. Paired(messages, Spoilt, Open, Begun', ~cut')
    BY <1>0, <2>1, <2>2, <2>3, PairedMore
  <2> QED
    BY <2>4
<1>3. GoesOn(t)
  BY DEF GoesOn
<1> QED
  BY <1>1, <1>2, <1>3 DEF Keeps

\* A run that is not at its calls and not waiting has nothing in hand.
LEMMA Idle ==
  ASSUME NEW t, pc'[t] \notin AtCalls \cup {"waiting", "restored"}, todo'[t] = <<>>,
         pc'[t] \in {"summarize", "request", "model"} => loopCount'[t] > 0
  PROVE  RunOf(t)'
  BY DEF RunOf

\* It moves, without a change of the Memory and the checkpoint.
LEMMA QuietMoves ==
  ASSUME AllInv, NEW t \in Turns,
         \/ Start(t) \/ CancelledWhileWaiting(t) \/ Loop(t) \/ LoopsExceeded(t) \/ SummaryFails(t)
         \/ Ask(t) \/ ModelFails(t) \/ CallsDone(t) \/ Cancel(t) \/ AnswerRestored(t)
  PROVE  Moves(t)
<1> USE DEF AllInv, PcInv, Places, Active, AtCalls, Goes, Ends, memory, run
<1>0. /\ messages' = messages /\ cut' = cut /\ stored' = stored /\ resumed' = resumed /\ mode' = mode
      /\ pc[t] # "failed" \/ UNCHANGED run
  BY DEF Start, CancelledWhileWaiting, Loop, LoopsExceeded, SummaryFails, KeepsAll, Ask, ModelFails, CallsDone,
         Cancel, AnswerRestored
<1>r. RunOf(t) /\ (pc[t] \in {"summarize", "request", "model"} => loopCount[t] > 0)
  BY DEF RunInv, RunOf
<1>l. loopCount \in [Turns -> 0..MaxLoops] /\ MaxLoops \in Nat
  BY ConversationAssumption DEF LoopInv
<1>q. ASSUME Frame(t), RunOf(t)',
             \/ pc[t] \notin AtCalls \/ (pc'[t] \in AtCalls /\ todo'[t] = todo[t]) \/ pc'[t] = "failed" \/ todo[t] = <<>>
      PROVE  Moves(t)
  BY <1>0, <1>q, Quiet DEF Moves, Checkpoint
<1>1. CASE Start(t)
  <2>1. Frame(t) /\ pc'[t] = "waiting"
    BY <1>0, <1>1, FrameFrom DEF Start
  <2>2. todo'[t] = <<>>
    BY <1>1, <1>r DEF Start, RunOf
  <2> QED
    BY <1>1, <1>q, <2>1, <2>2 DEF Start, RunOf, Reasked
<1>2. CASE CancelledWhileWaiting(t)
  <2>1. Frame(t) /\ pc'[t] = "failed" /\ todo'[t] = <<>>
    BY <1>0, <1>2, FrameFrom DEF CancelledWhileWaiting
  <2> QED
    BY <1>q, <2>1, Idle
<1>3. CASE Loop(t)
  <2>0. todo[t] = <<>>
    BY <1>3, <1>r DEF Loop, RunOf
  <2>1. \E p \in {"failed", "summarize", "request"} : pc' = [pc EXCEPT ![t] = p]
    BY <1>3 DEF Loop
  <2>2. PICK p \in {"failed", "summarize", "request"} : pc' = [pc EXCEPT ![t] = p]
    BY <2>1
  <2>3. Frame(t) /\ pc'[t] = p
    BY <1>0, <1>3, <2>2, FrameFrom DEF Loop
  <2>4. todo'[t] = <<>> /\ loopCount'[t] > 0
    BY <1>3, <1>l, <2>0 DEF Loop
  <2> QED
    BY <1>3, <1>q, <2>3, <2>4, Idle DEF Loop
<1>4. CASE LoopsExceeded(t) \/ ModelFails(t)
  <2>1. Frame(t) /\ pc'[t] = "failed" /\ todo'[t] = <<>>
    BY <1>0, <1>4, FrameFrom DEF LoopsExceeded, ModelFails
  <2> QED
    BY <1>q, <2>1, Idle
<1>5. CASE SummaryFails(t)
  <2>1. PICK p \in {"failed", "request"} : pc' = [pc EXCEPT ![t] = p]
    BY <1>5 DEF SummaryFails
  <2>2. Frame(t) /\ pc'[t] = p
    BY <1>0, <1>5, <2>1, FrameFrom DEF SummaryFails
  <2>3. todo'[t] = <<>> /\ loopCount'[t] > 0
    BY <1>5, <1>r DEF SummaryFails, RunOf
  <2> QED
    BY <1>5, <1>q, <2>2, <2>3, Idle DEF SummaryFails
<1>6. CASE Ask(t)
  <2>1. Frame(t) /\ pc'[t] = "model"
    BY <1>0, <1>6, FrameFrom DEF Ask
  <2>2. todo'[t] = <<>> /\ loopCount'[t] > 0
    BY <1>6, <1>r DEF Ask, RunOf
  <2> QED
    BY <1>6, <1>q, <2>1, <2>2, Idle DEF Ask
<1>7. CASE CallsDone(t)
  <2>1. Frame(t) /\ pc'[t] = "loop"
    BY <1>0, <1>7, FrameFrom DEF CallsDone
  <2>2. todo'[t] = <<>> /\ todo[t] = <<>>
    BY <1>7 DEF CallsDone
  <2> QED
    BY <1>7, <1>q, <2>1, <2>2, Idle
<1>8. CASE Cancel(t)
  <2>1. pc' = pc /\ todo' = todo /\ loopCount' = loopCount /\ pc[t] \notin Ended
    BY <1>8 DEF Cancel
  <2>2. pc[t] # "failed" /\ pc' = [pc EXCEPT ![t] = pc[t]] /\ pc[t] \in Places
    BY <2>1 DEF Ended
  <2>3. Frame(t)
    BY <1>0, <2>1, <2>2, FrameFrom
  <2>4. RunOf(t)'
    BY <1>0, <1>r, <2>1 DEF RunOf, TodoIs, Responded, InOrder, Reasked
  <2> QED
    BY <1>q, <2>1, <2>3, <2>4
<1>9. CASE AnswerRestored(t)
  <2>1. Frame(t) /\ pc'[t] = "waiting"
    BY <1>0, <1>9, FrameFrom DEF AnswerRestored
  <2>2. Reasked(t)'
    BY <1>0, <1>9, <1>r DEF AnswerRestored, RunOf, Reasked
  <2>3. RunOf(t)'
    BY <2>1, <2>2 DEF RunOf
  <2> QED
    BY <1>9, <1>q, <2>1, <2>3 DEF AnswerRestored
<1> QED
  BY <1>1, <1>2, <1>3, <1>4, <1>5, <1>6, <1>7, <1>8, <1>9

LEMMA Saves ==
  ASSUME NEW t, NEW pending, pending # "asked", NEW open, Paired(messages', Spoilt, open, Begun', ~cut'),
         \A c \in open : c[1] = t /\ pending # "final",
         Stores(t, pending) \/ MayStore(t, pending) \/ UNCHANGED stored
  PROVE  Checkpoint(t)
<1>1. stored' = stored \/ stored' = Saved(t, messages', pending)
  BY DEF Stores, MayStore
<1>2. CASE stored' = stored
  BY <1>2 DEF Checkpoint
<1>3. CASE stored' = Saved(t, messages', pending)
  BY <1>3 DEF Checkpoint
<1> QED
  BY <1>1, <1>2, <1>3

\* It changes the Memory while no run is at its calls, before or after.
LEMMA SettledMoves ==
  ASSUME AllInv, NEW t \in Turns, Frame(t), GoesOn(t), gate \in {None, t}, RunOf(t)',
         Paired(messages', Spoilt, Open, Begun, ~cut'), Open = {},
         NEW pending, pending # "asked", Stores(t, pending) \/ MayStore(t, pending) \/ UNCHANGED stored
  PROVE  Moves(t)
<1>0. (~cut') \in BOOLEAN
  BY Zenon
<1>1. Begun \in [Turns -> Int] /\ Begun' \in [Turns -> Int] /\ \A u \in Turns : Begun[u] <= Begun'[u]
  BY BegunIs DEF AllInv, LoopInv, Frame, Begun
<1>2. Paired(messages', Spoilt, Open, Begun', ~cut')
  <2>1. ASSUME NEW ms, NEW B, NEW open, NEW L \in [Turns -> Int], NEW L2 \in [Turns -> Int],
               Paired(ms, B, open, L, ~cut'), \A u \in Turns : L[u] <= L2[u]
        PROVE  Paired(ms, B, open, L2, ~cut')
    BY <1>0, <2>1, PairedMore
  <2> QED
    BY <1>1, <2>1
<1>3. Keeps
  BY <1>2 DEF Keeps
<1>4. Checkpoint(t)
  BY <1>2, Saves
<1> QED
  BY <1>3, <1>4 DEF Moves

LEMMA SummarizeMoves ==
  ASSUME AllInv, NEW t \in Turns, Summarize(t)
  PROVE  Moves(t)
<1> USE DEF AllInv, PcInv, Places, Active, AtCalls, Goes, Ends
<1>0. /\ pc[t] = "summarize" /\ messages' = Recent(messages) /\ cut' = TRUE /\ loopCount' = loopCount
      /\ resumed' = resumed /\ mode' = mode
      /\ Stores(t, "none") \/ MayStore(t, "none") \/ UNCHANGED stored
  BY DEF Summarize
<1>1. PICK p \in {"request", "failed"} : pc' = [pc EXCEPT ![t] = p]
  BY DEF Summarize
<1>2. Frame(t) /\ pc'[t] = p
  BY <1>0, <1>1, FrameFrom DEF Summarize
<1>3. todo[t] = <<>> /\ loopCount[t] > 0
  BY <1>0 DEF RunInv, RunOf
<1>4. RunOf(t)'
  BY <1>0, <1>2, <1>3, Idle DEF Summarize
<1>5. Open = {} /\ gate = t
  BY <1>0, OpenIs DEF GateInv
<1>6. (~cut) \in BOOLEAN /\ (~cut') \in BOOLEAN /\ ~(~cut')
  BY <1>0, Zenon
<1>7. Paired(messages, Spoilt, Open, Begun, ~cut)
  BY DEF MemoryInv
<1>8. PICK d \in Nat : Trimmed(messages, messages', 0, d)
  BY <1>0, <1>7, RecentIs DEF Paired, Typed
<1>9. Paired(messages', Spoilt, Open, Begun, ~cut') /\ \A c : Unanswered(messages, c) => Unanswered(messages', c)
  BY <1>6, <1>7, <1>8, TrimKeeps
<1>10. GoesOn(t)
  BY <1>0, <1>9 DEF GoesOn
<1> QED
  BY <1>0, <1>2, <1>4, <1>5, <1>9, <1>10, SettledMoves

LEMMA AnswerMoves ==
  ASSUME AllInv, NEW t \in Turns, Answer(t) \/ CutResponse(t)
  PROVE  Moves(t)
<1> USE DEF AllInv, PcInv, Places, Active, AtCalls, Goes, Ends
<1>0. /\ pc[t] = "model" /\ loopCount' = loopCount /\ resumed' = resumed /\ mode' = mode
      /\ \E pending \in {"none", "final"} : Stores(t, pending) \/ MayStore(t, pending) \/ UNCHANGED stored
  BY DEF Answer, CutResponse
<1>1. PICK p \in {"completed", "loop", "failed"} : pc' = [pc EXCEPT ![t] = p]
  BY DEF Answer, CutResponse
<1>2. Frame(t) /\ pc'[t] = p
  BY <1>0, <1>1, FrameFrom DEF Answer, CutResponse
<1>3. todo[t] = <<>>
  BY <1>0 DEF RunInv, RunOf
<1>4. todo'[t] = <<>>
  BY <1>3 DEF Answer, CutResponse
<1>5. RunOf(t)'
  BY <1>2, <1>4, Idle
<1>6. Open = {} /\ gate = t
  BY <1>0, OpenIs DEF GateInv
<1>7. Paired(messages, Spoilt, Open, Begun, ~cut)
  BY DEF MemoryInv
<1> DEFINE m == Said("assistant", t, <<>>)
<1> DEFINE n == Said("user", t, <<>>)
<1>8. /\ m \in Message /\ m.calls = <<>> /\ m.role # "tool"
      /\ n \in Message /\ n.calls = <<>> /\ n.role # "tool"
  <2>1. <<>> \in Seq(Calls)
    OBVIOUS
  <2> QED
    BY <2>1 DEF Said, Message
<1>9. Remember(<<m>>) \/ Remember(<<m, n>>)
  BY DEF Answer, CutResponse
<1> HIDE DEF m, n
<1>10. Paired(messages', Spoilt, Open, Begun, ~cut') /\ GoesOn(t)
  <2>1. CASE Remember(<<m>>)
    BY <1>7, <1>8, <2>1, PlainAdded
  <2>2. CASE Remember(<<m, n>>)
    BY <1>7, <1>8, <2>2, TwoAdded
  <2> QED
    BY <1>9, <2>1, <2>2
<1> QED
  BY <1>0, <1>2, <1>5, <1>6, <1>10, SettledMoves

\* A run begins, or goes on with the result of the call that it asked about.
LEMMA AcquireMoves ==
  ASSUME AllInv, NEW t \in Turns, Acquire(t)
  PROVE  Moves(t)
<1> USE DEF AllInv, PcInv, Places, Active, AtCalls, Goes, Ends
<1>0. /\ pc[t] = "waiting" /\ gate = None /\ loopCount' = loopCount /\ resumed' = resumed /\ mode' = mode
      /\ Remember(First(t)) /\ todo' = [todo EXCEPT ![t] = <<>>]
      /\ Stores(t, "none") \/ MayStore(t, "none") \/ UNCHANGED stored
  BY DEF Acquire
<1>1. PICK p \in {"loop", "failed"} : pc' = [pc EXCEPT ![t] = p]
  BY DEF Acquire
<1>2. Frame(t) /\ pc'[t] = p
  BY <1>0, <1>1, FrameFrom
<1>3. RunOf(t)'
  BY <1>0, <1>2, Idle
<1>4. Open = {}
  BY <1>0, OpenIs
<1>5. Paired(messages, Spoilt, Open, Begun, ~cut) /\ Reasked(t)
  BY <1>0 DEF MemoryInv, RunInv, RunOf
<1>6. Paired(messages', Spoilt, Open, Begun, ~cut') /\ GoesOn(t)
  <2>1. CASE t \notin resumed
    <3> DEFINE m == Said("user", t, <<>>)
    <3>1. <<>> \in Seq(Calls)
      OBVIOUS
    <3>2. m \in Message /\ m.calls = <<>> /\ m.role # "tool"
      BY <3>1 DEF Said, Message
    <3>3. Remember(<<m>>)
      BY <1>0, <2>1 DEF First
    <3> HIDE DEF m
    <3> QED
      BY <1>5, <3>2, <3>3, PlainAdded
  <2>2. CASE t \in resumed /\ todo[t] = <<>>
    <3>1. First(t) = <<>> /\ mode = "task" /\ messages \in Seq(Message)
      BY <1>5, <2>2 DEF First, LoopInv, Paired, Typed
    <3>2. messages' = messages /\ (~cut' => ~cut)
      <4>1. messages' = messages \o <<>> /\ (~cut' => ~cut)
        BY <1>0, <3>1 DEF Remember
      <4> QED
        BY <3>1, <4>1, ConcatEmptySeq
    <3>3. (~cut) \in BOOLEAN /\ (~cut') \in BOOLEAN
      BY Zenon
    <3>4. Paired(messages, Spoilt, Open, Begun, ~cut')
      BY <1>5, <3>2 DEF Paired
    <3> QED
      BY <3>2, <3>4 DEF GoesOn
  <2>3. CASE t \in resumed /\ todo[t] # <<>>
    <3>1. PICK c \in Calls :
              /\ todo[t] = <<c>> /\ c[1] = t /\ c[2] <= loopCount[t]
              /\ Unanswered(messages, c)
              /\ ~cut => \E i \in DOMAIN messages : /\ messages[i].role = "assistant" /\ messages[i].turn = t
                                                    /\ Contains(messages[i].calls, c)
      BY <1>5, <2>3 DEF Reasked
    <3> DEFINE m == Said("tool", t, <<c>>)
    <3>2. m \in Message /\ m.calls = <<c>> /\ m.role = "tool" /\ m.turn = t /\ m.calls[1] = c
      <4>1. <<c>> \in Seq(Calls) /\ <<c>>[1] = c
        OBVIOUS
      <4> QED
        BY <4>1 DEF Said, Message
    <3>3. First(t) = <<m>>
      BY <2>3, <3>1 DEF First
    <3>4. mode = "task" /\ messages \in Seq(Message)
      BY <1>5, <2>3 DEF LoopInv, Paired, Typed
    <3> HIDE DEF m
    <3>5. Grown(messages, messages', m) /\ (~cut' => ~cut)
      BY <1>0, <3>2, <3>3, <3>4, RememberOne
    <3>6. GoesOn(t)
      <4>1. Room(messages, messages)
        BY DEF Room
      <4> QED
        BY <1>5, <3>1, <3>2, <3>5, <4>1, GoesOnFrom
    <3>7. (~cut) \in BOOLEAN /\ (~cut') \in BOOLEAN
      BY Zenon
    <3>8. Paired(messages, Spoilt, Open \cup {c}, Begun, ~cut')
      <4>1. Begun \in [Turns -> Int] /\ \A u \in Turns : Begun[u] <= Begun[u]
        BY BegunIs
      <4> QED
        BY <1>5, <3>5, <3>7, <4>1, PairedMore
    <3>9. c[2] <= Begun[c[1]]
      BY <1>0, <3>1 DEF Begun
    <3>10. ASSUME ~cut' PROVE Belongs(messages', Spoilt, Len(messages'))
      <4>1. PICK i \in DOMAIN messages : /\ messages[i].role = "assistant" /\ messages[i].turn = t
                                         /\ Contains(messages[i].calls, c)
        BY <3>1, <3>5, <3>10
      <4>2. /\ i \in 1..(Len(messages') - 1) /\ messages'[i] = messages[i] /\ messages'[Len(messages')] = m
        BY <1>5, <3>5, <4>1, GrownIs DEF Grown, Paired
      <4>3. t \in Spoilt
        BY <2>3 DEF Spoilt, Broken
      <4> QED
        BY <3>2, <4>1, <4>2, <4>3 DEF Belongs
    <3>11. Paired(messages', Spoilt, Open, Begun, ~cut')
      BY <3>1, <3>2, <3>5, <3>7, <3>8, <3>9, <3>10, ResultKeeps
    <3> QED
      BY <3>6, <3>11
  <2> QED
    BY <2>1, <2>2, <2>3
<1> QED
  BY <1>0, <1>2, <1>3, <1>4, <1>6, SettledMoves

\* The model wants tools: its calls are those of this loop, and have no result.
LEMMA WantsMoves ==
  ASSUME AllInv, NEW t \in Turns, NEW n \in 1..MaxCalls, WantsTools(t, n)
  PROVE  Moves(t)
<1> USE DEF AllInv, PcInv, Places, Active, AtCalls, Goes
<1> DEFINE calls == [i \in 1..n |-> <<t, loopCount[t], i>>]
<1> DEFINE m == Said("assistant", t, calls)
<1> DEFINE open == {calls[i] : i \in 1..n}
<1>0. /\ pc[t] = "model" /\ loopCount' = loopCount /\ resumed' = resumed /\ mode' = mode /\ stored' = stored
      /\ Remember(<<m>>) /\ todo' = [todo EXCEPT ![t] = calls] /\ pc' = [pc EXCEPT ![t] = "tools"]
  BY DEF WantsTools
<1>1. Frame(t) /\ pc'[t] = "tools"
  <2> HIDE DEF calls, m
  <2> QED
    BY <1>0, FrameFrom
<1>2. loopCount[t] > 0 /\ loopCount[t] \in 1..MaxLoops /\ n \in Nat /\ MaxLoops \in Nat
  BY <1>0, ConversationAssumption DEF RunInv, RunOf, LoopInv
<1>3. calls \in Seq(Calls) /\ Len(calls) = n /\ DOMAIN calls = 1..n
  <2>1. \A i \in 1..n : <<t, loopCount[t], i>> \in Calls
    BY <1>2, ConversationAssumption DEF Calls
  <2>2. calls \in [1..n -> Calls]
    BY <2>1
  <2> QED
    BY <1>2, <2>2
<1>4. /\ \A i \in 1..n : calls[i] \in open /\ calls[i][1] = t /\ calls[i][2] = loopCount[t]
      /\ \A i, j \in 1..n : calls[i] = calls[j] => i = j
      /\ \A c \in open : c \in Calls /\ \E i \in 1..n : calls[i] = c
  BY <1>2, <1>3
<1>5. m \in Message /\ m.role = "assistant" /\ m.turn = t /\ m.calls = calls
  BY <1>3 DEF Said, Message
<1> HIDE DEF calls, m, open
<1>6. Open = {} /\ gate = t /\ Paired(messages, Spoilt, Open, Begun, ~cut)
  BY <1>0, OpenIs DEF GateInv, MemoryInv
<1>7. PICK mid : /\ Room(messages, mid) /\ Grown(mid, messages', m)
                 /\ (~cut' => ~cut /\ mid = messages) /\ (mode = "task" => mid = messages)
  BY <1>0, <1>5, <1>6, RememberOne DEF Paired, Typed
<1>8. Paired(mid, Spoilt, Open, Begun, ~cut') /\ \A u : (m.role = "tool" => m.calls[1][1] = u) => GoesOn(u)
  BY <1>6, <1>7, GoesOnFrom
<1>9. GoesOn(t)
  BY <1>5, <1>8
<1>10. /\ Begun \in [Turns -> Int] /\ Begun' \in [Turns -> Int] /\ \A u \in Turns : Begun[u] <= Begun'[u]
       /\ Begun'[t] = loopCount[t] /\ Begun[t] = loopCount[t] - 1
  <2>1. Begun \in [Turns -> Int] /\ Begun' \in [Turns -> Int] /\ \A u \in Turns : Begun[u] <= Begun'[u]
    BY <1>1, BegunIs DEF LoopInv, Frame, Begun
  <2> QED
    BY <1>0, <1>1, <2>1 DEF Begun
<1>11. Paired(messages', Spoilt, open, Begun', ~cut')
  <2>1. (~cut') \in BOOLEAN
    BY Zenon
  <2>2. Paired(mid, Spoilt, open, Begun', ~cut')
    <3>1. ASSUME NEW B, NEW none, none = {}, NEW L \in [Turns -> Int], NEW L2 \in [Turns -> Int],
                 Paired(mid, B, none, L, ~cut'), \A u \in Turns : L[u] <= L2[u]
          PROVE  Paired(mid, B, open, L2, ~cut')
      <4>1. \A c \in none : c \in open \/ c[1] \in B
        BY <3>1
      <4> QED
        BY <2>1, <3>1, <4>1, PairedMore
    <3> QED
      BY <1>6, <1>8, <1>10, <3>1
  <2>3. \A i \in DOMAIN m.calls : m.calls[i] \in open /\ m.calls[i][1] = m.turn /\ m.calls[i][2] <= Begun'[m.calls[i][1]]
    BY <1>2, <1>3, <1>4, <1>5, <1>10
  <2> QED
    BY <1>5, <1>7, <2>1, <2>2, <2>3, ResponseKeeps
<1>12. Keeps
  <2>1. \A c \in open : c \in Open'
    BY <1>0, <1>1, <1>3, <1>4 DEF Open
  <2> QED
    BY <1>11, <2>1 DEF Keeps
<1>13. Typed(mid) /\ Upto(mid, Begun) /\ DOMAIN messages' = 1..(Len(mid) + 1) /\ Len(mid) \in Nat
       /\ Len(messages') = Len(mid) + 1 /\ messages'[Len(mid) + 1] = m
  BY <1>7, <1>8, GrownIs DEF Paired, Grown
<1>14. ASSUME NEW i \in 1..n PROVE Unanswered(messages', calls[i])
  <2>1. ASSUME NEW j \in DOMAIN mid, IsResult(mid, j, calls[i]) PROVE FALSE
    <3>1. mid[j].calls[1] = calls[i] /\ 1 \in DOMAIN mid[j].calls
      BY <1>13, <2>1, TypedIs, MessageIs DEF Typed, IsResult
    <3>2. calls[i][2] <= Begun[calls[i][1]]
      BY <1>13, <3>1 DEF Upto
    <3> QED
      BY <1>2, <1>4, <1>10, <3>2
  <2>2. Unanswered(mid, calls[i])
    BY <2>1 DEF Unanswered
  <2> QED
    BY <1>5, <1>7, <1>13, <2>2, GrownUnanswered
<1>15. todo'[t] = calls
  BY <1>0
<1>16. TodoIs(t)'
  BY <1>0, <1>3, <1>4, <1>14, <1>15 DEF TodoIs
<1>17. Responded(t)'
  <2>1. \A i \in 1..n : Contains(calls, calls[i])
    BY <1>2, <1>3 DEF Contains
  <2> QED
    BY <1>3, <1>5, <1>13, <1>15, <2>1 DEF Responded
<1>18. InOrder(t)'
  <2>1. calls # <<>>
    BY <1>2, <1>3
  <2> DEFINE i == Len(mid) + 1
  <2>2. i \in DOMAIN messages' /\ Len(messages') - i = 0 /\ messages'[i] = m /\ (i + 1)..Len(messages') = {}
    BY <1>13
  <2>3. Len(calls) = 0 + Len(calls) /\ \A j \in DOMAIN calls : calls[j] = calls[0 + j]
    BY <1>2, <1>3
  <2> HIDE DEF i
  <2> QED
    BY <1>5, <1>15, <2>1, <2>2, <2>3 DEF InOrder
<1>19. RunOf(t)'
  BY <1>1, <1>16, <1>17, <1>18 DEF RunOf
<1> QED
  BY <1>0, <1>1, <1>6, <1>9, <1>12, <1>19 DEF Moves, Checkpoint

\* The result of the call in hand is added.
LEMMA ResultAdded ==
  ASSUME AllInv, NEW t \in Turns, pc[t] \in AtCalls, todo[t] # <<>>, Result(t),
         NEW c, c = todo[t][1]
  PROVE  /\ GoesOn(t) /\ c \in Calls /\ c[1] = t
         /\ Paired(messages', Spoilt, Open \ {c}, Begun, ~cut')
         /\ \A d : Unanswered(messages, d) /\ d # c => Unanswered(messages', d)
         /\ ~cut' \/ mode = "task" => Grown(messages, messages', Said("tool", t, <<c>>))
<1> USE DEF AllInv
<1>1. todo[t] \in Seq(Calls) /\ 1 \in DOMAIN todo[t] /\ Head(todo[t]) = c /\ TodoIs(t) /\ (~cut => Responded(t))
  <2>1. TodoIs(t) /\ (~cut => Responded(t))
    BY DEF RunInv, RunOf
  <2> QED
    BY <2>1 DEF TodoIs
<1>2. c \in Calls /\ c[1] = t /\ c[2] = loopCount[t] /\ Unanswered(messages, c)
  BY <1>1 DEF TodoIs
<1> DEFINE m == Said("tool", t, <<c>>)
<1>3. m \in Message /\ m.calls = <<c>> /\ m.role = "tool" /\ m.turn = t /\ m.calls[1] = c
  <2>1. <<c>> \in Seq(Calls) /\ <<c>>[1] = c
    BY <1>2
  <2> QED
    BY <2>1 DEF Said, Message
<1>4. Remember(<<m>>)
  BY <1>1 DEF Result
<1> HIDE DEF m
<1>5. Paired(messages, Spoilt, Open, Begun, ~cut)
  BY DEF MemoryInv
<1>6. PICK mid : /\ Room(messages, mid) /\ Grown(mid, messages', m)
                 /\ (~cut' => ~cut /\ mid = messages) /\ (mode = "task" => mid = messages)
  BY <1>3, <1>4, <1>5, RememberOne DEF Paired, Typed
<1>7. /\ Paired(mid, Spoilt, Open, Begun, ~cut')
      /\ \A d : Unanswered(messages, d) => Unanswered(mid, d)
      /\ \A d : Unanswered(messages, d) /\ ~(m.role = "tool" /\ m.calls[1] = d) => Unanswered(messages', d)
      /\ \A u : (m.role = "tool" => m.calls[1][1] = u) => GoesOn(u)
  BY <1>5, <1>6, GoesOnFrom
<1>8. GoesOn(t) /\ \A d : Unanswered(messages, d) /\ d # c => Unanswered(messages', d)
  BY <1>2, <1>3, <1>7
<1>9. c \in Open
  BY <1>1, <1>2 DEF Open
<1>10. c[2] <= Begun[c[1]]
  <2>1. Begun[t] = loopCount[t] /\ loopCount[t] \in Int
    BY BegunIs DEF Begun, AtCalls
  <2> QED
    BY <1>2, <2>1
<1>11. ASSUME ~cut' PROVE Belongs(messages', Spoilt, Len(messages'))
  <2>1. Typed(messages) /\ Grown(messages, messages', m) /\ Responded(t)
    BY <1>1, <1>5, <1>6, <1>11 DEF Paired
  <2>2. PICK i \in DOMAIN messages :
            /\ messages[i].role = "assistant"
            /\ \A n \in DOMAIN todo[t] : Contains(messages[i].calls, todo[t][n])
            /\ \A k \in (i + 1)..Len(messages) :
                \/ messages[k].role = "system"
                \/ messages[k].role = "tool" /\ Contains(messages[i].calls, messages[k].calls[1])
    BY <2>1 DEF Responded
  <2>3. /\ Len(messages) \in Nat /\ Len(messages') = Len(messages) + 1 /\ messages'[Len(messages')] = m
        /\ \A k \in 1..Len(messages) : messages'[k] = messages[k]
        /\ i \in 1..Len(messages)
    BY <2>1, <2>2, GrownIs DEF Grown
  <2>4. Contains(messages[i].calls, c)
    BY <1>1, <2>2
  <2>5. \A k \in (i + 1)..(Len(messages') - 1) : k \in (i + 1)..Len(messages) /\ messages'[k] = messages[k]
    BY <2>3
  <2> QED
    BY <1>3, <2>2, <2>3, <2>4, <2>5 DEF Belongs
<1>12. Paired(messages', Spoilt, Open \ {c}, Begun, ~cut')
  <2>1. (~cut') \in BOOLEAN /\ (Open \ {c}) \cup {c} = Open
    BY <1>9, Zenon
  <2>2. Unanswered(mid, c)
    BY <1>2, <1>7
  <2>3. Paired(mid, Spoilt, (Open \ {c}) \cup {c}, Begun, ~cut')
    BY <1>7, <2>1
  <2> QED
    BY <1>2, <1>3, <1>6, <1>10, <1>11, <2>1, <2>2, <2>3, ResultKeeps
<1> QED
  BY <1>2, <1>6, <1>8, <1>12 DEF m

\* Begun as it was: no loop begins at the calls of a response.
LEMMA SameBegun ==
  ASSUME AllInv, NEW t \in Turns, Frame(t), pc[t] \in AtCalls, pc'[t] \in AtCalls \cup {"failed"}, loopCount' = loopCount
  PROVE  Begun' = Begun
  BY DEF Frame, Begun, AtCalls

\* The run fails after a result: what it has left is open no more.
LEMMA FailedKeeps ==
  ASSUME AllInv, NEW t \in Turns, Frame(t), pc[t] \in AtCalls, pc'[t] = "failed", loopCount' = loopCount,
         NEW open, open \subseteq Open, Paired(messages', Spoilt, open, Begun, ~cut')
  PROVE  Keeps
<1>1. Paired(messages', Spoilt, open, Begun', ~cut')
  BY SameBegun
<1>2. \A c \in open : c[1] \in Spoilt'
  BY OpenIs DEF AllInv, Spoilt, Broken
<1> QED
  BY <1>1, <1>2 DEF Keeps

\* The question of a checkpoint is that of the next call.
LEMMA NextAsks ==
  ASSUME AllInv, mode = "task", NEW t \in Turns, pc[t] = "tools", todo[t] # <<>>
  PROVE  Asks(messages, t)
<1>1. TodoIs(t) /\ InOrder(t) /\ Typed(messages)
  BY DEF AllInv, RunInv, RunOf, AtCalls, MemoryInv, Paired
<1>2. PICK i \in DOMAIN messages :
          /\ messages[i].role = "assistant" /\ messages[i].turn = t
          /\ Len(messages[i].calls) = (Len(messages) - i) + Len(todo[t])
          /\ \A n \in DOMAIN todo[t] : todo[t][n] = messages[i].calls[(Len(messages) - i) + n]
          /\ \A j \in (i + 1)..Len(messages) : messages[j].role = "tool"
  BY <1>1 DEF InOrder
<1>3. Len(todo[t]) \in Nat \ {0} /\ 1 \in DOMAIN todo[t] /\ Unanswered(messages, todo[t][1])
  <2>1. todo[t] \in Seq(Calls)
    BY <1>1 DEF TodoIs
  <2>2. Len(todo[t]) \in Nat \ {0} /\ 1 \in DOMAIN todo[t]
    BY <2>1
  <2> QED
    BY <1>1, <2>2 DEF TodoIs
<1>4. (Len(messages) - i) < Len(messages[i].calls)
      /\ messages[i].calls[(Len(messages) - i) + 1] = todo[t][1]
  <2>1. Len(messages) - i \in Int
    BY <1>1, TypedIs
  <2> QED
    BY <1>2, <1>3, <2>1
<1> QED
  BY <1>2, <1>3, <1>4 DEF Asks

LEMMA CallMoves ==
  ASSUME AllInv, NEW t \in Turns, NEW kind \in {"tool", "asked"}, Call(t, kind)
  PROVE  Moves(t)
<1> USE DEF AllInv, PcInv, Places, Active, AtCalls, Goes, Ends
<1>0. /\ pc[t] = "tools" /\ todo[t] # <<>> /\ loopCount' = loopCount /\ resumed' = resumed /\ mode' = mode
      /\ gate = t
  BY DEF Call, GateInv
<1>1. Paired(messages, Spoilt, Open, Begun, ~cut) /\ \A c \in Open : c[1] = t
  BY <1>0, OpenIs DEF MemoryInv
<1>2. mode = "task" => Asks(messages, t)
  BY <1>0, NextAsks
<1>3. RunOf(t)
  BY DEF RunInv
<1>4. CASE /\ Goes(t, "tools", kind) /\ UNCHANGED <<memory, todo, gate>>
           /\ Stores(t, kind) \/ (kind = "tool" /\ UNCHANGED stored)
  <2>1. pc' = [pc EXCEPT ![t] = kind] /\ messages' = messages /\ cut' = cut /\ todo' = todo
    BY <1>4 DEF memory
  <2>2. Frame(t) /\ pc'[t] = kind
    BY <1>0, <2>1, FrameFrom
  <2>3. RunOf(t)'
    BY <1>0, <1>3, <2>1, <2>2 DEF RunOf, TodoIs, Responded, InOrder
  <2>4. Keeps /\ GoesOn(t)
    BY <1>0, <2>1, <2>2, Quiet
  <2>5. Checkpoint(t)
    <3>1. CASE stored' = stored
      BY <3>1 DEF Checkpoint
    <3>2. CASE mode = "task" /\ stored' = Saved(t, messages', kind)
      <4>1. Begun' = Begun
        BY <1>0, <2>2, SameBegun
      <4>2. Paired(messages, Spoilt, Open, Begun', ~cut')
        BY <1>1, <2>1, <4>1
      <4> QED
        BY <1>1, <1>2, <2>1, <3>2, <4>2 DEF Checkpoint
    <3> QED
      BY <1>4, <3>1, <3>2 DEF Stores
  <2> QED
    BY <1>0, <2>2, <2>3, <2>4, <2>5 DEF Moves
<1>5. CASE /\ mode = "task" /\ Ends(t, "failed")
           /\ IF kind = "asked" THEN Result(t) ELSE UNCHANGED memory
           /\ stored' \in {stored, Saved(t, messages, kind)}
  <2>1. pc' = [pc EXCEPT ![t] = "failed"] /\ todo' = [todo EXCEPT ![t] = <<>>]
    BY <1>5
  <2>2. Frame(t) /\ pc'[t] = "failed"
    BY <1>0, <2>1, FrameFrom
  <2>3. RunOf(t)'
    BY <2>1, <2>2, Idle
  <2>4. Keeps /\ GoesOn(t)
    <3>1. CASE UNCHANGED memory
      BY <2>2, <3>1, Quiet DEF memory
    <3>2. CASE Result(t)
      <4> DEFINE c == todo[t][1]
      <4>1. GoesOn(t) /\ Paired(messages', Spoilt, Open \ {c}, Begun, ~cut')
        BY <1>0, <3>2, ResultAdded
      <4>2. Open \ {c} \subseteq Open
        OBVIOUS
      <4> QED
        BY <1>0, <2>2, <4>1, <4>2, FailedKeeps
    <3> QED
      BY <1>5, <3>1, <3>2
  <2>5. Checkpoint(t)
    <3>1. CASE stored' = stored
      BY <3>1 DEF Checkpoint
    <3>2. CASE stored' = Saved(t, messages, kind)
      <4>1. Begun' = Begun
        BY <1>0, <2>2, SameBegun
      <4>2. ~cut' => ~cut
        BY <2>4 DEF GoesOn
      <4>3. Paired(messages, Spoilt, Open, Begun', ~cut')
        BY <1>1, <4>1, <4>2 DEF Paired
      <4> QED
        BY <1>1, <1>2, <1>5, <3>2, <4>3 DEF Checkpoint
    <3> QED
      BY <1>5, <3>1, <3>2
  <2> QED
    BY <1>0, <2>2, <2>3, <2>4, <2>5 DEF Moves
<1> QED
  BY <1>4, <1>5 DEF Call

LEMMA CallReturnsMoves ==
  ASSUME AllInv, NEW t \in Turns, CallReturns(t)
  PROVE  Moves(t)
<1> USE DEF AllInv, PcInv, Places, Active, AtCalls, Goes, Ends
<1> DEFINE c == todo[t][1]
<1> DEFINE m == Said("tool", t, <<c>>)
<1>0. /\ pc[t] \in {"tool", "asked"} /\ todo[t] # <<>> /\ loopCount' = loopCount /\ resumed' = resumed /\ mode' = mode
      /\ gate = t /\ Result(t)
  BY DEF CallReturns, GateInv
<1>1. /\ GoesOn(t) /\ c \in Calls /\ c[1] = t
      /\ Paired(messages', Spoilt, Open \ {c}, Begun, ~cut')
      /\ \A d : Unanswered(messages, d) /\ d # c => Unanswered(messages', d)
      /\ ~cut' \/ mode = "task" => Grown(messages, messages', m)
  BY <1>0, ResultAdded
<1>2. \A d \in Open : d[1] = t /\ \E i \in DOMAIN todo[t] : todo[t][i] = d
  BY <1>0, OpenIs
<1>3. RunOf(t) /\ Typed(messages)
  BY DEF RunInv, MemoryInv, Paired
<1>m. m.role = "tool" /\ m.calls[1] = c
  BY DEF Said
<1> HIDE DEF m
<1>4. CASE /\ pc' = [pc EXCEPT ![t] = "tools"]
           /\ todo' = [todo EXCEPT ![t] = Tail(@)]
           /\ Stores(t, "none")
  <2>1. Frame(t) /\ pc'[t] = "tools"
    BY <1>0, <1>4, FrameFrom
  <2>2. Begun' = Begun
    BY <1>0, <2>1, SameBegun
  <2>3. /\ todo[t] \in Seq(Calls) /\ todo'[t] \in Seq(Calls) /\ Len(todo[t]) \in Nat \ {0}
        /\ Len(todo'[t]) = Len(todo[t]) - 1
        /\ \A i \in DOMAIN todo'[t] : i \in Nat /\ i + 1 \in DOMAIN todo[t] /\ todo'[t][i] = todo[t][i + 1]
        /\ \A i \in DOMAIN todo[t] : i = 1 \/ (i - 1 \in DOMAIN todo'[t] /\ todo'[t][i - 1] = todo[t][i])
        /\ 1 \in DOMAIN todo[t]
    <3>1. todo[t] \in Seq(Calls) /\ todo'[t] = Tail(todo[t])
      BY <1>0, <1>3, <1>4 DEF RunOf, TodoIs
    <3>2. Len(todo[t]) \in Nat \ {0} /\ DOMAIN todo[t] = 1..Len(todo[t])
      BY <1>0, <3>1
    <3>3. /\ Tail(todo[t]) \in Seq(Calls) /\ Len(Tail(todo[t])) = Len(todo[t]) - 1
          /\ \A i \in 1..Len(Tail(todo[t])) : Tail(todo[t])[i] = todo[t][i + 1]
      BY <1>0, <3>1, HeadTailProperties
    <3>4. DOMAIN Tail(todo[t]) = 1..(Len(todo[t]) - 1)
      BY <3>3
    <3>5. \A i \in DOMAIN todo[t] : i = 1 \/ (i - 1 \in DOMAIN todo'[t] /\ todo'[t][i - 1] = todo[t][i])
      <4> TAKE i \in DOMAIN todo[t]
      <4>1. i = 1 \/ (i - 1 \in 1..(Len(todo[t]) - 1) /\ (i - 1) + 1 = i)
        BY <3>2
      <4> QED
        BY <3>1, <3>3, <3>4, <4>1
    <3> QED
      BY <3>1, <3>2, <3>3, <3>4, <3>5
  <2>4. TodoIs(t)'
    <3>1. TodoIs(t)
      BY <1>0, <1>3 DEF RunOf
    <3>2. \A i \in DOMAIN todo'[t] : todo'[t][i][1] = t /\ todo'[t][i][2] = loopCount'[t]
      BY <1>0, <2>3, <3>1 DEF TodoIs
    <3>3. \A i, j \in DOMAIN todo'[t] : todo'[t][i] = todo'[t][j] => i = j
      <4> TAKE i, j \in DOMAIN todo'[t]
      <4>1. todo[t][i + 1] = todo[t][j + 1] => i + 1 = j + 1
        BY <2>3, <3>1 DEF TodoIs
      <4> QED
        BY <2>3, <4>1
    <3>4. \A i \in DOMAIN todo'[t] : Unanswered(messages', todo'[t][i])
      <4> TAKE i \in DOMAIN todo'[t]
      <4>1. i \in Nat /\ i + 1 \in DOMAIN todo[t] /\ todo'[t][i] = todo[t][i + 1] /\ 1 \in DOMAIN todo[t] /\ i # 0
        <5>1. DOMAIN todo'[t] = 1..Len(todo'[t])
          BY <2>3
        <5> QED
          BY <2>3, <5>1
      <4>2. todo[t][i + 1] # c /\ Unanswered(messages, todo[t][i + 1])
        BY <3>1, <4>1 DEF TodoIs
      <4> QED
        BY <1>1, <4>1, <4>2
    <3> QED
      BY <2>3, <3>2, <3>3, <3>4 DEF TodoIs
  <2>5. ASSUME ~cut' \/ mode = "task"
        PROVE  /\ Len(messages) \in Nat /\ DOMAIN messages = 1..Len(messages)
               /\ Len(messages') = Len(messages) + 1 /\ DOMAIN messages' = 1..(Len(messages) + 1)
               /\ messages'[Len(messages) + 1] = m
               /\ \A k \in 1..Len(messages) : messages'[k] = messages[k]
    BY <1>1, <1>3, <2>5, GrownIs DEF Grown
  <2>6. ~cut' => Responded(t)'
    <3> SUFFICES ASSUME ~cut' PROVE Responded(t)'
      OBVIOUS
    <3>1. Responded(t)
      BY <1>0, <1>1, <1>3 DEF RunOf, GoesOn
    <3>2. PICK i \in DOMAIN messages :
              /\ messages[i].role = "assistant"
              /\ \A n \in DOMAIN todo[t] : Contains(messages[i].calls, todo[t][n])
              /\ \A k \in (i + 1)..Len(messages) :
                  \/ messages[k].role = "system"
                  \/ messages[k].role = "tool" /\ Contains(messages[i].calls, messages[k].calls[1])
      BY <3>1 DEF Responded
    <3>3. i \in DOMAIN messages' /\ messages'[i] = messages[i]
      BY <2>5, <3>2
    <3>4. \A n \in DOMAIN todo'[t] : Contains(messages[i].calls, todo'[t][n])
      BY <2>3, <3>2
    <3>5. \A k \in (i + 1)..Len(messages') :
              \/ messages'[k].role = "system"
              \/ messages'[k].role = "tool" /\ Contains(messages[i].calls, messages'[k].calls[1])
      <4> TAKE k \in (i + 1)..Len(messages')
      <4>1. CASE k = Len(messages) + 1
        BY <1>m, <2>3, <2>5, <3>2, <4>1
      <4>2. CASE k # Len(messages) + 1
        <5>1. k \in (i + 1)..Len(messages) /\ messages'[k] = messages[k]
          BY <2>5, <3>2, <4>2
        <5> QED
          BY <3>2, <5>1
      <4> QED
        BY <4>1, <4>2
    <3> QED
      BY <3>2, <3>3, <3>4, <3>5 DEF Responded
  <2>7. mode' = "task" => InOrder(t)'
    <3> SUFFICES ASSUME mode = "task" PROVE InOrder(t)'
      BY <1>0
    <3>1. InOrder(t)
      BY <1>0, <1>3 DEF RunOf
    <3>2. PICK i \in DOMAIN messages :
              /\ messages[i].role = "assistant" /\ messages[i].calls # <<>> /\ messages[i].turn = t
              /\ Len(messages[i].calls) = (Len(messages) - i) + Len(todo[t])
              /\ \A n \in DOMAIN todo[t] : todo[t][n] = messages[i].calls[(Len(messages) - i) + n]
              /\ \A j \in (i + 1)..Len(messages) : messages[j].role = "tool"
      BY <3>1 DEF InOrder
    <3>3. i \in DOMAIN messages' /\ messages'[i] = messages[i] /\ Len(messages') - i = (Len(messages) - i) + 1
      BY <2>5, <3>2
    <3>4. Len(messages[i].calls) = (Len(messages') - i) + Len(todo'[t])
      BY <2>3, <2>5, <3>2, <3>3
    <3>5. \A n \in DOMAIN todo'[t] : todo'[t][n] = messages[i].calls[(Len(messages') - i) + n]
      <4> TAKE n \in DOMAIN todo'[t]
      <4>1. (Len(messages) - i) + (n + 1) = (Len(messages') - i) + n
        BY <2>3, <2>5, <3>2, <3>3
      <4>2. todo'[t][n] = todo[t][n + 1] /\ todo[t][n + 1] = messages[i].calls[(Len(messages) - i) + (n + 1)]
        BY <2>3, <3>2
      <4> QED
        BY <4>1, <4>2, Zenon
    <3>6. \A j \in (i + 1)..Len(messages') : messages'[j].role = "tool"
      <4> TAKE j \in (i + 1)..Len(messages')
      <4>1. j = Len(messages) + 1 \/ (j \in (i + 1)..Len(messages) /\ messages'[j] = messages[j])
        BY <2>5, <3>2
      <4> QED
        BY <1>m, <2>5, <3>2, <4>1
    <3>7. /\ messages'[i].role = "assistant" /\ messages'[i].calls # <<>> /\ messages'[i].turn = t
          /\ Len(messages'[i].calls) = (Len(messages') - i) + Len(todo'[t])
          /\ \A n \in DOMAIN todo'[t] : todo'[t][n] = messages'[i].calls[(Len(messages') - i) + n]
      BY <3>2, <3>3, <3>4, <3>5
    <3> QED
      BY <3>3, <3>6, <3>7 DEF InOrder
  <2>8. RunOf(t)'
    BY <2>1, <2>4, <2>6, <2>7 DEF RunOf
  <2>9. Paired(messages', Spoilt, Open \ {c}, Begun', ~cut')
    BY <1>1, <2>2
  <2>10. Keeps
    <3>1. ASSUME NEW d \in Open \ {c} PROVE d \in Open'
      <4>1. PICK i \in DOMAIN todo[t] : todo[t][i] = d
        BY <1>2
      <4>2. i - 1 \in DOMAIN todo'[t] /\ todo'[t][i - 1] = d
        BY <2>3, <3>1, <4>1
      <4>3. d \in Calls
        BY DEF Open
      <4> QED
        BY <2>1, <4>2, <4>3 DEF Open
    <3> QED
      BY <2>9, <3>1 DEF Keeps
  <2>11. Checkpoint(t)
    BY <1>2, <1>4, <2>9, Saves
  <2> QED
    BY <1>0, <1>1, <2>1, <2>8, <2>10, <2>11 DEF Moves
<1>5. CASE mode = "task" /\ Ends(t, "failed") /\ MayStore(t, "none")
  <2>1. pc' = [pc EXCEPT ![t] = "failed"] /\ todo' = [todo EXCEPT ![t] = <<>>]
    BY <1>5
  <2>2. Frame(t) /\ pc'[t] = "failed"
    BY <1>0, <2>1, FrameFrom
  <2>3. RunOf(t)'
    BY <2>1, <2>2, Idle
  <2>4. Open \ {c} \subseteq Open
    OBVIOUS
  <2>5. Keeps
    BY <1>0, <1>1, <2>2, <2>4, FailedKeeps
  <2>6. Begun' = Begun
    BY <1>0, <2>2, SameBegun
  <2>7. Paired(messages', Spoilt, Open \ {c}, Begun', ~cut')
    BY <1>1, <2>6
  <2>8. Checkpoint(t)
    BY <1>2, <1>5, <2>7, Saves
  <2> QED
    BY <1>0, <1>1, <2>2, <2>3, <2>5, <2>8 DEF Moves
<1> QED
  BY <1>4, <1>5 DEF CallReturns

LEMMA StepMoves ==
  ASSUME AllInv, NEW t \in Turns, Start(t) \/ Run(t) \/ CallReturns(t) \/ Cancel(t) \/ AnswerRestored(t)
  PROVE  Moves(t)
<1>1. CASE \E n \in 1..MaxCalls : WantsTools(t, n)
  BY <1>1, WantsMoves
<1>2. CASE \E kind \in {"tool", "asked"} : Call(t, kind)
  BY <1>2, CallMoves
<1> QED
  BY <1>1, <1>2, QuietMoves, AcquireMoves, SummarizeMoves, AnswerMoves, CallReturnsMoves DEF Run

-----------------------------------------------------------------------------
(* Messages of the application, and crashes *)

LEMMA SystemKeeps ==
  ASSUME AllInv, AddSystemMessage
  PROVE  LoopInv' /\ RunInv' /\ MemoryInv' /\ CheckpointInv'
<1> USE DEF AllInv, run
<1> DEFINE m == Said("system", None, <<>>)
<1>0. /\ mode = "sync" /\ mode' = mode /\ Remember(<<m>>) /\ pc' = pc /\ todo' = todo /\ loopCount' = loopCount
      /\ resumed' = resumed
  BY DEF AddSystemMessage
<1>1. m \in Message /\ m.calls = <<>> /\ m.role = "system"
  <2>1. <<>> \in Seq(Calls)
    OBVIOUS
  <2> QED
    BY <2>1 DEF Said, Message
<1> HIDE DEF m
<1>2. /\ Paired(messages', Spoilt, Open, Begun, ~cut')
      /\ \A c : Unanswered(messages, c) => Unanswered(messages', c)
      /\ \A t : GoesOn(t)
      /\ ~cut' => Grown(messages, messages', m)
  BY <1>0, <1>1, PlainAdded DEF MemoryInv
<1>3. Spoilt' = Spoilt /\ Open' = Open /\ Begun' = Begun
  BY <1>0 DEF Spoilt, Broken, Open, Begun
<1>4. MemoryInv'
  BY <1>2, <1>3 DEF MemoryInv
<1>5. LoopInv'
  BY <1>0 DEF LoopInv
<1>6. CheckpointInv'
  BY <1>0 DEF CheckpointInv
<1>7. ASSUME NEW t \in Turns PROVE RunOf(t)'
  <2>0. RunOf(t)
    BY DEF RunInv
  <2>1. ASSUME TodoIs(t) PROVE TodoIs(t)'
    BY <1>0, <1>2, <2>1 DEF TodoIs
  <2>2. ASSUME Responded(t), ~cut' PROVE Responded(t)'
    <3>1. /\ Len(messages) \in Nat /\ DOMAIN messages = 1..Len(messages)
          /\ Len(messages') = Len(messages) + 1 /\ DOMAIN messages' = 1..(Len(messages) + 1)
          /\ messages'[Len(messages) + 1] = m
          /\ \A k \in 1..Len(messages) : messages'[k] = messages[k]
      BY <1>2, <2>2, GrownIs DEF Grown, MemoryInv, Paired
    <3>2. PICK i \in DOMAIN messages :
              /\ messages[i].role = "assistant"
              /\ \A n \in DOMAIN todo[t] : Contains(messages[i].calls, todo[t][n])
              /\ \A k \in (i + 1)..Len(messages) :
                  \/ messages[k].role = "system"
                  \/ messages[k].role = "tool" /\ Contains(messages[i].calls, messages[k].calls[1])
      BY <2>2 DEF Responded
    <3>3. i \in DOMAIN messages' /\ messages'[i] = messages[i]
      BY <3>1, <3>2
    <3>4. \A k \in (i + 1)..Len(messages') :
              \/ messages'[k].role = "system"
              \/ messages'[k].role = "tool" /\ Contains(messages[i].calls, messages'[k].calls[1])
      <4> TAKE k \in (i + 1)..Len(messages')
      <4>1. k = Len(messages) + 1 \/ (k \in (i + 1)..Len(messages) /\ messages'[k] = messages[k])
        BY <3>1, <3>2
      <4> QED
        BY <1>1, <3>1, <3>2, <4>1
    <3> QED
      BY <1>0, <3>2, <3>3, <3>4 DEF Responded
  <2>3. ASSUME Reasked(t) PROVE Reasked(t)'
    <3> SUFFICES ASSUME todo[t] # <<>>
                 PROVE  \E c \in Calls :
                          /\ todo[t] = <<c>> /\ c[1] = t /\ c[2] <= loopCount[t] /\ t \in resumed
                          /\ Unanswered(messages', c)
                          /\ ~cut' => \E i \in DOMAIN messages' :
                                        /\ messages'[i].role = "assistant" /\ messages'[i].turn = t
                                        /\ Contains(messages'[i].calls, c)
      BY <1>0 DEF Reasked
    <3>1. t \in resumed
      BY <2>3 DEF Reasked
    <3> QED
      BY <1>0, <3>1 DEF LoopInv
  <2>4. ~cut' => ~cut
    BY <1>2 DEF GoesOn
  <2> QED
    BY <1>0, <2>0, <2>1, <2>2, <2>3, <2>4 DEF RunOf
<1> QED
  BY <1>4, <1>5, <1>6, <1>7 DEF RunInv

\* The question of a Memory, and its call, which is Pending.
LEMMA PendingIs ==
  ASSUME NEW ms, NEW t, Typed(ms), Asks(ms, t), NEW c, c = Pending(ms)
  PROVE  /\ c \in Calls /\ c[1] = t /\ Unanswered(ms, c)
         /\ \E i \in DOMAIN ms : ms[i].role = "assistant" /\ ms[i].turn = t /\ Contains(ms[i].calls, c)
<1>1. PICK i \in DOMAIN ms : /\ ms[i].role = "assistant" /\ ms[i].turn = t
                             /\ (Len(ms) - i) < Len(ms[i].calls) /\ Unanswered(ms, ms[i].calls[(Len(ms) - i) + 1])
                             /\ \A j \in (i + 1)..Len(ms) : ms[j].role = "tool"
  BY DEF Asks
<1>2. /\ Len(ms) \in Nat /\ DOMAIN ms = 1..Len(ms) /\ i \in 1..Len(ms)
      /\ Len(ms[i].calls) \in Nat /\ DOMAIN ms[i].calls = 1..Len(ms[i].calls)
      /\ \A n \in DOMAIN ms[i].calls : ms[i].calls[n] \in Calls
  BY <1>1, TypedIs, MessageIs
<1> DEFINE Unfinished(j) == /\ ms[j].role = "assistant" /\ ms[j].calls # <<>>
                      /\ \A k \in (j + 1)..Len(ms) : ms[k].role = "tool"
<1>3. Unfinished(i)
  <2>1. ms[i].calls # <<>>
    BY <1>1, <1>2
  <2> QED
    BY <1>1, <2>1
<1>4. \A j \in DOMAIN ms : Unfinished(j) => j = i
  <2> SUFFICES ASSUME NEW j \in DOMAIN ms, Unfinished(j), j # i PROVE FALSE
    OBVIOUS
  <2>1. CASE j > i
    <3>1. j \in (i + 1)..Len(ms)
      BY <1>2, <2>1
    <3> QED
      BY <1>1, <3>1
  <2>2. CASE j < i
    <3>1. i \in (j + 1)..Len(ms)
      BY <1>2, <2>2
    <3> QED
      BY <1>1, <3>1
  <2> QED
    BY <1>2, <2>1, <2>2
<1>5. (CHOOSE j \in DOMAIN ms : Unfinished(j)) = i
  <2> HIDE DEF Unfinished
  <2> QED
    BY <1>3, <1>4
<1>6. c = ms[i].calls[Len(ms) - i + 1]
  BY <1>5 DEF Pending
<1>7. (Len(ms) - i) + 1 \in DOMAIN ms[i].calls
  BY <1>1, <1>2
<1>8. c \in Calls /\ Unanswered(ms, c) /\ Contains(ms[i].calls, c)
  BY <1>1, <1>2, <1>6, <1>7 DEF Contains
<1>9. c[1] = t
  BY <1>1, <1>6, <1>7 DEF Typed
<1> QED
  BY <1>1, <1>8, <1>9

LEMMA CrashKeeps ==
  ASSUME AllInv, StoredInv, Crash
  PROVE  LoopInv' /\ RunInv' /\ MemoryInv' /\ CheckpointInv'
<1> USE DEF AllInv
<1> DEFINE t == stored.turn
<1> DEFINE ms == stored.messages
<1>0. /\ mode = "task" /\ stored # None /\ mode' = mode /\ stored' = stored /\ cut' = cut /\ messages' = ms
      /\ stored.pending \in {"none", "asked", "tool", "final"}
      /\ t \in Turns /\ stored.loops \in 0..MaxLoops
      /\ Paired(ms, SpoiltAfter, {}, LoopsAfter, ~cut)
      /\ stored.pending = "asked" => Asks(ms, t)
  BY DEF Crash, StoredInv, CheckpointInv
<1>1. /\ pc' = [u \in Turns |-> IF u = t THEN Restored(stored.pending)
                                ELSE IF pc[u] = "idle" \/ pc[u] \in Ended THEN pc[u] ELSE "failed"]
      /\ resumed' = IF Restored(stored.pending) \in Ended THEN resumed ELSE resumed \cup {t}
      /\ todo' = [u \in Turns |-> IF u = t /\ stored.pending = "asked" THEN <<Pending(ms)>> ELSE <<>>]
      /\ loopCount' = LoopsAfter
  BY DEF Crash, LoopsAfter
<1> HIDE DEF ms, t
<1>2. /\ stored.pending = "asked" => Restored(stored.pending) = "restored"
      /\ stored.pending = "none" => Restored(stored.pending) = "waiting"
      /\ stored.pending = "final" => Restored(stored.pending) = "completed"
      /\ stored.pending = "tool" => Restored(stored.pending) = "failed"
  BY <1>0 DEF Restored
<1>3. LoopInv'
  <2>1. loopCount' \in [Turns -> 0..MaxLoops]
    BY <1>0, <1>1 DEF LoopInv, LoopsAfter
  <2>2. resumed' \subseteq Turns
    BY <1>0, <1>1 DEF LoopInv
  <2> QED
    BY <1>0, <2>1, <2>2 DEF LoopInv
<1>4. \A u \in Turns : pc'[u] \in {"idle", "waiting", "restored", "completed", "failed"}
  BY <1>0, <1>1, <1>2 DEF Ended
<1>5. Open' = {} /\ Begun' = loopCount'
  <2>1. Open' = {}
    BY <1>4 DEF Open, AtCalls
  <2>2. \A u \in Turns : pc'[u] \notin {"summarize", "request", "model"}
    BY <1>4
  <2>3. loopCount' \in [Turns -> 0..MaxLoops]
    BY <1>3 DEF LoopInv
  <2> QED
    BY <2>1, <2>2, <2>3 DEF Begun
<1>6. SpoiltAfter \subseteq Spoilt'
  <2> SUFFICES ASSUME NEW u \in SpoiltAfter PROVE u \in Spoilt'
    OBVIOUS
  <2>1. u \in Turns /\ (u \in resumed \/ (IF u = t THEN stored.pending # "final" ELSE pc[u] = "failed"))
    BY DEF SpoiltAfter, t
  <2>2. CASE u \in resumed
    BY <1>1, <2>1, <2>2 DEF Spoilt, Broken
  <2>3. CASE u = t /\ stored.pending # "final"
    BY <1>0, <1>1, <1>2, <2>1, <2>3 DEF Spoilt, Broken, Ended
  <2>4. CASE u # t /\ pc[u] = "failed"
    BY <1>1, <2>1, <2>4 DEF Spoilt, Broken, Ended
  <2> QED
    BY <2>1, <2>2, <2>3, <2>4
<1>7. MemoryInv'
  <2>1. (~cut) \in BOOLEAN /\ loopCount' \in [Turns -> Int]
    BY <1>3, ConversationAssumption DEF LoopInv
  <2>2. ASSUME NEW B, NEW L \in [Turns -> Int], Paired(ms, SpoiltAfter, {}, L, ~cut), SpoiltAfter \subseteq B
        PROVE  Paired(ms, B, {}, L, ~cut)
    <3>1. Typed(ms) /\ Unique(ms) /\ Answered(ms, SpoiltAfter, {}) /\ Upto(ms, L) /\ (~cut => AllBelong(ms, SpoiltAfter))
      BY <2>2 DEF Paired
    <3>2. Answered(ms, B, {})
      BY <2>2, <3>1 DEF Answered
    <3>3. AllBelong(ms, SpoiltAfter) => AllBelong(ms, B)
      BY <2>2 DEF AllBelong, Belongs
    <3> QED
      BY <3>1, <3>2, <3>3 DEF Paired
  <2>3. Paired(ms, Spoilt', {}, loopCount', ~cut)
    BY <1>0, <1>1, <1>6, <2>1, <2>2
  <2>4. Paired(messages', Spoilt', Open', Begun', ~cut')
    BY <1>0, <1>5, <2>3
  <2> QED
    BY <2>4 DEF MemoryInv
<1>8. CheckpointInv'
  <2>1. SpoiltAfter \subseteq SpoiltAfter' /\ stored'.turn = t
    <3>1. resumed \subseteq resumed' /\ \A u \in Turns : u # t /\ pc[u] = "failed" => pc'[u] = "failed"
      BY <1>1 DEF Ended
    <3> QED
      BY <1>0, <3>1 DEF SpoiltAfter, t
  <2>2. LoopsAfter' = LoopsAfter
    BY <1>0, <1>1, <1>3 DEF LoopsAfter, LoopInv
  <2>3. ASSUME NEW B, SpoiltAfter \subseteq B PROVE Paired(ms, B, {}, LoopsAfter, ~cut)
    <3>1. /\ Typed(ms) /\ Unique(ms) /\ Answered(ms, SpoiltAfter, {}) /\ Upto(ms, LoopsAfter)
          /\ (~cut => AllBelong(ms, SpoiltAfter))
      BY <1>0 DEF Paired
    <3>2. Answered(ms, B, {})
      BY <2>3, <3>1 DEF Answered
    <3>3. AllBelong(ms, SpoiltAfter) => AllBelong(ms, B)
      BY <2>3 DEF AllBelong, Belongs
    <3> QED
      BY <3>1, <3>2, <3>3 DEF Paired
  <2>4. Paired(stored'.messages, SpoiltAfter', {}, LoopsAfter', ~cut')
    BY <1>0, <2>1, <2>2, <2>3 DEF ms
  <2> QED
    BY <1>0, <2>4 DEF CheckpointInv, ms, t
<1>9. ASSUME NEW u \in Turns PROVE RunOf(u)'
  <2>1. Reasked(u)'
    <3> SUFFICES ASSUME todo'[u] # <<>>
                 PROVE  \E c \in Calls :
                          /\ todo'[u] = <<c>> /\ c[1] = u /\ c[2] <= loopCount'[u] /\ u \in resumed'
                          /\ Unanswered(messages', c)
                          /\ ~cut' => \E i \in DOMAIN messages' :
                                        /\ messages'[i].role = "assistant" /\ messages'[i].turn = u
                                        /\ Contains(messages'[i].calls, c)
      BY DEF Reasked
    <3>1. u = t /\ stored.pending = "asked" /\ todo'[u] = <<Pending(ms)>>
      BY <1>1
    <3> DEFINE c == Pending(ms)
    <3>2. /\ c \in Calls /\ c[1] = t /\ Unanswered(ms, c)
          /\ \E i \in DOMAIN ms : ms[i].role = "assistant" /\ ms[i].turn = t /\ Contains(ms[i].calls, c)
      BY <1>0, <3>1, PendingIs DEF Paired
    <3>3. u \in resumed'
      BY <1>1, <1>2, <3>1 DEF Ended
    <3>4. c[2] <= loopCount'[u]
      <4>1. PICK i \in DOMAIN ms : Contains(ms[i].calls, c)
        BY <3>2
      <4>2. PICK n \in DOMAIN ms[i].calls : ms[i].calls[n] = c
        <5>1. DOMAIN ms[i].calls = 1..Len(ms[i].calls)
          BY <1>0, <4>1, TypedIs, MessageIs DEF Paired
        <5> QED
          BY <4>1, <5>1 DEF Contains
      <4>3. c[2] <= LoopsAfter[c[1]]
        BY <1>0, <4>2 DEF Paired, Upto
      <4> QED
        BY <1>1, <3>1, <3>2, <4>3
    <3> HIDE DEF c
    <3>5. todo'[u] = <<c>>
      BY <3>1 DEF c
    <3> QED
      BY <1>0, <3>1, <3>2, <3>3, <3>4, <3>5
  <2>2. pc'[u] \notin AtCalls /\ pc'[u] \notin {"summarize", "request", "model"}
    BY <1>4 DEF AtCalls
  <2>3. pc'[u] \notin {"waiting", "restored"} => todo'[u] = <<>>
    BY <1>1, <1>2
  <2> QED
    BY <2>1, <2>2, <2>3 DEF RunOf
<1> QED
  BY <1>3, <1>7, <1>8, <1>9 DEF RunInv

-----------------------------------------------------------------------------
(* The theorem *)

LEMMA InitAllInv == Init => AllInv
<1> SUFFICES ASSUME Init PROVE AllInv
  OBVIOUS
<1>1. PcInv /\ GateInv
  BY InitIInv DEF IInv
<1>2. LoopInv
  BY ConversationAssumption DEF Init, LoopInv
<1>3. RunInv
  BY DEF Init, RunInv, RunOf, AtCalls
<1>4. Open = {}
  BY DEF Init, Open, AtCalls
<1>5. MemoryInv
  <2>1. messages = <<>> /\ DOMAIN messages = {} /\ messages \in Seq(Message)
    BY DEF Init
  <2> QED
    BY <2>1 DEF MemoryInv, Paired, Typed, Unique, Answered, Upto, AllBelong
<1>6. CheckpointInv
  BY DEF Init, CheckpointInv
<1> QED
  BY <1>1, <1>2, <1>3, <1>5, <1>6 DEF AllInv

LEMMA StepAllInv == IInv /\ AllInv /\ [Next]_vars => AllInv'
<1> SUFFICES ASSUME IInv, AllInv, [Next]_vars PROVE AllInv'
  OBVIOUS
<1>0. PcInv' /\ GateInv'
  BY StepIInv DEF IInv
<1>1. CASE UNCHANGED vars
  <2>1. /\ mode' = mode /\ messages' = messages /\ summary' = summary /\ cut' = cut /\ gate' = gate /\ pc' = pc
        /\ loopCount' = loopCount /\ todo' = todo /\ stored' = stored /\ resumed' = resumed
    BY <1>1 DEF vars, run, memory
  <2>2. LoopInv'
    BY <2>1 DEF AllInv, LoopInv
  <2>3. RunInv'
    BY <2>1 DEF AllInv, RunInv, RunOf, TodoIs, Responded, InOrder, Reasked
  <2>4. MemoryInv'
    BY <2>1 DEF AllInv, MemoryInv, Spoilt, Broken, Open, Begun
  <2>5. SpoiltAfter' = SpoiltAfter /\ LoopsAfter' = LoopsAfter
    BY <2>1 DEF SpoiltAfter, LoopsAfter
  <2>6. CheckpointInv'
    BY <2>1, <2>5 DEF AllInv, CheckpointInv
  <2> QED
    BY <1>0, <2>2, <2>3, <2>4, <2>6 DEF AllInv
<1>2. CASE AddSystemMessage
  BY <1>0, <1>2, SystemKeeps DEF AllInv
<1>3. CASE Crash
  BY <1>0, <1>3, CrashKeeps DEF AllInv, IInv
<1>4. ASSUME NEW t \in Turns, Start(t) \/ Run(t) \/ CallReturns(t) \/ Cancel(t) \/ AnswerRestored(t)
      PROVE  AllInv'
  <2>1. Moves(t)
    BY <1>4, StepMoves
  <2> QED
    BY <1>0, <2>1, MovesKeep DEF AllInv
<1> QED
  BY <1>1, <1>2, <1>3, <1>4 DEF Next

LEMMA AllInductive == Spec => [](IInv /\ AllInv)
<1>1. Init => IInv /\ AllInv
  BY InitIInv, InitAllInv
<1>2. (IInv /\ AllInv) /\ [Next]_vars => (IInv /\ AllInv)'
  BY StepIInv, StepAllInv
<1> QED
  BY <1>1, <1>2, PTL DEF Spec

\* While a request is made nothing is open.
LEMMA PairedAtRequest == AllInv => RequestPaired
<1> SUFFICES ASSUME AllInv, NEW t \in Turns, pc[t] = "request"
             PROVE  \A i \in DOMAIN messages :
                       /\ messages[i].role = "assistant" =>
                           \A n \in DOMAIN messages[i].calls : CallAnswered(i, messages[i].calls[n])
                       /\ messages[i].role = "tool" => cut \/ ResultBelongs(i)
  BY DEF RequestPaired
<1>1. Open = {}
  BY OpenIs DEF AllInv, Active, AtCalls
<1>2. /\ Typed(messages) /\ Unique(messages) /\ Answered(messages, Spoilt, {})
      /\ ~cut => AllBelong(messages, Spoilt)
  BY <1>1 DEF AllInv, MemoryInv, Paired
<1>3. ASSUME NEW i \in DOMAIN messages, messages[i].role = "assistant", NEW n \in DOMAIN messages[i].calls
      PROVE  CallAnswered(i, messages[i].calls[n])
  <2> DEFINE c == messages[i].calls[n]
  <2>1. \A j \in DOMAIN messages : messages[j].role = "tool" => messages[j].calls = <<messages[j].calls[1]>>
    <3> SUFFICES ASSUME NEW j \in DOMAIN messages, messages[j].role = "tool"
                 PROVE  messages[j].calls = <<messages[j].calls[1]>>
      OBVIOUS
    <3>1. messages[j].calls \in Seq(Calls) /\ Len(messages[j].calls) = 1
      BY <1>2, TypedIs, MessageIs DEF Typed
    <3> QED
      BY <3>1
  <2>2. \A j \in Results(c) : j \in DOMAIN messages /\ IsResult(messages, j, c)
    BY DEF Results, IsResult
  <2>3. \A j, k \in Results(c) : j = k
    BY <1>2, <2>2 DEF Unique, IsResult
  <2>4. Cardinality(Results(c)) <= 1
    <3>1. CASE Results(c) = {}
      BY <3>1, FS_EmptySet
    <3>2. CASE Results(c) # {}
      <4>1. PICK j : j \in Results(c)
        BY <3>2
      <4>2. Results(c) = {j}
        BY <2>3, <4>1
      <4>3. Cardinality({j}) = 1
        BY FS_Singleton, Zenon
      <4> QED
        BY <4>2, <4>3
    <3> QED
      BY <3>1, <3>2
  <2>5. ASSUME Results(c) = {} PROVE Broken(messages[i].turn)
    <3>1. CASE messages[i].turn \in Spoilt
      BY <3>1 DEF Spoilt
    <3>2. CASE \E j \in (i + 1)..Len(messages) : IsResult(messages, j, c)
      <4>1. PICK j \in (i + 1)..Len(messages) : IsResult(messages, j, c)
        BY <3>2
      <4>2. j \in DOMAIN messages
        BY <1>2, <1>3, <4>1, TypedIs
      <4>3. j \in Results(c)
        BY <2>1, <4>1, <4>2 DEF Results, IsResult
      <4> QED
        BY <2>5, <4>3
    <3> QED
      BY <1>2, <1>3, <3>1, <3>2 DEF Answered
  <2> HIDE DEF c
  <2>6. CallAnswered(i, c)
    BY <2>4, <2>5 DEF CallAnswered
  <2> QED
    BY <2>6 DEF c
<1>4. ASSUME NEW j \in DOMAIN messages, messages[j].role = "tool", ~cut PROVE ResultBelongs(j)
  <2>1. Belongs(messages, Spoilt, j)
    BY <1>2, <1>4 DEF AllBelong
  <2> QED
    BY <2>1 DEF Belongs, ResultBelongs, Spoilt
<1> QED
  BY <1>3, <1>4

\* In a request each call has one result, which follows it with no more between
\* than results of the same response and system messages; a call without one is
\* of a run that failed or was restored.  This holds for any number of runs,
\* loops, calls and crashes, and for a Memory of any capacity.
THEOREM CallsPaired == Spec => []RequestPaired
  BY AllInductive, PairedAtRequest, PTL

\* What is left of the types.
TypeInv ==
    /\ mode \in Modes /\ summary \in BOOLEAN /\ gate \in Turns \cup {None}
    /\ cancelled \in [Turns -> BOOLEAN] /\ todo \in [Turns -> Seq(Calls)]
    /\ stored # None => mode = "task" /\ stored.summary \in BOOLEAN
    /\ crashes \in 0..MaxCrashes /\ spoken \in 0..MaxSystem /\ cut \in BOOLEAN /\ lost = {}

LEMMA RunTypes ==
  ASSUME AllInv, TypeInv, NEW t \in Turns, Start(t) \/ Run(t) \/ CallReturns(t) \/ Cancel(t) \/ AnswerRestored(t)
  PROVE  TypeInv'
<1> USE DEF AllInv, TypeInv, Goes, Ends, Released, memory, run
<1>0. <<>> \in Seq(Calls) /\ (\A q \in Seq(Calls) : [todo EXCEPT ![t] = q] \in [Turns -> Seq(Calls)])
  OBVIOUS
<1>r. ASSUME NEW news, Remember(news) PROVE summary' = summary /\ lost' = lost /\ cut' \in BOOLEAN
  BY <1>r DEF Remember
<1>s. ASSUME NEW ms, NEW p, summary' \in BOOLEAN, mode = "task", stored' = Saved(t, ms, p)
      PROVE  stored'.summary \in BOOLEAN
  BY <1>s DEF Saved
<1>1. CASE \/ Start(t) \/ CancelledWhileWaiting(t) \/ Loop(t) \/ LoopsExceeded(t) \/ SummaryFails(t)
           \/ Ask(t) \/ ModelFails(t) \/ CallsDone(t) \/ Cancel(t) \/ AnswerRestored(t)
  <2>1. /\ mode' = mode /\ summary' = summary /\ stored' = stored /\ crashes' = crashes /\ spoken' = spoken
        /\ cut' = cut /\ lost' = lost /\ gate' \in {gate, None}
        /\ todo' = todo \/ todo' = [todo EXCEPT ![t] = <<>>]
        /\ cancelled' = cancelled \/ cancelled' = [cancelled EXCEPT ![t] = TRUE]
    BY <1>1 DEF Start, CancelledWhileWaiting, Loop, LoopsExceeded, SummaryFails, KeepsAll, Ask, ModelFails,
                CallsDone, Cancel, AnswerRestored
  <2>2. todo' \in [Turns -> Seq(Calls)]
    BY <1>0, <2>1
  <2>3. cancelled' \in [Turns -> BOOLEAN]
    BY <2>1
  <2> QED
    BY <2>1, <2>2, <2>3
<1>2. CASE Summarize(t)
  <2>1. /\ mode' = mode /\ summary' = TRUE /\ crashes' = crashes /\ spoken' = spoken /\ cancelled' = cancelled
        /\ cut' = TRUE /\ lost' = lost /\ gate' \in {gate, None}
        /\ todo' = todo \/ todo' = [todo EXCEPT ![t] = <<>>]
        /\ stored' = stored \/ (mode = "task" /\ stored' = Saved(t, messages', "none"))
    BY <1>2 DEF Summarize, Stores, MayStore
  <2>2. todo' \in [Turns -> Seq(Calls)]
    BY <1>0, <2>1
  <2>3. stored' # None => mode' = "task" /\ stored'.summary \in BOOLEAN
    BY <1>s, <2>1
  <2> QED
    BY <2>1, <2>2, <2>3
<1>3. CASE Acquire(t) \/ Answer(t) \/ CutResponse(t)
  <2>1. /\ mode' = mode /\ crashes' = crashes /\ spoken' = spoken /\ cancelled' = cancelled
        /\ gate' \in {gate, t, None}
        /\ todo' = todo \/ todo' = [todo EXCEPT ![t] = <<>>]
        /\ \E p : stored' = stored \/ (mode = "task" /\ stored' = Saved(t, messages', p))
        /\ \E news : Remember(news)
    BY <1>3 DEF Acquire, Answer, CutResponse, Stores, MayStore
  <2>2. todo' \in [Turns -> Seq(Calls)]
    BY <1>0, <2>1
  <2>3. summary' = summary /\ lost' = lost /\ cut' \in BOOLEAN
    BY <1>r, <2>1
  <2>4. stored' # None => mode' = "task" /\ stored'.summary \in BOOLEAN
    BY <1>s, <2>1, <2>3
  <2> QED
    BY <2>1, <2>2, <2>3, <2>4
<1>4. ASSUME NEW n \in 1..MaxCalls, WantsTools(t, n) PROVE TypeInv'
  <2> DEFINE calls == [i \in 1..n |-> <<t, loopCount[t], i>>]
  <2>1. /\ mode' = mode /\ crashes' = crashes /\ spoken' = spoken /\ cancelled' = cancelled
        /\ gate' = gate /\ todo' = [todo EXCEPT ![t] = calls] /\ stored' = stored /\ \E news : Remember(news)
        /\ pc[t] = "model"
    BY <1>4 DEF WantsTools
  <2>2. calls \in Seq(Calls)
    <3>1. loopCount[t] \in 1..MaxLoops /\ n \in Nat
      <4>1. loopCount[t] > 0 /\ loopCount[t] \in 0..MaxLoops
        BY <2>1 DEF RunInv, RunOf, LoopInv
      <4> QED
        BY <4>1, ConversationAssumption
    <3>2. \A i \in 1..n : <<t, loopCount[t], i>> \in Calls
      BY <3>1, ConversationAssumption DEF Calls
    <3>3. calls \in [1..n -> Calls]
      BY <3>2
    <3> HIDE DEF calls
    <3> QED
      BY <3>1, <3>3
  <2> HIDE DEF calls
  <2>3. todo' \in [Turns -> Seq(Calls)]
    BY <1>0, <2>1, <2>2
  <2>4. summary' = summary /\ lost' = lost /\ cut' \in BOOLEAN
    BY <1>r, <2>1
  <2> QED
    BY <2>1, <2>3, <2>4
<1>5. ASSUME NEW kind \in {"tool", "asked"}, Call(t, kind) PROVE TypeInv'
  <2>1. /\ mode' = mode /\ crashes' = crashes /\ spoken' = spoken /\ cancelled' = cancelled
        /\ gate' \in {gate, None}
        /\ todo' = todo \/ todo' = [todo EXCEPT ![t] = <<>>]
        /\ stored' = stored \/ (mode = "task" /\ \E ms : stored' = Saved(t, ms, kind))
        /\ (\E news : Remember(news)) \/ UNCHANGED memory
    BY <1>5 DEF Call, Stores, Result
  <2>2. todo' \in [Turns -> Seq(Calls)]
    BY <1>0, <2>1
  <2>3. summary' = summary /\ lost' = lost /\ cut' \in BOOLEAN
    BY <1>r, <2>1
  <2>4. stored' # None => mode' = "task" /\ stored'.summary \in BOOLEAN
    BY <1>s, <2>1, <2>3
  <2> QED
    BY <2>1, <2>2, <2>3, <2>4
<1>6. CASE CallReturns(t)
  <2>1. /\ mode' = mode /\ crashes' = crashes /\ spoken' = spoken /\ cancelled' = cancelled
        /\ gate' \in {gate, None} /\ pc[t] \in {"tool", "asked"}
        /\ todo' = [todo EXCEPT ![t] = Tail(todo[t])] \/ todo' = [todo EXCEPT ![t] = <<>>]
        /\ stored' = stored \/ (mode = "task" /\ stored' = Saved(t, messages', "none"))
        /\ \E news : Remember(news)
    BY <1>6 DEF CallReturns, Stores, MayStore, Result
  <2>2. Tail(todo[t]) \in Seq(Calls)
    <3>1. todo[t] \in Seq(Calls) /\ todo[t] # <<>>
      BY <2>1 DEF PcInv
    <3> QED
      BY <3>1
  <2>3. todo' \in [Turns -> Seq(Calls)]
    BY <1>0, <2>1, <2>2
  <2>4. summary' = summary /\ lost' = lost /\ cut' \in BOOLEAN
    BY <1>r, <2>1
  <2>5. stored' # None => mode' = "task" /\ stored'.summary \in BOOLEAN
    BY <1>s, <2>1, <2>4
  <2> QED
    BY <2>1, <2>3, <2>4, <2>5
<1> QED
  BY <1>1, <1>2, <1>3, <1>4, <1>5, <1>6 DEF Run

LEMMA StepTypes == IInv /\ AllInv /\ TypeInv /\ [Next]_vars => TypeInv'
<1> SUFFICES ASSUME IInv, AllInv, TypeInv, [Next]_vars PROVE TypeInv'
  OBVIOUS
<1>1. CASE UNCHANGED vars
  BY <1>1 DEF vars, run, memory, TypeInv
<1>2. CASE AddSystemMessage
  <2>1. /\ mode' = mode /\ gate' = gate /\ cancelled' = cancelled /\ todo' = todo /\ stored' = stored
        /\ crashes' = crashes /\ spoken' = spoken + 1 /\ spoken < MaxSystem
        /\ summary' = summary /\ lost' = lost /\ cut' \in BOOLEAN
    BY <1>2 DEF AddSystemMessage, Remember, run
  <2> QED
    BY <2>1, ConversationAssumption DEF TypeInv
<1>3. CASE Crash
  <2>1. /\ mode' = mode /\ gate' = None /\ cancelled' = [u \in Turns |-> FALSE] /\ stored' = stored
        /\ crashes' = crashes + 1 /\ crashes < MaxCrashes /\ spoken' = spoken
        /\ summary' = stored.summary /\ lost' = lost /\ cut' = cut /\ stored # None
    BY <1>3 DEF Crash
  <2>2. todo' \in [Turns -> Seq(Calls)]
    <3>1. todo' = [u \in Turns |-> IF u = stored.turn /\ stored.pending = "asked"
                                   THEN <<Pending(stored.messages)>> ELSE <<>>]
      BY <1>3 DEF Crash
    <3>2. stored.pending = "asked" => Pending(stored.messages) \in Calls
      BY <1>3, PendingIs DEF Crash, AllInv, CheckpointInv, Paired
    <3> QED
      BY <3>1, <3>2
  <2> QED
    BY <2>1, <2>2, ConversationAssumption DEF TypeInv
<1>4. ASSUME NEW t \in Turns, Start(t) \/ Run(t) \/ CallReturns(t) \/ Cancel(t) \/ AnswerRestored(t)
      PROVE  TypeInv'
  BY <1>4, RunTypes
<1> QED
  BY <1>1, <1>2, <1>3, <1>4 DEF Next

\* Type correctness for any number of runs, messages, calls and crashes.
THEOREM TypeCorrect == Spec => []TypeOK
<1>1. Init => TypeInv
  <2> SUFFICES ASSUME Init PROVE TypeInv
    OBVIOUS
  <2>1. <<>> \in Seq(Calls)
    OBVIOUS
  <2>2. todo \in [Turns -> Seq(Calls)] /\ cancelled \in [Turns -> BOOLEAN]
    BY <2>1 DEF Init
  <2>3. crashes \in 0..MaxCrashes /\ spoken \in 0..MaxSystem
    BY ConversationAssumption DEF Init
  <2> QED
    BY <2>2, <2>3 DEF Init, TypeInv
<1>2. IInv /\ AllInv /\ TypeInv => TypeOK
  <2> SUFFICES ASSUME IInv, AllInv, TypeInv PROVE TypeOK
    OBVIOUS
  <2>1. messages \in Seq(Message) /\ loopCount \in [Turns -> 0..MaxLoops] /\ resumed \subseteq Turns
    BY DEF AllInv, MemoryInv, Paired, Typed, LoopInv
  <2>2. stored # None => stored.turn \in Turns /\ stored.messages \in Seq(Message)
    BY DEF AllInv, TypeInv, CheckpointInv, Paired, Typed
  <2>3. pc \in [Turns -> {"idle", "waiting", "loop", "summarize", "request", "model", "tools",
                          "tool", "asked", "restored", "completed", "failed"}]
    BY DEF AllInv, PcInv, Places, Active
  <2> QED
    BY <2>1, <2>2, <2>3 DEF TypeOK, TypeInv
<1>3. TypeInv /\ (IInv /\ AllInv) /\ [Next]_vars => TypeInv'
  BY StepTypes
<1> QED
  BY <1>1, <1>2, <1>3, AllInductive, PTL DEF Spec

=============================================================================
