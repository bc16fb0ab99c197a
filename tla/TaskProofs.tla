----------------------------- MODULE TaskProofs -----------------------------
(***************************************************************************)
(* Proofs about the turns of one Task: TaskTurn, for any set of turns and  *)
(* any MaxEvents, and RestoredTurn, for any set of checkpoints and of      *)
(* calls of AnswerInteraction.                                             *)
(*                                                                         *)
(* TaskTurn: the inductive invariant IInv adds to TypeOK four facts: who   *)
(* holds emitMu and with which number (MutexInv), what has been stored for *)
(* a turn at each point of startTurn and runTurn (StoryInv), which         *)
(* required events may be unacknowledged there (AckInv), and what a caller *)
(* has found at each point of AnswerInteraction (CallerInv).                 *)
(*                                                                         *)
(* RestoredTurn: the turn is like a token.  It lies with the question      *)
(* while that is in Task.pending; then one starter holds it: the call that *)
(* took the question, or the restorer.  HolderInv says that it has one     *)
(* place, the rest of RestoredInv what a starter has seen and what is left *)
(* once the turn has ended.                                                *)
(***************************************************************************)
EXTENDS TaskTurn, RestoredTurn, TLAPS

-----------------------------------------------------------------------------
(* TaskTurn *)


InFlight(e) == number[e] # 0

MutexInv ==
    /\ \A e \in Emitters : InFlight(e) <=> emitMu = e
    /\ \A e \in Emitters : InFlight(e) => number[e] = sequence /\ AtEmit(e)
    /\ emitMu = Nobody => delivered = sequence
    /\ emitMu # Nobody => sequence = delivered + 1

AtWork == {"message.user", "run.event"}

StoryOf(t) ==
    /\ pc[t] \in {"idle", "starting", "announce"} => shown[t] = "nothing"
    /\ pc[t] = "message" => shown[t] = "turn.started"
    /\ pc[t] \in {"removing", "refused"}
          => shown[t] \in {"nothing", "turn.started", "message.user"}
    /\ pc[t] \in {"running", "event", "assistant"} => shown[t] \in AtWork
    /\ pc[t] = "register" => shown[t] = "run.event"
    /\ t \in asking => pc[t] \in {"running", "event", "register"} /\ shown[t] = "run.event"
    /\ pc[t] = "assistant" => eventType[t] = "turn.completed" /\ status[t] = "completed"
    /\ pc[t] = "terminal" =>
          \/ /\ eventType[t] = "turn.completed" /\ status[t] = "completed"
             /\ shown[t] = "message.assistant_completed"
          \/ /\ eventType[t] = "turn.failed" /\ status[t] = "failed"
             /\ shown[t] \in AtWork \cup {"message.assistant_completed"}
          \/ /\ eventType[t] = "turn.cancelled" /\ status[t] = "cancelled"
             /\ shown[t] \in AtWork
    /\ pc[t] \in {"settle", "done"} => Contract!Agrees(status[t], shown[t])

StoryInv == \A t \in Turns : StoryOf(t)

AckOf(t) ==
    /\ pc[t] \in {"idle", "starting", "announce"} => unacked[t] = {}
    /\ pc[t] \in {"message", "running", "register", "event", "assistant", "terminal",
                   "settle", "done"}
          => "turn.started" \notin unacked[t] /\ "message.user" \notin unacked[t]
    /\ pc[t] \in {"message", "running", "register", "event", "assistant"}
          => "message.assistant_completed" \notin unacked[t]
    /\ pc[t] \in {"message", "running", "register", "event", "assistant", "terminal"}
          => "turn.completed" \notin unacked[t]
    /\ pc[t] \in {"terminal", "settle", "done"} /\ status[t] = "completed"
          => /\ "message.assistant_completed" \notin unacked[t]
             /\ "turn.completed" \notin unacked[t]

AckInv == \A t \in Turns : AckOf(t)

CallerInv ==
    \A w \in Callers :
        /\ caller[w] = "idle" <=> found[w] = Nobody
        /\ w \in heard => caller[w] = "done"

IInv == TypeOK /\ MutexInv /\ StoryInv /\ AckInv /\ CallerInv

-----------------------------------------------------------------------------
LEMMA InitIInv == Init => IInv
<1> SUFFICES ASSUME Init PROVE IInv
  OBVIOUS
<1>1. TypeOK
  <2>1. 0 \in 0..MaxEvents
    BY MaxEventsAssumption
  <2>2. closed \in BOOLEAN
    BY DEF Init
  <2> QED
    BY <2>1, <2>2 DEF Init, TypeOK, Emitting, Outcomes, Kinds
<1>2. MutexInv
  BY TurnsAssumption DEF Init, MutexInv, InFlight, Emitters
<1>3. StoryInv
  BY DEF Init, StoryInv, StoryOf
<1>4. AckInv
  BY DEF Init, AckInv, AckOf
<1>5. CallerInv
  BY DEF Init, CallerInv
<1> QED
  BY <1>1, <1>2, <1>3, <1>4, <1>5 DEF IInv

-----------------------------------------------------------------------------
(* Type correctness *)

LEMMA TypeStep == TypeOK /\ [Next]_vars => TypeOK'
<1> SUFFICES ASSUME TypeOK, [Next]_vars PROVE TypeOK'
  OBVIOUS
<1> USE DEF TypeOK, At, answering, Emitters
<1>1. CASE Close
  BY <1>1 DEF Close
<1>2. CASE UNCHANGED vars
  BY <1>2 DEF vars
<1>0. ASSUME NEW e \in Emitters, EmitBegin(e) PROVE TypeOK'
  BY <1>0 DEF EmitBegin, TakeEmitMu
<1>3. ASSUME NEW t \in Turns, Step(t) PROVE TypeOK'
  <2>1. CASE Start(t) \/ Register(t) \/ Remove(t) \/ Settle(t) \/ CancelTurn(t)
    BY <2>1 DEF Start, Register, Remove, Settle, CancelTurn, Emitting
  <2>2. CASE EmitBegin(t)
    BY <1>0, <2>2
  <2>3. CASE RunEmits(t)
    BY <2>3, MaxEventsAssumption DEF RunEmits, Emitting
  <2>4. CASE RunSucceeds(t)
    BY <2>4 DEF RunSucceeds, Emitting, Outcomes
  <2>5. CASE RunFails(t)
    BY <2>5 DEF RunFails, Emitting, Outcomes, StatusOf
  <2>6. CASE EmitEnd(t)
    <3>1. PICK answer \in Answers :
              \/ Announced(t, answer) \/ UserMessageStored(t, answer)
              \/ RunEventReturns(t, answer) \/ AssistantReturns(t, answer)
              \/ TerminalReturns(t, answer)
      BY <2>6 DEF EmitEnd
    <3>2. PICK kind \in Kinds : SinkReturns(t, kind, answer)
      BY <3>1 DEF Announced, UserMessageStored, RunEventReturns, AssistantReturns,
                  TerminalReturns, Kinds
    <3>3. /\ closed' = closed /\ stopped' = stopped /\ sequence' = sequence
          /\ emitted' = emitted /\ emitMu' = Nobody
          /\ number' \in [Emitters -> Nat] /\ delivered' \in Nat
          /\ shown' \in [Turns -> Kinds \cup {"nothing"}]
          /\ unacked' \in [Turns -> SUBSET Kinds]
          /\ UNCHANGED <<asking, caller, found, heard>>
      BY <3>2 DEF SinkReturns, EmitReturns
    <3>4. /\ pc' \in [Turns -> Emitting \cup {"idle", "starting", "running", "register",
                               "removing", "settle", "done", "refused"}]
          /\ eventType' \in [Turns -> Outcomes]
          /\ status' \in [Turns -> {"running", "completed", "failed", "cancelled"}]
      BY <3>1 DEF Announced, UserMessageStored, RunEventReturns, AssistantReturns,
                  TerminalReturns, NextIfAcked, StatusAfterTerminal, Emitting, Outcomes
    <3> QED
      BY <3>3, <3>4
  <2>7. CASE RegisterQuestion(t) \/ LeaveQuestion(t)
    BY <2>7 DEF RegisterQuestion, LeaveQuestion
  <2> QED
    BY <1>3, <2>1, <2>2, <2>3, <2>4, <2>5, <2>6, <2>7 DEF Step
<1>4. ASSUME NEW w \in Callers, AnswerStep(w) PROVE TypeOK'
  <2>1. ASSUME NEW t \in Turns, FindQuestion(w, t) PROVE TypeOK'
    BY <2>1 DEF FindQuestion
  <2>2. ASSUME NEW answer \in Answers, ResponseReturns(w, answer) PROVE TypeOK'
    BY <2>2 DEF ResponseReturns, EmitReturns
  <2> QED
    BY <1>0, <1>4, <2>1, <2>2 DEF AnswerStep
<1> QED
  BY <1>1, <1>2, <1>3, <1>4 DEF Next

\* Every value a TaskTurn variable takes has its type.
THEOREM TypeCorrect == Spec => []TypeOK
<1>1. Init => TypeOK
  BY InitIInv DEF IInv
<1> QED
  BY <1>1, TypeStep, PTL DEF Spec
-----------------------------------------------------------------------------
(* The inductive invariant *)

\* The steps of turn t other than those of emit leave the mutex alone, and no
\* step of t touches another turn's program counter or history.
LEMMA MutexStep == IInv /\ [Next]_vars => MutexInv'
<1> SUFFICES ASSUME IInv, [Next]_vars PROVE MutexInv'
  OBVIOUS
<1> USE DEF IInv, TypeOK, MutexInv, InFlight, answering, Emitters, AtEmit
<1>1. CASE Close
  BY <1>1 DEF Close
<1>2. CASE UNCHANGED vars
  BY <1>2 DEF vars
<1>5. ASSUME NEW e \in Emitters, EmitBegin(e) PROVE MutexInv'
  BY <1>5, TurnsAssumption DEF EmitBegin, TakeEmitMu
<1>6. ASSUME NEW e \in Emitters, EmitReturns(e),
             \A u \in Turns : u # e => pc'[u] = pc[u],
             \A w \in Callers : w # e => caller'[w] = caller[w]
      PROVE  MutexInv'
  BY <1>6, TurnsAssumption DEF EmitReturns
<1>3. ASSUME NEW t \in Turns, Step(t) PROVE MutexInv'
  <2>1. CASE CancelTurn(t) \/ LeaveQuestion(t)
    BY <2>1 DEF CancelTurn, LeaveQuestion
  <2>2. CASE \/ Start(t) \/ Register(t) \/ Remove(t) \/ RegisterQuestion(t)
             \/ RunEmits(t) \/ RunSucceeds(t) \/ RunFails(t) \/ Settle(t)
    <3>1. pc[t] \notin Emitting /\ pc' = [pc EXCEPT ![t] = pc'[t]]
      BY <2>2 DEF Start, Register, Remove, RegisterQuestion, RunEmits, RunSucceeds,
                  RunFails, Settle, At, Emitting
    <3>2. UNCHANGED <<emitMu, sequence, number, delivered, caller>>
      BY <2>2 DEF Start, Register, Remove, RegisterQuestion, RunEmits, RunSucceeds,
                  RunFails, Settle
    <3> QED
      BY <3>1, <3>2, TurnsAssumption
  <2>3. CASE EmitBegin(t)
    BY <1>5, <2>3
  <2>4. CASE EmitEnd(t)
    <3>1. PICK kind, answer : SinkReturns(t, kind, answer)
      BY <2>4 DEF EmitEnd, Announced, UserMessageStored, RunEventReturns,
                  AssistantReturns, TerminalReturns
    <3>2. pc' = [pc EXCEPT ![t] = pc'[t]]
      BY <2>4 DEF EmitEnd, Announced, UserMessageStored, RunEventReturns,
                  AssistantReturns, TerminalReturns, At
    <3>3. EmitReturns(t) /\ caller' = caller
      BY <3>1 DEF SinkReturns
    <3> QED
      BY <1>6, <3>2, <3>3
  <2> QED
    BY <1>3, <2>1, <2>2, <2>3, <2>4 DEF Step
<1>4. ASSUME NEW w \in Callers, AnswerStep(w) PROVE MutexInv'
  <2>1. ASSUME NEW t \in Turns, FindQuestion(w, t) PROVE MutexInv'
    BY <2>1 DEF FindQuestion
  <2>2. ASSUME NEW answer \in Answers, ResponseReturns(w, answer) PROVE MutexInv'
    BY <1>6, <2>2 DEF ResponseReturns
  <2> QED
    BY <1>4, <1>5, <2>1, <2>2 DEF AnswerStep
<1> QED
  BY <1>1, <1>2, <1>3, <1>4 DEF Next

\* A step of turn t changes what StoryOf and AckOf speak of for t only, and a
\* step of a caller for no turn.
LEMMA OthersKept ==
  ASSUME NEW t \in Turns, NEW u \in Turns, u # t, Step(t)
  PROVE  TypeOK => /\ UNCHANGED <<pc[u], shown[u], eventType[u], status[u], unacked[u]>>
                   /\ u \in asking' <=> u \in asking
  BY DEF Step, Start, Register, Remove, RunEmits, RegisterQuestion, LeaveQuestion,
         RunSucceeds, RunFails, Settle, CancelTurn, EmitBegin, EmitEnd, Announced,
         UserMessageStored, RunEventReturns, AssistantReturns, TerminalReturns,
         StatusAfterTerminal, SinkReturns, EmitReturns, At, TypeOK

LEMMA CallersKeep ==
  ASSUME NEW w \in Callers, AnswerStep(w)
  PROVE  UNCHANGED <<pc, shown, eventType, status, unacked, asking>>
  BY DEF AnswerStep, FindQuestion, EmitBegin, ResponseReturns, EmitReturns

LEMMA CallerStep == IInv /\ [Next]_vars => CallerInv'
<1> SUFFICES ASSUME IInv, [Next]_vars PROVE CallerInv'
  OBVIOUS
<1> USE DEF IInv, TypeOK, CallerInv
<1>1. CASE UNCHANGED answering
  BY <1>1 DEF answering
<1>2. CASE UNCHANGED vars \/ Close
  BY <1>1, <1>2 DEF vars, Close
<1>3. ASSUME NEW t \in Turns, Step(t) PROVE CallerInv'
  <2>1. UNCHANGED answering
    BY <1>3 DEF Step, Start, Register, Remove, RunEmits, RegisterQuestion, LeaveQuestion,
         RunSucceeds, RunFails, Settle, CancelTurn, EmitBegin, EmitEnd, Announced,
         UserMessageStored, RunEventReturns, AssistantReturns, TerminalReturns, SinkReturns
  <2> QED
    BY <1>1, <2>1
<1>4. ASSUME NEW w \in Callers, AnswerStep(w) PROVE CallerInv'
  <2>1. ASSUME NEW t \in Turns, FindQuestion(w, t) PROVE CallerInv'
    BY <2>1, TurnsAssumption DEF FindQuestion
  <2>2. ASSUME NEW answer \in Answers, ResponseReturns(w, answer) PROVE CallerInv'
    BY <2>2 DEF ResponseReturns
  <2>3. CASE EmitBegin(w)
    BY <1>1, <2>3 DEF EmitBegin
  <2> QED
    BY <1>4, <2>1, <2>2, <2>3 DEF AnswerStep
<1> QED
  BY <1>2, <1>3, <1>4 DEF Next

LEMMA StoryStep == IInv /\ [Next]_vars => StoryInv'
<1> SUFFICES ASSUME IInv, [Next]_vars PROVE StoryInv'
  OBVIOUS
<1> USE DEF StoryOf, Contract!Agrees
<1>1. CASE Close
  BY <1>1 DEF Close, IInv, StoryInv
<1>2. CASE UNCHANGED vars
  BY <1>2 DEF vars, IInv, StoryInv
<1>3. ASSUME NEW t \in Turns, Step(t) PROVE StoryOf(t)'
  <2> USE DEF At, IInv, TypeOK, StoryInv
  <2>1. CASE Start(t) \/ Register(t) \/ Remove(t) \/ Settle(t)
    BY <2>1 DEF Start, Register, Remove, Settle
  <2>2. CASE EmitBegin(t) \/ CancelTurn(t)
    BY <2>2 DEF EmitBegin, CancelTurn
  <2>5. CASE RegisterQuestion(t)
    <3>1. pc[t] = "register" /\ pc'[t] = "running" /\ shown'[t] = "run.event"
      BY <2>5 DEF RegisterQuestion
    <3> QED
      BY <3>1 DEF AtWork
  <2>6. CASE LeaveQuestion(t)
    BY <2>6 DEF LeaveQuestion
  <2>3. CASE RunEmits(t) \/ RunSucceeds(t) \/ RunFails(t)
    BY <2>3 DEF RunEmits, RunSucceeds, RunFails, StatusOf, AtWork
  <2>4. CASE EmitEnd(t)
    <3>1. PICK answer \in Answers :
              \/ Announced(t, answer) \/ UserMessageStored(t, answer)
              \/ RunEventReturns(t, answer) \/ AssistantReturns(t, answer)
              \/ TerminalReturns(t, answer)
      BY <2>4 DEF EmitEnd
    <3>2. CASE Announced(t, answer) \/ UserMessageStored(t, answer)
      BY <3>2 DEF Announced, UserMessageStored, NextIfAcked, SinkReturns, EmitReturns, AtWork
    <3>3. CASE RunEventReturns(t, answer)
      BY <3>3 DEF RunEventReturns, SinkReturns, EmitReturns, AtWork
    <3>4. CASE AssistantReturns(t, answer)
      BY <3>4 DEF AssistantReturns, SinkReturns, EmitReturns, AtWork
    <3>5. CASE TerminalReturns(t, answer)
      BY <3>5 DEF TerminalReturns, StatusAfterTerminal, SinkReturns, EmitReturns, AtWork
    <3> QED
      BY <3>1, <3>2, <3>3, <3>4, <3>5
  <2> QED
    BY <1>3, <2>1, <2>2, <2>3, <2>4, <2>5, <2>6 DEF Step
<1>4. ASSUME NEW t \in Turns, Step(t) PROVE StoryInv'
  <2>1. ASSUME NEW u \in Turns, u # t PROVE StoryOf(u)'
    BY <1>4, <2>1, OthersKept DEF IInv, StoryInv
  <2> QED
    BY <1>3, <1>4, <2>1 DEF StoryInv
<1>5. ASSUME NEW w \in Callers, AnswerStep(w) PROVE StoryInv'
  BY <1>5, CallersKeep DEF IInv, StoryInv
<1> QED
  BY <1>1, <1>2, <1>4, <1>5 DEF Next

LEMMA AckStep == IInv /\ [Next]_vars => AckInv'
<1> SUFFICES ASSUME IInv, [Next]_vars PROVE AckInv'
  OBVIOUS
<1> USE DEF AckOf
<1>1. CASE Close
  BY <1>1 DEF Close, IInv, AckInv
<1>2. CASE UNCHANGED vars
  BY <1>2 DEF vars, IInv, AckInv
<1>3. ASSUME NEW t \in Turns, Step(t) PROVE AckOf(t)'
  <2> USE DEF At, IInv, TypeOK, AckInv
  <2>1. CASE Start(t) \/ Register(t) \/ Remove(t) \/ Settle(t)
    BY <2>1 DEF Start, Register, Remove, Settle
  <2>2. CASE EmitBegin(t) \/ CancelTurn(t) \/ RegisterQuestion(t) \/ LeaveQuestion(t)
    BY <2>2 DEF EmitBegin, CancelTurn, RegisterQuestion, LeaveQuestion
  <2>3. CASE RunEmits(t) \/ RunSucceeds(t) \/ RunFails(t)
    BY <2>3 DEF RunEmits, RunSucceeds, RunFails, StatusOf
  <2>4. CASE EmitEnd(t)
    <3>1. PICK answer \in Answers :
              \/ Announced(t, answer) \/ UserMessageStored(t, answer)
              \/ RunEventReturns(t, answer) \/ AssistantReturns(t, answer)
              \/ TerminalReturns(t, answer)
      BY <2>4 DEF EmitEnd
    <3>2. CASE Announced(t, answer)
      BY <3>2 DEF Announced, NextIfAcked, SinkReturns, EmitReturns
    <3>3. CASE UserMessageStored(t, answer)
      BY <3>3 DEF UserMessageStored, NextIfAcked, SinkReturns, EmitReturns
    <3>4. CASE RunEventReturns(t, answer)
      BY <3>4 DEF RunEventReturns, SinkReturns, EmitReturns
    <3>5. CASE AssistantReturns(t, answer)
      BY <3>5 DEF AssistantReturns, SinkReturns, EmitReturns
    <3>6. CASE TerminalReturns(t, answer)
      BY <3>6 DEF TerminalReturns, StatusAfterTerminal, SinkReturns, EmitReturns, StoryInv, StoryOf
    <3> QED
      BY <3>1, <3>2, <3>3, <3>4, <3>5, <3>6
  <2> QED
    BY <1>3, <2>1, <2>2, <2>3, <2>4 DEF Step
<1>4. ASSUME NEW t \in Turns, Step(t) PROVE AckInv'
  <2>1. ASSUME NEW u \in Turns, u # t PROVE AckOf(u)'
    BY <1>4, <2>1, OthersKept DEF IInv, AckInv
  <2> QED
    BY <1>3, <1>4, <2>1 DEF AckInv
<1>5. ASSUME NEW w \in Callers, AnswerStep(w) PROVE AckInv'
  BY <1>5, CallersKeep DEF IInv, AckInv
<1> QED
  BY <1>1, <1>2, <1>4, <1>5 DEF Next

LEMMA Inductive == Spec => []IInv
<1>1. IInv /\ [Next]_vars => IInv'
  BY TypeStep, MutexStep, StoryStep, AckStep, CallerStep DEF IInv
<1> QED
  BY <1>1, InitIInv, PTL DEF Spec

-----------------------------------------------------------------------------
(* The theorems *)

\* No required event is crossed unacknowledged: a target runs only after its
\* start events were acknowledged, and a turn is reported completed only after
\* its final message and its terminal event were.
THEOREM Acknowledged == Spec => []BoundaryNotCrossed
<1>1. IInv => BoundaryNotCrossed
  BY DEF IInv, AckInv, AckOf, BoundaryNotCrossed
<1> QED
  BY <1>1, Inductive, PTL

\* The sink is given the events of all turns in the order of their numbers.
THEOREM Ordered == Spec => SinkOrder
<1>1. IInv /\ [Next]_vars => [delivered' = delivered + 1]_delivered
  <2> SUFFICES ASSUME IInv, [Next]_vars PROVE [delivered' = delivered + 1]_delivered
    OBVIOUS
  <2>0. ASSUME NEW e \in Emitters, EmitReturns(e) PROVE delivered' = delivered + 1
    BY <2>0, TurnsAssumption DEF EmitReturns, IInv, TypeOK, MutexInv, InFlight, Emitters
  <2>1. CASE Close \/ UNCHANGED vars
    BY <2>1 DEF Close, vars
  <2>2. ASSUME NEW t \in Turns, Step(t) PROVE [delivered' = delivered + 1]_delivered
    <3>1. CASE EmitEnd(t)
      <4>1. PICK kind, answer : SinkReturns(t, kind, answer)
        BY <3>1 DEF EmitEnd, Announced, UserMessageStored, RunEventReturns,
                    AssistantReturns, TerminalReturns
      <4> QED
        BY <2>0, <4>1 DEF SinkReturns, Emitters
    <3>2. CASE ~EmitEnd(t)
      BY <2>2, <3>2 DEF Step, Start, Register, Remove, EmitBegin, RunEmits,
                        RegisterQuestion, LeaveQuestion, RunSucceeds, RunFails, Settle,
                        CancelTurn
    <3> QED
      BY <3>1, <3>2
  <2>3. ASSUME NEW w \in Callers, AnswerStep(w) PROVE [delivered' = delivered + 1]_delivered
    BY <2>0, <2>3 DEF AnswerStep, FindQuestion, EmitBegin, ResponseReturns, Emitters
  <2> QED
    BY <2>1, <2>2, <2>3 DEF Next
<1> QED
  BY <1>1, Inductive, PTL DEF Spec, SinkOrder

\* startTurn, runTurn and AnswerInteraction implement TurnContract: every step is
\* a step of the contract or leaves all that it speaks of alone.
THEOREM Refines == Spec => ContractKept
<1>1. Init => Contract!Init
  BY DEF Init, Contract!Init, Verdict
<1>2. IInv /\ [Next]_vars => [Contract!Next]_(Contract!vars)
  <2> SUFFICES ASSUME IInv, [Next]_vars PROVE [Contract!Next]_(Contract!vars)
    OBVIOUS
  <2>1. CASE Close \/ UNCHANGED vars
    BY <2>1 DEF Close, vars, answering, Contract!vars, Verdict
  <2>2. ASSUME NEW t \in Turns, Step(t) PROVE [Contract!Next]_(Contract!vars)
    <3> USE DEF IInv, TypeOK, At
    <3>0. StoryOf(t)
      BY DEF StoryInv
    <3>1. CASE EmitEnd(t)
      <4>1. PICK answer \in Answers :
                \/ Announced(t, answer) \/ UserMessageStored(t, answer)
                \/ RunEventReturns(t, answer) \/ AssistantReturns(t, answer)
                \/ TerminalReturns(t, answer)
        BY <3>1 DEF EmitEnd
      <4>2. PICK kind : /\ SinkReturns(t, kind, answer)
                        /\ <<shown[t], kind>> \in Contract!Follows
        BY <4>1, <3>0 DEF Announced, UserMessageStored, RunEventReturns,
             AssistantReturns, TerminalReturns, StoryOf, AtWork, Contract!Follows
      <4>3. /\ pc[t] \notin {"done", "refused"} /\ pc'[t] \notin {"done", "refused"}
            /\ \A u \in Turns : u # t => pc'[u] = pc[u] /\ status'[u] = status[u]
        BY <4>1 DEF Announced, UserMessageStored, RunEventReturns, AssistantReturns,
             TerminalReturns, NextIfAcked, StatusAfterTerminal
      <4>4. Verdict' = Verdict /\ Verdict[t] = "none"
        BY <4>3 DEF Verdict
      <4>5. CASE answer = "reject"
        BY <4>2, <4>4, <4>5 DEF SinkReturns, answering, Contract!vars
      <4>6. CASE answer # "reject"
        <5>1. Contract!Show(t, kind)
          BY <4>2, <4>4, <4>6 DEF SinkReturns, answering, Contract!Show
        <5>2. kind \in {pair[2] : pair \in Contract!Follows}
          BY <4>2
        <5> QED
          BY <5>1, <5>2 DEF Contract!Next
      <4> QED
        BY <4>5, <4>6
    <3>2. ASSUME pc[t] \notin {"done", "refused"}, pc'[t] = "refused",
                 shown' = shown, UNCHANGED answering,
                 \A u \in Turns : u # t => pc'[u] = pc[u], status' = status,
                 shown[t] \in {"nothing", "turn.started", "message.user"}
          PROVE  Contract!Report(t, "refused")
      <4>1. Verdict[t] = "none" /\ Verdict' = [Verdict EXCEPT ![t] = "refused"]
        <5>1. \A u \in Turns : Verdict'[u] = IF u = t THEN "refused" ELSE Verdict[u]
          BY <3>2 DEF Verdict
        <5>2. Verdict[t] = "none"
          BY <3>2 DEF Verdict
        <5>3. Verdict' = [u \in Turns |-> IF u = t THEN "refused" ELSE Verdict[u]]
          <6>1. Verdict' = [u \in Turns |-> Verdict'[u]]
            BY DEF Verdict
          <6> QED
            BY <5>1, <6>1
        <5>4. [Verdict EXCEPT ![t] = "refused"]
              = [u \in Turns |-> IF u = t THEN "refused" ELSE Verdict[u]]
          BY DEF Verdict
        <5> QED
          BY <5>2, <5>3, <5>4
      <4>2. Contract!Agrees("refused", shown[t])
        BY <3>2 DEF Contract!Agrees
      <4> QED
        BY <3>2, <4>1, <4>2 DEF answering, Contract!Report
    <3>3. CASE Start(t) \/ Register(t) \/ Remove(t)
      <4>1. CASE pc'[t] = "refused"
        BY <3>0, <3>2, <3>3, <4>1
        DEF Start, Register, Remove, StoryOf, Contract!Next
      <4>2. CASE pc'[t] # "refused"
        BY <3>3, <4>2 DEF Start, Register, Remove, answering, Verdict, Contract!vars
      <4> QED
        BY <4>1, <4>2
    <3>4. CASE Settle(t)
      <4>1. Contract!Agrees(status[t], shown[t])
        BY <3>0, <3>4 DEF StoryOf, Settle
      <4>2. Contract!Report(t, status[t])
        BY <3>4, <4>1 DEF Settle, answering, Contract!Report, Verdict
      <4>3. status[t] \in {"completed", "failed", "cancelled", "refused"}
        BY <4>1 DEF Contract!Agrees
      <4> QED
        BY <4>2, <4>3 DEF Contract!Next
    <3>5. CASE EmitBegin(t) \/ CancelTurn(t) \/ LeaveQuestion(t)
      BY <3>5 DEF EmitBegin, CancelTurn, LeaveQuestion, answering, Verdict, Contract!vars
    <3>6. CASE RunEmits(t) \/ RegisterQuestion(t) \/ RunSucceeds(t) \/ RunFails(t)
      BY <3>6 DEF RunEmits, RegisterQuestion, RunSucceeds, RunFails, answering, Verdict,
                  Contract!vars
    <3> QED
      BY <2>2, <3>1, <3>3, <3>4, <3>5, <3>6 DEF Step
  <2>3. ASSUME NEW w \in Callers, AnswerStep(w) PROVE [Contract!Next]_(Contract!vars)
    <3>1. Verdict' = Verdict /\ shown' = shown
      BY <2>3, CallersKeep DEF Verdict
    <3>2. CASE EmitBegin(w)
      BY <3>1, <3>2 DEF EmitBegin, answering, Contract!vars
    <3>3. ASSUME NEW t \in Turns, FindQuestion(w, t) PROVE Contract!Next
      <4>1. Verdict[t] = "none" /\ shown[t] = "run.event"
        BY <3>3 DEF FindQuestion, IInv, StoryInv, StoryOf, Verdict
      <4>2. found[w] = Nobody
        BY <3>3 DEF FindQuestion, IInv, CallerInv
      <4>3. Contract!Find(w, t)
        BY <3>1, <3>3, <4>1, <4>2 DEF FindQuestion, Contract!Find
      <4> QED
        BY <4>3 DEF Contract!Next
    <3>4. ASSUME NEW answer \in Answers, ResponseReturns(w, answer)
          PROVE  [Contract!Next]_(Contract!vars)
      <4>1. found[w] # Nobody /\ w \notin heard
        BY <3>4 DEF ResponseReturns, IInv, CallerInv
      <4>2. CASE answer = "reject"
        BY <3>1, <3>4, <4>2 DEF ResponseReturns, Contract!vars
      <4>3. CASE answer # "reject"
        BY <3>1, <3>4, <4>1, <4>3 DEF ResponseReturns, Contract!Respond, Contract!Next
      <4> QED
        BY <4>2, <4>3
    <3> QED
      BY <2>3, <3>2, <3>3, <3>4 DEF AnswerStep
  <2> QED
    BY <2>1, <2>2, <2>3 DEF Next
<1> QED
  BY <1>1, <1>2, Inductive, PTL DEF Spec, ContractKept, Contract!Spec

-----------------------------------------------------------------------------
(* RestoredTurn *)

Holds(s) ==
    \/ run[s] # "none"
    \/ s # Restorer /\ call[s] \in {"arm", "resume"}

HolderInv ==
    /\ \A s, u \in Starters : Holds(s) /\ Holds(u) => s = u
    /\ waiting => \A s \in Starters : ~Holds(s)

RunInv ==
    /\ \A w \in Answerers : run[w] # "none" <=> call[w] = "accepted"
    /\ run[Restorer] # "none" => restored /\ Continues(cp)

QuestionInv ==
    /\ waiting => cp.asked
    /\ \A w \in Answerers : call[w] # "idle" => cp.asked /\ restored

EndInv ==
    /\ \A s \in Starters : run[s] = "ended" => result # None
    /\ result # None /\ ~restored => ~Continues(cp)
    /\ result = None /\ ~restored => waiting \/ Continues(cp)
    /\ result # None => ~waiting
    /\ result # None => \A s \in Starters : run[s] \in {"none", "ended"}
    /\ result # None => \A w \in Answerers : call[w] \notin {"arm", "resume"}

RestoredInv == RestoredTypeOK /\ HolderInv /\ RunInv /\ QuestionInv /\ EndInv

LEMMA InitRestored == RestoredInit => RestoredInv
<1> SUFFICES ASSUME RestoredInit PROVE RestoredInv
  OBVIOUS
<1> USE RestoredAssumption DEF RestoredInit
<1>1. cp \in Checkpoint /\ cp.asked \in BOOLEAN
  BY DEF Checkpoint
<1>2. Installed(cp) \in {"open", "completed", "interrupted"}
  BY DEF Installed
<1>3. /\ turnStatus \in Verdicts \cup {"running", "waiting_input", "interrupted"}
      /\ result \in Verdicts \cup {"interrupted", None}
      /\ (result = None) <=> turnStatus \in {"running", "waiting_input"}
  BY <1>2 DEF Verdicts
<1>4. RestoredTypeOK
  BY <1>1, <1>3 DEF RestoredTypeOK, Starters
<1>5. HolderInv /\ RunInv /\ QuestionInv
  BY DEF HolderInv, Holds, RunInv, QuestionInv, Starters
<1>6. result # None => ~cp.asked /\ ~Continues(cp)
  BY DEF Installed, Continues
<1>7. result = None => waiting \/ Continues(cp)
  BY RestoredAssumption DEF Installed
<1>8. EndInv
  BY <1>6, <1>7 DEF EndInv
<1> QED
  BY <1>4, <1>5, <1>8 DEF RestoredInv

-----------------------------------------------------------------------------

LEMMA RestoredTypeStep == RestoredTypeOK /\ HolderInv /\ RunInv /\ EndInv /\ [RestoredNext]_restoredVars => RestoredTypeOK'
<1> SUFFICES ASSUME RestoredTypeOK, HolderInv, RunInv, EndInv, [RestoredNext]_restoredVars PROVE RestoredTypeOK'
  OBVIOUS
<1> USE RestoredAssumption DEF RestoredTypeOK, turn, Starters, Verdicts, Go
<1>1. CASE UNCHANGED restoredVars
  BY <1>1 DEF restoredVars
<1>2. CASE Restore
  <2>1. CASE Continues(cp) /\ cp.known
    <3>1. result = None
      BY <1>2, <2>1 DEF EndInv, Restore
    <3> QED
      BY <1>2, <2>1, <3>1 DEF Restore
  <2>2. CASE ~(Continues(cp) /\ cp.known)
    BY <1>2, <2>2 DEF Restore
  <2> QED
    BY <2>1, <2>2
<1>3. CASE CancelRestored \/ CloseRestored
  BY <1>3 DEF CancelRestored, CloseRestored
<1>4. ASSUME NEW w \in Answerers, Lookup(w) \/ EmitResponded(w) \/ TakeQuestion(w)
      PROVE  RestoredTypeOK'
  BY <1>4 DEF Lookup, EmitResponded, TakeQuestion
<1>5. ASSUME NEW w \in Answerers, ArmCancel(w) PROVE RestoredTypeOK'
  BY <1>5 DEF ArmCancel, EndInv
<1>6. ASSUME NEW w \in Answerers, Resume(w) PROVE RestoredTypeOK'
  BY <1>6 DEF Resume
<1>7. ASSUME NEW s \in Starters, RunReturns(s) PROVE RestoredTypeOK'
  BY <1>7 DEF RunReturns
<1>8. ASSUME NEW s \in Starters, EndTurn(s) PROVE RestoredTypeOK'
  BY <1>8 DEF EndTurn
<1> QED
  BY <1>1, <1>2, <1>3, <1>4, <1>5, <1>6, <1>7, <1>8 DEF RestoredNext, Answer
-----------------------------------------------------------------------------
(* The turn has one holder *)

LEMMA HolderStep == RestoredInv /\ [RestoredNext]_restoredVars => HolderInv'
<1> SUFFICES ASSUME RestoredInv, [RestoredNext]_restoredVars PROVE HolderInv'
  OBVIOUS
<1> USE RestoredAssumption DEF RestoredInv, RestoredTypeOK, turn, Starters, Verdicts, Go, HolderInv, Holds
<1>1. CASE UNCHANGED restoredVars
  BY <1>1 DEF restoredVars
<1>2. CASE Restore
  <2>1. CASE Continues(cp) /\ cp.known
    <3>1. \A w \in Answerers : call[w] = "idle" /\ run[w] = "none"
      BY <2>1 DEF Continues, QuestionInv, RunInv
    <3>2. ~waiting
      BY <2>1 DEF Continues, QuestionInv
    <3> QED
      BY <1>2, <2>1, <3>1, <3>2 DEF Restore
  <2>2. CASE ~(Continues(cp) /\ cp.known)
    BY <1>2, <2>2 DEF Restore
  <2> QED
    BY <2>1, <2>2
<1>3. CASE CancelRestored \/ CloseRestored
  BY <1>3 DEF CancelRestored, CloseRestored
<1>4. ASSUME NEW w \in Answerers, Lookup(w) \/ EmitResponded(w) PROVE HolderInv'
  BY <1>4 DEF Lookup, EmitResponded, RunInv
<1>5. ASSUME NEW w \in Answerers, TakeQuestion(w) PROVE HolderInv'
  BY <1>5 DEF TakeQuestion, Answerable, RunInv
<1>6. ASSUME NEW w \in Answerers, ArmCancel(w) PROVE HolderInv'
  BY <1>6 DEF ArmCancel
<1>7. ASSUME NEW w \in Answerers, Resume(w) PROVE HolderInv'
  BY <1>7 DEF Resume
<1>8. ASSUME NEW s \in Starters, RunReturns(s) PROVE HolderInv'
  BY <1>8 DEF RunReturns
<1>9. ASSUME NEW s \in Starters, EndTurn(s) PROVE HolderInv'
  BY <1>9 DEF EndTurn
<1> QED
  BY <1>1, <1>2, <1>3, <1>4, <1>5, <1>6, <1>7, <1>8, <1>9 DEF RestoredNext, Answer

LEMMA HistoryStep == RestoredInv /\ [RestoredNext]_restoredVars => RunInv' /\ QuestionInv'
<1> SUFFICES ASSUME RestoredInv, [RestoredNext]_restoredVars PROVE RunInv' /\ QuestionInv'
  OBVIOUS
<1> USE RestoredAssumption
    DEF RestoredInv, RestoredTypeOK, turn, Starters, Verdicts, Go, RunInv, QuestionInv
<1>1. CASE UNCHANGED restoredVars
  BY <1>1 DEF restoredVars, Continues, IsFinished
<1>2. CASE Restore
  BY <1>2 DEF Restore, Continues, IsFinished
<1>3. CASE CancelRestored \/ CloseRestored
  BY <1>3 DEF CancelRestored, CloseRestored, Continues, IsFinished
<1>4. ASSUME NEW w \in Answerers, Answer(w) \/ Lookup(w) PROVE RunInv' /\ QuestionInv'
  BY <1>4 DEF Answer, Lookup, EmitResponded, TakeQuestion, ArmCancel, Resume, Continues,
              IsFinished
<1>5. ASSUME NEW s \in Starters, RunReturns(s) PROVE RunInv' /\ QuestionInv'
  BY <1>5 DEF RunReturns, Continues, IsFinished
<1>6. ASSUME NEW s \in Starters, EndTurn(s) PROVE RunInv' /\ QuestionInv'
  BY <1>6 DEF EndTurn, Continues, IsFinished
<1> QED
  BY <1>1, <1>2, <1>3, <1>4, <1>5, <1>6 DEF RestoredNext

LEMMA EndStep == RestoredInv /\ [RestoredNext]_restoredVars => EndInv'
<1> SUFFICES ASSUME RestoredInv, [RestoredNext]_restoredVars PROVE EndInv'
  OBVIOUS
<1> USE RestoredAssumption DEF RestoredInv, RestoredTypeOK, turn, Starters, Verdicts, Go, EndInv
<1>1. CASE UNCHANGED restoredVars
  BY <1>1 DEF restoredVars, Continues, IsFinished
<1>2. CASE Restore
  BY <1>2 DEF Restore, Continues, IsFinished
<1>3. CASE CancelRestored \/ CloseRestored
  BY <1>3 DEF CancelRestored, CloseRestored, Continues, IsFinished
<1>4. ASSUME NEW w \in Answerers, Lookup(w) \/ EmitResponded(w) PROVE EndInv'
  BY <1>4 DEF Lookup, EmitResponded, Continues, IsFinished
<1>5. ASSUME NEW w \in Answerers, TakeQuestion(w) PROVE EndInv'
  BY <1>5 DEF TakeQuestion, Answerable, QuestionInv, Continues, IsFinished
<1>6. ASSUME NEW w \in Answerers, ArmCancel(w) PROVE EndInv'
  BY <1>6 DEF ArmCancel, Continues, IsFinished
<1>7. ASSUME NEW w \in Answerers, Resume(w) PROVE EndInv'
  BY <1>7 DEF Resume, Continues, IsFinished
<1>8. ASSUME NEW s \in Starters, RunReturns(s) PROVE EndInv'
  BY <1>8 DEF RunReturns, Continues, IsFinished
<1>9. ASSUME NEW s \in Starters, EndTurn(s) PROVE EndInv'
  <2>1. restored
    BY <1>9 DEF EndTurn, RunInv, QuestionInv
  <2>2. ~waiting /\ \A u \in Starters \ {s} : ~Holds(u)
    BY <1>9 DEF EndTurn, HolderInv, Holds
  <2>3. \A w \in Answerers : call[w] \notin {"arm", "resume"}
    BY <1>9, <2>2 DEF EndTurn, Holds, RunInv
  <2> QED
    BY <1>9, <2>1, <2>2, <2>3 DEF EndTurn, Holds
<1> QED
  BY <1>1, <1>2, <1>3, <1>4, <1>5, <1>6, <1>7, <1>8, <1>9 DEF RestoredNext, Answer

LEMMA RestoredStep == RestoredInv /\ [RestoredNext]_restoredVars => RestoredInv'
  BY RestoredTypeStep, HolderStep, HistoryStep, EndStep DEF RestoredInv

LEMMA RestoredInductive == RestoredSpec => []RestoredInv
  BY InitRestored, RestoredStep, PTL DEF RestoredSpec

-----------------------------------------------------------------------------
(* Theorems *)

\* Every value a RestoredTurn variable takes has its type, and the result is
\* there exactly when the status is final.
THEOREM RestoredTypeCorrect == RestoredSpec => []RestoredTypeOK
  BY RestoredInductive, PTL DEF RestoredInv

\* Whatever is restored and however many answers race, the turn is run once.
THEOREM RunsOnce == RestoredSpec => []RunOnce
<1>1. RestoredInv => RunOnce
  BY DEF RestoredInv, HolderInv, Holds, RunOnce
<1> QED
  BY <1>1, RestoredInductive, PTL

\* No external tool call of a checkpoint is run again or taken as done.
THEOREM NeverReplayed == RestoredSpec => []NothingReplayed
<1>1. RestoredInv => NothingReplayed
  <2> SUFFICES ASSUME RestoredInv, NEW s \in Starters, run[s] # "none"
               PROVE  \/ cp.pending = "none"
                      \/ cp.pending = "ask" /\ s # Restorer /\ call[s] = "accepted"
    BY DEF NothingReplayed
  <2>1. CASE s = Restorer
    BY <2>1 DEF RestoredInv, RunInv, Continues
  <2>2. CASE s \in Answerers
    <3>1. call[s] = "accepted" /\ cp.asked
      BY <2>2 DEF RestoredInv, RunInv, QuestionInv
    <3>2. cp.pending = "ask"
      BY <3>1, RestoredAssumption DEF RestoredInv, RestoredTypeOK, Checkpoint
    <3> QED
      BY <2>2, <3>1, <3>2, RestoredAssumption
  <2> QED
    BY <2>1, <2>2 DEF Starters
<1> QED
  BY <1>1, RestoredInductive, PTL

\* The result of a turn, and that it has ended, never change.
THEOREM EndsForGood == RestoredSpec => EndIsFinal
<1>1. RestoredInv /\ [RestoredNext]_restoredVars => [result # None => UNCHANGED <<result, turnStatus, waiting>>]_restoredVars
  <2> SUFFICES ASSUME RestoredInv, RestoredNext, result # None
               PROVE  UNCHANGED <<result, turnStatus, waiting>>
    OBVIOUS
  <2> USE DEF RestoredInv, EndInv, turn, Go
  <2>1. CASE Restore
    BY <2>1 DEF Restore
  <2>2. CASE CancelRestored \/ CloseRestored
    BY <2>2 DEF CancelRestored, CloseRestored
  <2>3. ASSUME NEW w \in Answerers, Lookup(w) \/ Answer(w)
        PROVE  UNCHANGED <<result, turnStatus, waiting>>
    BY <2>3 DEF Lookup, Answer, EmitResponded, TakeQuestion, Answerable, ArmCancel, Resume
  <2>4. ASSUME NEW s \in Starters, RunReturns(s) \/ EndTurn(s)
        PROVE  UNCHANGED <<result, turnStatus, waiting>>
    BY <2>4 DEF RunReturns, EndTurn, Verdicts
  <2> QED
    BY <2>1, <2>2, <2>3, <2>4 DEF RestoredNext
<1> QED
  BY <1>1, RestoredInductive, PTL DEF RestoredSpec, EndIsFinal

\* The call that resumes the turn owns its cancel function.
CancelInv == \A w \in Answerers : call[w] = "resume" => cancel = w

LEMMA CancelInvariant == RestoredSpec => []CancelInv
<1>1. RestoredInit => CancelInv
  BY DEF RestoredInit, CancelInv
<1>2. RestoredInv /\ CancelInv /\ [RestoredNext]_restoredVars => CancelInv'
  <2> SUFFICES ASSUME RestoredInv, CancelInv, [RestoredNext]_restoredVars PROVE CancelInv'
    OBVIOUS
  <2> USE RestoredAssumption DEF RestoredInv, RestoredTypeOK, CancelInv, turn, Starters, Go
  <2>1. CASE UNCHANGED restoredVars
    BY <2>1 DEF restoredVars
  <2>2. CASE Restore
    BY <2>2 DEF Restore, QuestionInv
  <2>3. CASE CancelRestored \/ CloseRestored
    BY <2>3 DEF CancelRestored, CloseRestored
  <2>4. ASSUME NEW w \in Answerers, Lookup(w) \/ EmitResponded(w) \/ TakeQuestion(w) PROVE CancelInv'
    BY <2>4 DEF Lookup, EmitResponded, TakeQuestion
  <2>5. ASSUME NEW w \in Answerers, ArmCancel(w) PROVE CancelInv'
    <3>1. \A u \in Answerers \ {w} : call[u] # "resume"
      BY <2>5 DEF ArmCancel, HolderInv, Holds
    <3> QED
      BY <2>5, <3>1 DEF ArmCancel
  <2>6. ASSUME NEW w \in Answerers, Resume(w) PROVE CancelInv'
    BY <2>6 DEF Resume
  <2>7. ASSUME NEW s \in Starters, RunReturns(s) \/ EndTurn(s) PROVE CancelInv'
    BY <2>7 DEF RunReturns, EndTurn
  <2> QED
    BY <2>1, <2>2, <2>3, <2>4, <2>5, <2>6, <2>7 DEF RestoredNext, Answer
<1> QED
  BY <1>1, <1>2, RestoredInductive, PTL DEF RestoredSpec

\* No restored turn is left without a way to end, unless the Harness lacks its
\* target or the sink refused the status of the resumed turn.
THEOREM NeverStranded == RestoredSpec => []NotStranded
<1>1. RestoredInit => NotStranded
  BY DEF RestoredInit, NotStranded
<1>2. RestoredInv /\ CancelInv /\ NotStranded /\ [RestoredNext]_restoredVars => NotStranded'
  <2> SUFFICES ASSUME RestoredInv, CancelInv, NotStranded, [RestoredNext]_restoredVars PROVE NotStranded'
    OBVIOUS
  <2> USE RestoredAssumption DEF RestoredInv, RestoredTypeOK, NotStranded, ResumeRefused, turn, Starters, Verdicts, Go
  <2>1. CASE UNCHANGED restoredVars
    BY <2>1 DEF restoredVars
  <2>2. CASE Restore
    BY <2>2 DEF Restore, EndInv, QuestionInv
  <2>3. CASE CancelRestored \/ CloseRestored
    BY <2>3 DEF CancelRestored, CloseRestored
  <2>4. ASSUME NEW w \in Answerers, Lookup(w) \/ EmitResponded(w) PROVE NotStranded'
    BY <2>4 DEF Lookup, EmitResponded
  <2>5. ASSUME NEW w \in Answerers, TakeQuestion(w) PROVE NotStranded'
    BY <2>5 DEF TakeQuestion, Answerable
  <2>6. ASSUME NEW w \in Answerers, ArmCancel(w) PROVE NotStranded'
    BY <2>6 DEF ArmCancel
  <2>7. ASSUME NEW w \in Answerers, Resume(w) PROVE NotStranded'
    BY <2>7 DEF Resume, CancelInv
  <2>8. ASSUME NEW s \in Starters, RunReturns(s) PROVE NotStranded'
    BY <2>8 DEF RunReturns
  <2>9. ASSUME NEW s \in Starters, EndTurn(s) PROVE NotStranded'
    BY <2>9 DEF EndTurn
  <2> QED
    BY <2>1, <2>2, <2>3, <2>4, <2>5, <2>6, <2>7, <2>8, <2>9 DEF RestoredNext, Answer
<1> QED
  BY <1>1, <1>2, RestoredInductive, CancelInvariant, PTL DEF RestoredSpec
=============================================================================
