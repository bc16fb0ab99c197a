--------------------------- MODULE AgentRunProofs ---------------------------
(***************************************************************************)
(* Proofs about AgentRun, for any set of calls, any kinds, and any bounds. *)
(*                                                                         *)
(* That no tool runs twice, and that the model knows of each that ran, is  *)
(* inductive with three facts: while a run is live, the results in its     *)
(* Memory are the executed tools (LiveInv); a stored checkpoint without an *)
(* unresolved tool call has the same results (SavedInv); and a tool runs   *)
(* only under a stored checkpoint that names it (OrderInv).                *)
(***************************************************************************)
EXTENDS AgentRun, FiniteSetTheorems, TLAPS

Executed == {c \in Tools : effects[c] > 0}

CallInv ==
    /\ st.results \subseteq st.issued
    /\ left \subseteq st.issued
    /\ left \cap st.results = {}
    /\ cur \in (st.issued \ left) \cup {None}
    /\ pc \in {"pending", "start", "execute", "complete"} => cur \in Tools
    /\ pc \in {"pending", "start", "execute"} => cur \notin st.results
    /\ pc \in {"ask", "wait", "answer"} => cur \in Calls \ Tools

SavedInv ==
    saved # None =>
        /\ saved.st.results \subseteq saved.st.issued
        /\ saved.pending # None => saved.pending \in saved.st.issued
        /\ saved.asked => saved.pending \in Calls \ Tools
        /\ saved.pending \notin Tools => saved.st.results \cap Tools = Executed

LiveInv ==
    /\ pc \notin {"down", "ended"} => st.results \cap Tools = Executed
    /\ \A c \in Tools : effects[c] <= 1

OrderInv ==
    /\ pc \in {"start", "execute"} => saved # None /\ saved.pending = cur
    /\ pc = "execute" => cur \in started
    /\ pc \in {"execute", "complete"} => saved # None /\ saved.pending = cur
    /\ Executed \subseteq started

IInv == TypeOK /\ CallInv /\ SavedInv /\ LiveInv /\ OrderInv

LEMMA InitIInv == Init => IInv
<1> SUFFICES ASSUME Init PROVE IInv
  OBVIOUS
<1> USE AgentAssumption DEF Init
<1>1. TypeOK
  BY DEF TypeOK, State
<1>2. Executed = {}
  BY DEF Executed
<1>3. CallInv /\ SavedInv /\ LiveInv /\ OrderInv
  BY <1>2 DEF CallInv, SavedInv, LiveInv, OrderInv
<1> QED
  BY <1>1, <1>3 DEF IInv

\* The cases of a step, in groups that are alike in the proofs.
Saves ==
    \/ SaveInitial \/ SaveCompacted \/ SavePending \/ SaveResult \/ SavePart \/ SaveFinal
    \/ SaveQuestion

Invokes ==
    Attempt \/ Summarize \/ NoResponse \/ ToolCalls \/ PartOfAnswer \/ FinalAnswer

LEMMA Cases ==
  ASSUME Next
  PROVE  \/ Saves \/ Invokes \/ Loop \/ NextCall \/ EmitStarted \/ Execute \/ EmitCompleted
         \/ EndTurn \/ Answered \/ Crash \/ Restore \/ ResumeWithAnswer
  BY DEF Next, Step, Saves, Invokes

LEMMA TypeStep == TypeOK /\ CallInv /\ [Next]_vars => TypeOK'
<1> SUFFICES ASSUME TypeOK, CallInv, [Next]_vars PROVE TypeOK'
  OBVIOUS
<1> USE AgentAssumption DEF TypeOK, State, history
<1>1. CASE UNCHANGED vars
  BY <1>1 DEF vars
<1>2. CASE Saves
  <2>1. /\ saved' \in {saved, Snapshot(None, FALSE), Snapshot(cur, FALSE), Snapshot(cur, TRUE)}
        /\ pc' \in {"loop", "invoke", "start", "calls", "succeeded", "wait", "failed"}
        /\ UNCHANGED <<st, left, cur, history, tries, result>>
    BY <1>2 DEF Saves, SaveInitial, SaveCompacted, SavePending, SaveResult, SavePart,
                SaveFinal, SaveQuestion, Save, PendingCall
  <2>2. Snapshot(None, FALSE) \in Checkpoint /\ Snapshot(cur, FALSE) \in Checkpoint
        /\ Snapshot(cur, TRUE) \in Checkpoint
    BY DEF Snapshot, Checkpoint
  <2>3. saved' \in Checkpoint \cup {None}
    BY <2>1, <2>2
  <2> QED
    BY <2>1, <2>3
<1>3. CASE Invokes
  <2>1. invoked' \in Nat /\ tries' \in 0..MaxAttempts
    BY <1>3 DEF Invokes, Attempt, Summarize, NoResponse, ToolCalls, PartOfAnswer, FinalAnswer,
                Response
  <2> QED
    BY <1>3, <2>1 DEF Invokes, Attempt, Summarize, NoResponse, ToolCalls, PartOfAnswer,
                      FinalAnswer, Response
<1>4. CASE Loop
  BY <1>4 DEF Loop, AnotherRound, Counted
<1>5. CASE NextCall
  BY <1>5 DEF NextCall
<1>6. CASE EmitStarted
  BY <1>6 DEF EmitStarted, CallInv
<1>7. CASE Execute
  BY <1>7 DEF Execute, CallInv, Tools
<1>8. CASE EmitCompleted \/ EndTurn \/ Crash
  BY <1>8 DEF EmitCompleted, EndTurn, Crash
<1>9. CASE Answered \/ ResumeWithAnswer
  BY <1>9 DEF Answered, ResumeWithAnswer, AnswerAppended, CallInv
<1>10. CASE Restore
  <2>1. Outcome \in {"waiting", "interrupted", "completed", "continued"}
    BY DEF Outcome
  <2>2. saved \in Checkpoint
    BY <1>10 DEF Restore
  <2>3. pc' \in {"answer", "initial", "ended"}
    BY <1>10, <2>1 DEF Restore, RestoredAt
  <2> QED
    BY <1>10, <2>1, <2>2, <2>3 DEF Restore, Checkpoint, LoopsRestored
<1> QED
  BY <1>1, <1>2, <1>3, <1>4, <1>5, <1>6, <1>7, <1>8, <1>9, <1>10, Cases

-----------------------------------------------------------------------------
(* Effects, checkpoints and Memory *)

LEMMA CallStep == IInv /\ [Next]_vars => CallInv'
<1> SUFFICES ASSUME IInv, [Next]_vars PROVE CallInv'
  OBVIOUS
<1> USE AgentAssumption DEF IInv, TypeOK, State, history, CallInv
<1>1. CASE UNCHANGED vars
  BY <1>1 DEF vars
<1>2. CASE Saves
  BY <1>2 DEF Saves, SaveInitial, SaveCompacted, SavePending, SaveResult, SavePart, SaveFinal,
              SaveQuestion, Save, PendingCall
<1>3. CASE Invokes
  <2>1. CASE ToolCalls
    <3>1. left' \subseteq Calls \ st.issued /\ UNCHANGED cur
      BY <2>1 DEF ToolCalls, Response
    <3>2. st'.issued = st.issued \cup left' /\ st'.results = st.results
      BY <2>1 DEF ToolCalls
    <3> QED
      BY <2>1, <3>1, <3>2 DEF ToolCalls
  <2>2. CASE Attempt \/ Summarize \/ NoResponse \/ PartOfAnswer \/ FinalAnswer
    BY <2>2 DEF Attempt, Summarize, NoResponse, PartOfAnswer, FinalAnswer, Response
  <2> QED
    BY <1>3, <2>1, <2>2 DEF Invokes
<1>4. CASE Loop
  BY <1>4 DEF Loop
<1>5. CASE NextCall
  <2>1. CASE left = {} /\ UNCHANGED <<left, cur, st>> /\ pc' = "loop"
    BY <2>1
  <2>2. ASSUME NEW c \in left, cur' = c, left' = left \ {c},
               \/ Kind[c] = "tool" /\ pc' = "pending" /\ UNCHANGED st
               \/ Kind[c] = "ask" /\ pc' = "ask" /\ UNCHANGED st
        PROVE  CallInv'
    BY <2>2 DEF Tools
  <2>3. ASSUME NEW c \in left, cur' = c, left' = left \ {c}, pc' \in {"save", "failed"},
               st' = [st EXCEPT !.results = @ \cup {c}]
        PROVE  CallInv'
    <3>1. st'.results = st.results \cup {c} /\ st'.issued = st.issued
      BY <2>3
    <3> QED
      BY <2>3, <3>1
  <2> QED
    BY <1>5, <2>1, <2>2, <2>3 DEF NextCall
<1>6. CASE EmitStarted \/ Execute \/ EmitCompleted
  <2>1. CASE EmitStarted \/ EmitCompleted
    BY <2>1 DEF EmitStarted, EmitCompleted
  <2>2. CASE Execute
    <3>1. st'.results = st.results \cup {cur} /\ st'.issued = st.issued
      BY <2>2 DEF Execute
    <3>2. cur \in st.issued /\ cur \notin left
      BY <2>2 DEF Execute, Tools
    <3> QED
      BY <2>2, <3>1, <3>2 DEF Execute
  <2> QED
    BY <1>6, <2>1, <2>2
<1>7. CASE EndTurn \/ Crash
  BY <1>7 DEF EndTurn, Crash
<1>8. CASE Answered \/ ResumeWithAnswer
  BY <1>8 DEF Answered, ResumeWithAnswer, AnswerAppended
<1>9. CASE Restore
  <2>1. saved \in Checkpoint /\ saved # None
    BY <1>9 DEF Restore
  <2>2. CASE Outcome = "waiting"
    BY <1>9, <2>1, <2>2 DEF Restore, RestoredAt, Outcome, Checkpoint, SavedInv
  <2>3. CASE Outcome # "waiting"
    BY <1>9, <2>1, <2>3 DEF Restore, RestoredAt, Outcome, Checkpoint, SavedInv
  <2> QED
    BY <2>2, <2>3
<1> QED
  BY <1>1, <1>2, <1>3, <1>4, <1>5, <1>6, <1>7, <1>8, <1>9, Cases

LEMMA SavedStep == IInv /\ [Next]_vars => SavedInv'
<1> SUFFICES ASSUME IInv, [Next]_vars PROVE SavedInv'
  OBVIOUS
<1> USE AgentAssumption DEF IInv, TypeOK, history, SavedInv, Executed
<1>1. CASE UNCHANGED vars
  BY <1>1 DEF vars
<1>2. CASE Saves
  <2> USE DEF Saves, SaveInitial, SaveCompacted, SavePending, SaveResult, SavePart,
              SaveFinal, SaveQuestion, Save, PendingCall
  <2>1. UNCHANGED effects /\ pc \notin {"down", "ended"}
    BY <1>2
  <2>2. \/ saved' = saved
        \/ saved' = Snapshot(None, FALSE)
        \/ saved' = Snapshot(cur, FALSE) /\ pc = "pending"
        \/ saved' = Snapshot(cur, TRUE) /\ pc = "ask"
    BY <1>2
  <2>3. st.results \subseteq st.issued /\ st.results \cap Tools = Executed
    BY <2>1 DEF CallInv, LiveInv
  <2>4. CASE saved' = saved
    BY <2>1, <2>4
  <2>5. CASE saved' = Snapshot(None, FALSE)
    BY <2>1, <2>3, <2>5 DEF Snapshot, Tools
  <2>6. CASE saved' = Snapshot(cur, FALSE) /\ pc = "pending"
    <3>1. cur \in Tools /\ cur \in st.issued
      BY <2>6 DEF CallInv, Tools
    <3> QED
      BY <2>1, <2>3, <2>6, <3>1 DEF Snapshot
  <2>7. CASE saved' = Snapshot(cur, TRUE) /\ pc = "ask"
    <3>1. cur \in Calls \ Tools /\ cur \in st.issued
      BY <2>7 DEF CallInv
    <3> QED
      BY <2>1, <2>3, <2>7, <3>1 DEF Snapshot
  <2> QED
    BY <2>2, <2>4, <2>5, <2>6, <2>7
<1>3. CASE Invokes \/ Loop \/ NextCall \/ EmitStarted \/ EmitCompleted \/ EndTurn \/ Answered
           \/ Crash \/ Restore \/ ResumeWithAnswer
  BY <1>3 DEF Invokes, Attempt, Summarize, NoResponse, ToolCalls, PartOfAnswer, FinalAnswer,
              Response, Loop, NextCall, EmitStarted, EmitCompleted, EndTurn, Answered, Crash,
              Restore, ResumeWithAnswer
<1>4. CASE Execute
  <2>1. saved.pending = cur /\ cur \in Tools
    BY <1>4 DEF Execute, OrderInv, CallInv
  <2> QED
    BY <1>4, <2>1 DEF Execute
<1> QED
  BY <1>1, <1>2, <1>3, <1>4, Cases

LEMMA LiveStep == IInv /\ [Next]_vars => LiveInv'
<1> SUFFICES ASSUME IInv, [Next]_vars PROVE LiveInv'
  OBVIOUS
<1> USE AgentAssumption DEF IInv, TypeOK, State, history, LiveInv, Executed
<1>1. CASE UNCHANGED vars
  BY <1>1 DEF vars
<1>2. CASE Saves
  BY <1>2 DEF Saves, SaveInitial, SaveCompacted, SavePending, SaveResult, SavePart, SaveFinal,
              SaveQuestion, Save, PendingCall
<1>3. CASE Invokes \/ Loop
  BY <1>3 DEF Invokes, Attempt, Summarize, NoResponse, ToolCalls, PartOfAnswer, FinalAnswer,
              Response, Loop
<1>4. CASE NextCall
  BY <1>4 DEF NextCall, Tools
<1>5. CASE EmitStarted \/ EmitCompleted \/ EndTurn \/ Crash
  BY <1>5 DEF EmitStarted, EmitCompleted, EndTurn, Crash
<1>6. CASE Execute
  <2>1. cur \in Tools /\ cur \notin st.results /\ effects[cur] = 0
    BY <1>6 DEF Execute, CallInv
  <2>2. st'.results = st.results \cup {cur}
    BY <1>6 DEF Execute
  <2>3. \A c \in Tools : effects'[c] = IF c = cur THEN 1 ELSE effects[c]
    BY <1>6, <2>1 DEF Execute
  <2> QED
    BY <1>6, <2>1, <2>2, <2>3 DEF Execute
<1>7. CASE Answered \/ ResumeWithAnswer
  <2>1. cur \notin Tools /\ st'.results = st.results \cup {cur} /\ UNCHANGED effects
    BY <1>7 DEF Answered, ResumeWithAnswer, AnswerAppended, CallInv
  <2> QED
    BY <1>7, <2>1 DEF Answered, ResumeWithAnswer
<1>8. CASE Restore
  <2>1. saved \in Checkpoint /\ saved # None /\ UNCHANGED effects
    BY <1>8 DEF Restore
  <2>2. CASE Outcome \in {"waiting", "continued"}
    <3>1. saved.pending \notin Tools
      BY <2>1, <2>2 DEF Outcome, SavedInv, Tools, Checkpoint
    <3>2. st'.results = saved.st.results
      BY <1>8, <2>1 DEF Restore, Checkpoint
    <3> QED
      BY <2>1, <3>1, <3>2 DEF SavedInv
  <2>3. CASE Outcome \notin {"waiting", "continued"}
    BY <1>8, <2>1, <2>3 DEF Restore, RestoredAt, Outcome
  <2> QED
    BY <2>2, <2>3
<1> QED
  BY <1>1, <1>2, <1>3, <1>4, <1>5, <1>6, <1>7, <1>8, Cases

LEMMA OrderStep == IInv /\ [Next]_vars => OrderInv'
<1> SUFFICES ASSUME IInv, [Next]_vars PROVE OrderInv'
  OBVIOUS
<1> USE AgentAssumption DEF IInv, TypeOK, history, OrderInv, Executed
<1>1. CASE UNCHANGED vars
  BY <1>1 DEF vars
<1>2. CASE Saves
  <2>1. CASE SavePending
    <3>1. Snapshot(cur, FALSE) \in Checkpoint
      BY DEF Snapshot, Checkpoint
    <3>2. Snapshot(cur, FALSE) # None /\ Snapshot(cur, FALSE).pending = cur
      BY <3>1 DEF Snapshot
    <3>3. pc' = "start" => saved' = Snapshot(cur, FALSE)
      BY <2>1 DEF SavePending, Save, PendingCall
    <3>4. pc' \in {"start", "failed"} /\ UNCHANGED <<cur, started, effects>>
      BY <2>1 DEF SavePending, Save, PendingCall
    <3> QED
      BY <3>2, <3>3, <3>4
  <2>2. CASE ~SavePending
    BY <1>2, <2>2 DEF Saves, SaveInitial, SaveCompacted, SaveResult, SavePart, SaveFinal,
                      SaveQuestion, Save
  <2> QED
    BY <2>1, <2>2
<1>3. CASE Invokes \/ Loop \/ NextCall \/ EmitCompleted \/ EndTurn \/ Answered \/ Crash
           \/ ResumeWithAnswer
  BY <1>3 DEF Invokes, Attempt, Summarize, NoResponse, ToolCalls, PartOfAnswer, FinalAnswer,
              Response, Loop, NextCall, EmitCompleted, EndTurn, Answered, Crash, ResumeWithAnswer
<1>4. CASE EmitStarted
  BY <1>4 DEF EmitStarted
<1>5. CASE Execute
  BY <1>5 DEF Execute
<1>6. CASE Restore
  BY <1>6 DEF Restore, RestoredAt, Outcome
<1> QED
  BY <1>1, <1>2, <1>3, <1>4, <1>5, <1>6, Cases

LEMMA StepIInv == IInv /\ [Next]_vars => IInv'
  BY TypeStep, CallStep, SavedStep, LiveStep, OrderStep DEF IInv

LEMMA Inductive == Spec => []IInv
  BY InitIInv, StepIInv, PTL DEF Spec

-----------------------------------------------------------------------------
(* The number of model calls *)

\* The model calls of n rounds: a summary and a message, with all attempts.
Cost(n) == 2 * MaxAttempts * n

LEMMA CostRules ==
  /\ Cost(0) = 0
  /\ \A n \in Nat : Cost(n) \in Nat /\ Cost(n + 1) = Cost(n) + 2 * MaxAttempts
  /\ \A m, n \in Nat : m <= n => Cost(m) <= Cost(n)
<1> USE AgentAssumption DEF Cost
<1>1. Cost(0) = 0
  OBVIOUS
<1>2. \A n \in Nat : Cost(n) \in Nat /\ Cost(n + 1) = Cost(n) + 2 * MaxAttempts
  OBVIOUS
<1>3. ASSUME NEW m \in Nat, NEW n \in Nat, m <= n PROVE Cost(m) <= Cost(n)
  <2>1. PICK d \in Nat : n = m + d
    <3>1. n - m \in Nat /\ n = m + (n - m)
      BY <1>3
    <3> QED
      BY <3>1
  <2>2. Cost(n) = Cost(m) + 2 * (MaxAttempts * d) /\ MaxAttempts * d \in Nat /\ Cost(m) \in Nat
    BY <2>1
  <2> QED
    BY <2>2
<1> QED
  BY <1>1, <1>2, <1>3

\* What the round may still add to the model calls of a live run.
Due ==
    IF pc = "summarize" THEN 2 * MaxAttempts - tries
    ELSE IF pc = "compact" THEN MaxAttempts
    ELSE IF pc = "invoke" THEN MaxAttempts - tries
    ELSE 0

\* What the round may have added since its checkpoint was stored.
Unsaved ==
    IF \/ pc \in {"initial", "loop", "down", "answer"}
       \/ pc = "calls" /\ left = {}
    THEN 0
    ELSE 2 * MaxAttempts - Due

\* A round is counted when it begins; a run that continues from the last
\* checkpoint repeats at most one, for which the crash is counted.
CostInv ==
    /\ invoked <= Cost(MaxLoops + crashes)
    /\ pc \notin {"down", "ended"} => invoked + Due <= Cost(st.loops + crashes)
    /\ saved # None /\ pc # "ended" => invoked <= Cost(saved.st.loops + crashes) + Unsaved


LEMMA CostStep == TypeOK /\ CostInv /\ [Next]_vars => CostInv'
<1> SUFFICES ASSUME TypeOK, CostInv, [Next]_vars PROVE CostInv'
  OBVIOUS
<1>0. /\ st \in State /\ st.loops \in Nat /\ st.loops <= MaxLoops
      /\ invoked \in Nat /\ crashes \in Nat /\ MaxLoops \in Nat
      /\ MaxAttempts \in Nat \ {0} /\ tries \in 0..MaxAttempts
      /\ saved # None => saved \in Checkpoint /\ saved.st \in State
                           /\ saved.st.loops \in Nat /\ saved.st.loops <= MaxLoops
  BY AgentAssumption DEF TypeOK, State, Checkpoint
<1>c. /\ Cost(MaxLoops + crashes) \in Nat
      /\ Cost(st.loops + crashes) \in Nat
      /\ Cost(st.loops + crashes) <= Cost(MaxLoops + crashes)
      /\ saved # None => Cost(saved.st.loops + crashes) \in Nat
  <2>1. /\ MaxLoops + crashes \in Nat /\ st.loops + crashes \in Nat
        /\ st.loops + crashes <= MaxLoops + crashes
        /\ saved # None => saved.st.loops + crashes \in Nat
    BY <1>0
  <2> QED
    BY <2>1, CostRules
<1> USE <1>0, <1>c DEF CostInv, Due, Unsaved, history
<1>1. CASE UNCHANGED vars
  BY <1>1 DEF vars
<1>2. CASE Saves
  <2>1. PICK p \in Calls \cup {None}, a \in BOOLEAN :
          \/ /\ pc \in {"initial", "compact", "pending", "save", "part", "final", "ask"}
             /\ pc' \in {"loop", "invoke", "start", "calls", "succeeded", "wait"}
             /\ pc' = "invoke" <=> pc = "compact"
             /\ saved' = Snapshot(p, a)
          \/ /\ pc' = "failed"
             /\ pc \in {"initial", "compact", "pending", "save", "part", "final", "ask"}
             /\ saved' \in {saved, Snapshot(p, a)}
    BY <1>2 DEF TypeOK, Saves, SaveInitial, SaveCompacted, SavePending, SaveResult, SavePart,
                SaveFinal, SaveQuestion, Save, PendingCall
  <2>2. UNCHANGED <<st, left, invoked, crashes, tries>>
    BY <1>2 DEF Saves, SaveInitial, SaveCompacted, SavePending, SaveResult, SavePart,
                SaveFinal, SaveQuestion, Save
  <2>3. Snapshot(p, a).st = st
    BY DEF Snapshot
  <2> QED
    BY <2>1, <2>2, <2>3
<1>3. CASE Attempt
  <2>1. /\ pc \in {"summarize", "invoke"} /\ tries < MaxAttempts /\ tries' = tries + 1
        /\ invoked' \in {invoked, invoked + 1}
        /\ UNCHANGED <<pc, st, left, saved, crashes>>
    BY <1>3 DEF Attempt
  <2>2. Due' = Due - 1 /\ Unsaved' = Unsaved + 1
    BY <2>1
  <2>3. invoked' <= invoked + 1 /\ invoked' \in Nat /\ Due \in Nat /\ Due > 0
    BY <2>1
  <2>4. pc \notin {"down", "ended"}
    BY <2>1
  <2> QED
    BY <2>1, <2>2, <2>3, <2>4
<1>4. CASE Summarize
  <2>1. /\ pc = "summarize" /\ pc' \in {"compact", "invoke", "failed"} /\ tries' = 0
        /\ UNCHANGED <<st, left, saved, invoked, crashes>>
    BY <1>4 DEF Summarize
  <2> QED
    BY <2>1
<1>5. CASE NoResponse \/ ToolCalls \/ PartOfAnswer \/ FinalAnswer
  <2>1. /\ pc = "invoke" /\ tries' = 0 /\ st'.loops = st.loops
        /\ UNCHANGED <<saved, invoked, crashes>>
    BY <1>5 DEF State, NoResponse, ToolCalls, PartOfAnswer, FinalAnswer, Response
  <2>2. \/ pc' \in {"failed", "part", "final"}
        \/ pc' = "calls" /\ left' # {}
    <3>1. CASE NoResponse \/ PartOfAnswer \/ FinalAnswer
      <4>1. pc' = "failed" \/ pc' = "part" \/ pc' = "final"
        BY <3>1 DEF NoResponse, PartOfAnswer, FinalAnswer
      <4> QED
        BY <4>1
    <3>2. CASE ToolCalls
      <4>1. Cardinality(left') \in 1..MaxCalls /\ pc' = "calls"
        BY <3>2 DEF ToolCalls
      <4>2. 0 \notin 1..MaxCalls
        BY <1>0
      <4>3. left' # {}
        BY <4>1, <4>2, FS_EmptySet, Zenon
      <4> QED
        BY <4>1, <4>3
    <3> QED
      BY <1>5, <3>1, <3>2, Zenon
  <2>3. Due' = 0 /\ Due >= 0 /\ Unsaved' = 2 * MaxAttempts /\ Unsaved <= Unsaved'
    BY <2>1, <2>2
  <2> QED
    BY <2>1, <2>2, <2>3
<1>6. CASE Loop
  <2>1. /\ pc = "loop" /\ UNCHANGED <<left, saved, invoked, crashes, tries>>
        /\ \/ st'.loops = st.loops + 1 /\ pc' \in {"summarize", "invoke", "failed"}
           \/ UNCHANGED st /\ pc' = "failed"
    BY <1>6 DEF State, Loop, AnotherRound, Counted
  <2>2. Cost((st.loops + 1) + crashes) = Cost(st.loops + crashes) + 2 * MaxAttempts
    <3>1. (st.loops + 1) + crashes = (st.loops + crashes) + 1 /\ st.loops + crashes \in Nat
      OBVIOUS
    <3> QED
      BY <3>1, CostRules
  <2>3. \/ st'.loops = st.loops + 1
        \/ st'.loops = st.loops /\ pc' = "failed"
    BY <2>1
  <2>4. /\ pc' \in {"summarize", "invoke", "failed"}
        /\ Due = 0 /\ Unsaved = 0 /\ Due' <= 2 * MaxAttempts /\ Unsaved' >= 0
        /\ pc' = "failed" => Due' = 0
    BY <2>1
  <2> QED
    BY <2>1, <2>2, <2>3, <2>4
<1>7. CASE NextCall
  <2>1. st'.loops = st.loops
    BY <1>7 DEF State, NextCall
  <2> QED
    BY <1>7, <2>1 DEF NextCall
<1>8. CASE Execute \/ Answered \/ ResumeWithAnswer
  <2>1. st'.loops = st.loops /\ UNCHANGED <<left, saved, invoked, crashes, tries>>
    BY <1>8 DEF State, Execute, Answered, ResumeWithAnswer
  <2>2. \/ pc \in {"execute", "wait"} /\ pc' \in {"complete", "save", "failed"}
        \/ pc = "answer" /\ pc' = "initial"
    BY <1>8 DEF Execute, Answered, ResumeWithAnswer
  <2> QED
    BY <2>1, <2>2
<1>9. CASE EmitStarted \/ EmitCompleted \/ EndTurn
  BY <1>9 DEF EmitStarted, EmitCompleted, EndTurn
<1>10. CASE Crash
  <2>1. pc' = "down" /\ crashes' = crashes + 1 /\ UNCHANGED <<st, left, saved, invoked>>
    BY <1>10 DEF Crash
  <2>2. \A n \in 0..MaxLoops :
          Cost(n + (crashes + 1)) = Cost(n + crashes) + 2 * MaxAttempts
    <3>1. \A n \in 0..MaxLoops : n + (crashes + 1) = (n + crashes) + 1 /\ n + crashes \in Nat
      OBVIOUS
    <3> QED
      BY <3>1, CostRules
  <2>3. /\ Cost(MaxLoops + crashes') = Cost(MaxLoops + crashes) + 2 * MaxAttempts
        /\ saved # None =>
             Cost(saved.st.loops + crashes') = Cost(saved.st.loops + crashes) + 2 * MaxAttempts
    <3>1. MaxLoops \in 0..MaxLoops /\ (saved # None => saved.st.loops \in 0..MaxLoops)
      OBVIOUS
    <3>2. crashes' = crashes + 1
      BY <2>1
    <3> HIDE DEF CostInv, Due, Unsaved
    <3> QED
      BY <2>2, <3>1, <3>2
  <2>4. Unsaved <= 2 * MaxAttempts /\ Unsaved' = 0 /\ pc # "ended"
    BY <1>10, <2>1 DEF Crash
  <2>5. saved # None => invoked <= Cost(saved.st.loops + crashes) + 2 * MaxAttempts
    BY <2>4
  <2>6. invoked' <= Cost(MaxLoops + crashes')
    BY <2>1, <2>3
  <2>7. saved' # None => invoked' <= Cost(saved'.st.loops + crashes') + Unsaved'
    BY <2>1, <2>3, <2>4, <2>5
  <2> QED
    BY <2>1, <2>6, <2>7 DEF CostInv
<1>11. CASE Restore
  <2>1. st'.loops = saved.st.loops /\ UNCHANGED <<saved, invoked, crashes>>
    BY <1>11 DEF State, Restore, LoopsRestored
  <2>2. pc = "down" /\ saved # None /\ pc' \in {"answer", "initial", "ended"}
    BY <1>11 DEF Restore, RestoredAt, Outcome
  <2> QED
    BY <2>1, <2>2
<1> QED
  BY <1>1, <1>2, <1>3, <1>4, <1>5, <1>6, <1>7, <1>8, <1>9, <1>10, <1>11, Cases DEF Invokes

-----------------------------------------------------------------------------
(* Theorems *)

\* Every value an AgentRun variable takes has its type, loopCount never exceeds
\* maxLoops, however often the run is restored.
THEOREM TypeCorrect == Spec => []TypeOK
  BY Inductive, PTL DEF IInv

\* No external tool call runs twice, whatever crashes, refusals and restores
\* happen.
THEOREM NoSecondEffect == Spec => []EffectOnce
<1>1. IInv => EffectOnce
  BY DEF IInv, LiveInv, EffectOnce
<1> QED
  BY <1>1, Inductive, PTL

\* A tool runs after its checkpoint and its tool.started were acknowledged.
THEOREM ConfirmedBefore == Spec => []StartedFirst
<1>1. IInv => StartedFirst
  BY DEF IInv, OrderInv, StartedFirst, Executed
<1> QED
  BY <1>1, Inductive, PTL

\* The model is never invoked without the result of a tool that was executed.
THEOREM NoForgottenEffect == Spec => []EffectsKnown
<1>1. IInv => EffectsKnown
  BY DEF IInv, LiveInv, EffectsKnown, Executed
<1> QED
  BY <1>1, Inductive, PTL

\* The model is called, retries and summaries included, at most for MaxLoops
\* rounds and for one more per crash.
THEOREM CostLimited == Spec => []CostBounded
<1>1. Init => CostInv
  BY AgentAssumption, CostRules DEF Init, CostInv, Due
<1>2. CostInv => CostBounded
  BY DEF CostInv, Cost, CostBounded, CostLimit
<1>3. IInv => TypeOK
  BY DEF IInv
<1> QED
  BY <1>1, <1>2, <1>3, CostStep, Inductive, PTL DEF Spec
=============================================================================
