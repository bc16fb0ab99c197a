------------------------------ MODULE AgentRun ------------------------------
(***************************************************************************)
(* The loop of an Agent in Task mode (engine/agent.go, Agent.run), with    *)
(* the checkpoints and tool events that the application acknowledges, a    *)
(* process that may crash between any two steps, and RestoreTask from the  *)
(* last checkpoint that the application has stored.                        *)
(*                                                                         *)
(* What the run keeps in its Memory and its counters is the record st:     *)
(*   issued    the tool calls that the model asked for                     *)
(*   results   those with a Tool message in Memory                         *)
(*   content   lastContent: none, part (a response cut by its token limit) *)
(*             or whole                                                    *)
(*   loops     loopCount                                                   *)
(* A call is of an external tool, a question (request_user_input) or a     *)
(* note (report_progress).  A tool that fails has a result, too.  The      *)
(* order of the calls of one response is any order.  Best-effort events    *)
(* are left out, and so are the messages that compaction folds into the    *)
(* summary, only its model calls and its checkpoint are there.             *)
(***************************************************************************)
EXTENDS Naturals, FiniteSets

CONSTANTS
    Calls,      \* identifiers of tool calls
    Kind,       \* tool, ask or note, for each of them
    MaxCalls,   \* bound: calls in one response of the model
    MaxLoops,   \* runConfig.maxLoops
    MaxAttempts, \* RetryConfig.MaxAttempts
    MaxCrashes, \* bound: crashes of the process
    None

Tools == {c \in Calls : Kind[c] = "tool"}

State == [issued : SUBSET Calls, results : SUBSET Calls,
          content : {"none", "part", "whole"}, loops : 0..MaxLoops]

Checkpoint == [st : State, pending : Calls \cup {None}, asked : BOOLEAN]

ASSUME AgentAssumption ==
    /\ Kind \in [Calls -> {"tool", "ask", "note"}]
    /\ MaxCalls \in Nat /\ MaxLoops \in Nat /\ MaxCrashes \in Nat
    /\ MaxAttempts \in Nat \ {0}
    /\ None \notin Calls \cup Checkpoint
    /\ None \notin {"completed", "failed", "interrupted"}

VARIABLES
    pc,         \* where the run stands
    st,         \* Memory and counters of the run
    left,       \* the calls of the last response that are still to be handled
    cur,        \* the call that is being handled
    tries,      \* the attempts of the model call that is going on
    saved,      \* the last checkpoint that the application stored
    started,    \* the calls whose tool.started the application acknowledged
    effects,    \* history: how often each external tool was executed
    invoked,    \* history: how often the model was invoked, every attempt
    crashes,    \* history: how often the process crashed
    result      \* state.result, None while the turn is open

history == <<started, effects, invoked, crashes>>
vars == <<pc, st, left, cur, saved, history, tries, result>>

TypeOK ==
    /\ pc \in {"initial", "loop", "summarize", "compact", "invoke", "calls", "pending", "start",
               "execute", "complete", "ask", "wait", "save", "part", "final", "failed",
               "succeeded", "down", "answer", "ended"}
    /\ st \in State
    /\ left \in SUBSET Calls
    /\ cur \in Calls \cup {None}
    /\ tries \in 0..MaxAttempts
    /\ saved \in Checkpoint \cup {None}
    /\ started \in SUBSET Tools
    /\ effects \in [Tools -> Nat]
    /\ invoked \in Nat
    /\ crashes \in 0..MaxCrashes
    /\ result \in {"completed", "failed", "interrupted", None}

Init ==
    /\ pc = "initial"
    /\ st = [issued |-> {}, results |-> {}, content |-> "none", loops |-> 0]
    /\ left = {} /\ cur = None /\ tries = 0
    /\ saved = None
    /\ started = {} /\ effects = [c \in Tools |-> 0] /\ invoked = 0 /\ crashes = 0
    /\ result = None

-----------------------------------------------------------------------------
(* Checkpoints *)

Snapshot(pending, asked) == [st |-> st, pending |-> pending, asked |-> asked]

\* checkpoint.ready: acknowledged, or the run fails, and then the application
\* may have stored it or not.
Save(here, pending, asked, next) ==
    /\ pc = here
    /\ \/ pc' = next /\ saved' = Snapshot(pending, asked)
       \/ pc' = "failed" /\ saved' \in {saved, Snapshot(pending, asked)}
    /\ UNCHANGED <<st, left, cur, history, tries, result>>

SaveInitial == Save("initial", None, FALSE, "loop")

\* The summary is in Memory; whether it is stored decides how the round goes on.
SaveCompacted == Save("compact", None, FALSE, "invoke")

\* A plausible bug: the checkpoint before a tool does not name its call.
PendingForgotten == None

\* The unresolved call in the checkpoint before a tool runs.
PendingCall == cur

SavePending == Save("pending", PendingCall, FALSE, "start")

SaveResult == Save("save", None, FALSE, "calls")

SavePart == Save("part", None, FALSE, "loop")

SaveFinal == Save("final", None, FALSE, "succeeded")

-----------------------------------------------------------------------------
(* The loop *)

\* A plausible bug: the loop is not counted.
CountedNot == st.loops

Counted == st.loops + 1

AnotherRound == st.loops < MaxLoops

\* The next round: compaction first, when Memory is long; the context may be
\* done.
Loop ==
    /\ pc = "loop"
    /\ \/ /\ AnotherRound
          /\ st' = [st EXCEPT !.loops = Counted]
          /\ pc' \in {"summarize", "invoke", "failed"}
       \/ /\ ~AnotherRound
          /\ UNCHANGED st
          /\ pc' = "failed"
    /\ UNCHANGED <<left, cur, saved, history, tries, result>>

-----------------------------------------------------------------------------
(* Model calls *)

\* What CostBounded allows so far.
CostLimit == 2 * MaxAttempts * (MaxLoops + crashes)

\* invokeModelWithTaskPolicy invokes the model for a summary or for the next
\* message, once more when an attempt has failed with an error that may be
\* retried.  invoked is counted up to one more than CostBounded allows.
Attempt ==
    /\ pc \in {"summarize", "invoke"} /\ tries < MaxAttempts
    /\ tries' = tries + 1
    /\ invoked' = IF invoked > CostLimit THEN invoked ELSE invoked + 1
    /\ UNCHANGED <<pc, st, left, cur, saved, started, effects, crashes, result>>

\* The summary comes from the Summarizer of the Task or from the model; or
\* there is none, which is an error at the hard limit of messages only.
Summarize ==
    /\ pc = "summarize"
    /\ pc' \in {"compact", "invoke", "failed"}
    /\ tries' = 0
    /\ UNCHANGED <<st, left, cur, saved, history, result>>

\* The call fails, open circuit included, or answers nothing.
NoResponse ==
    /\ pc = "invoke"
    /\ pc' = "failed"
    /\ tries' = 0
    /\ UNCHANGED <<st, left, cur, saved, history, result>>

\* The last attempt succeeds.
Response ==
    /\ pc = "invoke" /\ tries > 0
    /\ tries' = 0
    /\ UNCHANGED <<cur, saved, history, result>>

\* The model asks for tool calls.
ToolCalls ==
    /\ Response
    /\ left' \in {cs \in SUBSET (Calls \ st.issued) : Cardinality(cs) \in 1..MaxCalls}
    /\ st' = [st EXCEPT !.issued = @ \cup left']
    /\ pc' = "calls"

\* It hits its token limit, with or without visible text.
PartOfAnswer ==
    /\ Response
    /\ \E text \in {st.content, "part"} : st' = [st EXCEPT !.content = text]
    /\ pc' = "part"
    /\ UNCHANGED left

FinalAnswer ==
    /\ Response
    /\ st' = [st EXCEPT !.content = "whole"]
    /\ pc' = "final"
    /\ UNCHANGED left

-----------------------------------------------------------------------------
(* Tool calls *)

NextCall ==
    /\ pc = "calls"
    /\ \/ /\ left = {}
          /\ pc' = "loop"
          /\ UNCHANGED <<left, cur, st>>
       \/ \E c \in left :
              /\ cur' = c
              /\ left' = left \ {c}
              /\ \/ Kind[c] = "tool" /\ pc' = "pending" /\ UNCHANGED st
                 \/ Kind[c] = "ask" /\ pc' = "ask" /\ UNCHANGED st
                 \/ /\ Kind[c] = "note" /\ pc' \in {"save", "failed"}
                    /\ st' = [st EXCEPT !.results = @ \cup {c}]
    /\ UNCHANGED <<saved, history, tries, result>>

\* tool.started.
EmitStarted ==
    /\ pc = "start"
    /\ \/ pc' = "execute" /\ started' = started \cup {cur}
       \/ pc' = "failed" /\ UNCHANGED started
    /\ UNCHANGED <<st, left, cur, saved, effects, invoked, crashes, tries, result>>

\* executeToolCall.  One that fails before it calls the tool counts as executed.
Execute ==
    /\ pc = "execute"
    /\ effects' = [effects EXCEPT ![cur] = @ + 1]
    /\ st' = [st EXCEPT !.results = @ \cup {cur}]
    /\ pc' = "complete"
    /\ UNCHANGED <<left, cur, saved, started, invoked, crashes, tries, result>>

\* tool.completed.
EmitCompleted ==
    /\ pc = "complete"
    /\ pc' \in {"save", "failed"}
    /\ UNCHANGED <<st, left, cur, saved, history, tries, result>>

\* RequestInput; the interleavings of a question are in module Interaction.
SaveQuestion == Save("ask", cur, TRUE, "wait")

\* The answer comes, or the wait ends with an error.
Answered ==
    /\ pc = "wait"
    /\ st' = [st EXCEPT !.results = @ \cup {cur}]
    /\ pc' \in {"save", "failed"}
    /\ UNCHANGED <<left, cur, saved, history, tries, result>>

-----------------------------------------------------------------------------
(* The end of the turn, crashes and RestoreTask *)

\* runTurn, in module TaskTurn.
EndTurn ==
    /\ \/ pc = "succeeded" /\ result' \in {"completed", "failed"}
       \/ pc = "failed" /\ result' = "failed"
    /\ pc' = "ended"
    /\ UNCHANGED <<st, left, cur, saved, history, tries>>

Crash ==
    /\ pc \notin {"down", "ended"} /\ crashes < MaxCrashes
    /\ crashes' = crashes + 1
    /\ pc' = "down"
    /\ tries' = 0
    /\ UNCHANGED <<st, left, cur, saved, started, effects, invoked, result>>

\* A plausible bug: a restored run starts counting again.
LoopsRestarted == 0

LoopsRestored == saved.st.loops

\* What RestoreTask makes of a checkpoint.
Outcome ==
    IF saved.asked THEN "waiting"
    ELSE IF saved.pending # None THEN "interrupted"
    ELSE IF saved.st.content # "none" THEN "completed" ELSE "continued"

\* A plausible bug: the unresolved call of a checkpoint is executed.
ReplayedAt ==
    [waiting |-> "answer", continued |-> "initial", interrupted |-> "start", completed |-> "ended"]

\* Where the restored run stands.
RestoredAt ==
    [waiting |-> "answer", continued |-> "initial", interrupted |-> "ended", completed |-> "ended"]

Restore ==
    /\ pc = "down" /\ saved # None
    /\ st' = [saved.st EXCEPT !.loops = LoopsRestored]
    /\ left' = {} /\ cur' = saved.pending
    /\ pc' = RestoredAt[Outcome]
    /\ result' = IF Outcome \in {"interrupted", "completed"} THEN Outcome ELSE result
    /\ UNCHANGED <<saved, history, tries>>

AnswerAppended == st.results \cup {cur}

\* AnswerInteraction on the restored question: the answer is appended, and
\* the run begins, as every run, with its initial checkpoint.
ResumeWithAnswer ==
    /\ pc = "answer"
    /\ st' = [st EXCEPT !.results = AnswerAppended]
    /\ pc' = "initial"
    /\ UNCHANGED <<left, cur, saved, history, tries, result>>

Step ==
    \/ SaveInitial \/ SaveCompacted \/ SavePending \/ SaveResult \/ SavePart \/ SaveFinal
    \/ Loop \/ Attempt \/ Summarize \/ NoResponse \/ ToolCalls \/ PartOfAnswer \/ FinalAnswer
    \/ NextCall \/ EmitStarted \/ Execute \/ EmitCompleted \/ SaveQuestion
    \/ EndTurn

Next == Step \/ Answered \/ Crash \/ Restore \/ ResumeWithAnswer

\* The run goes on, the model, the tools and the sink return.  Nobody has to
\* answer, and a crashed process need not be restored.
Spec == Init /\ [][Next]_vars /\ WF_vars(Step)

-----------------------------------------------------------------------------
(* Properties *)

\* docs/08-orchestration.md:598: executing a tool again could repeat its side
\* effects.  Whatever crashes and restores happen, no tool call runs twice.
EffectOnce == \A c \in Tools : effects[c] <= 1

\* The same passage: first the checkpoint is confirmed, then tool.started, only
\* then the tool is called.
StartedFirst ==
    /\ pc = "execute" => cur \in started /\ saved # None /\ saved.pending = cur
    /\ \A c \in Tools : effects[c] > 0 => c \in started

\* The model never decides in ignorance of a side effect: a run that invokes
\* it, restored or not, has the result of every tool that was executed, and no
\* result of a tool that was not.
EffectsKnown ==
    pc = "invoke" => {c \in Tools : effects[c] > 0} = st.results \cap Tools

\* docs/03-runtime-engine.md:114: MaxLoops limits the cost.  It limits the
\* rounds, but for the one that each crash may make the run repeat; a round
\* calls the model for a summary and for its message, each with at most
\* MaxAttempts attempts.
CostBounded == invoked <= CostLimit

\* A run ends by itself, but for a question that waits and for a crash.
RunSettles == []<>(pc \in {"ended", "wait", "answer", "down"})

=============================================================================
