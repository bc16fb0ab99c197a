---------------------------- MODULE RestoredTurn ----------------------------
(***************************************************************************)
(* A turn that RestoreTask installed from a checkpoint (task_runtime.go):  *)
(* installCheckpoint, continueRestoredAgent, resumeRestoredInteraction,    *)
(* and CancelTurn and Close on such a turn.                                *)
(*                                                                         *)
(* A checkpoint is abstracted to what restoring it tells apart:            *)
(*   kind      agent, team or workflow (the choice that has an Agent)      *)
(*   pending   the unresolved tool call: none, ask (request_user_input)    *)
(*             or tool (an external tool)                                  *)
(*   asked     its Interaction is set                                      *)
(*   text      LastContent is not empty                                    *)
(*   known     the new Harness has the agent, team or workflow             *)
(* A run of the turn is a goroutine in runTurn, named by who started it:   *)
(* Restorer, or the AnswerInteraction call that brought the answer.  What  *)
(* runTurn emits is in TaskTurn; here it ends with the verdict, or with    *)
(* failed when an emission was refused.  What TaskTurn also names has      *)
(* another name here, so that one module can speak of both.                *)
(***************************************************************************)
EXTENDS Naturals

CONSTANTS
    Checkpoints,    \* the checkpoints that may be restored
    Answerers,      \* calls of AnswerInteraction
    Restorer,       \* continueRestoredAgent, as the starter of a run
    Refusals,       \* subset of {"responded", "running"}: what the sink may refuse
    None

Starters == Answerers \cup {Restorer}

Checkpoint ==
    {c \in [kind : {"agent", "team", "workflow"}, pending : {"none", "ask", "tool"},
            asked : BOOLEAN, text : BOOLEAN, known : BOOLEAN] :
        c.asked => c.pending = "ask"}

ASSUME RestoredAssumption ==
    /\ Checkpoints \subseteq Checkpoint
    /\ Restorer \notin Answerers
    /\ None \notin Starters \cup {"completed", "failed", "cancelled", "interrupted"}
    /\ Refusals \subseteq {"responded", "running"}

VARIABLES
    cp,         \* the checkpoint
    restored,   \* RestoreTask has returned
    turnStatus, \* turn.Status
    result,     \* state.result and state.done: None while the turn is open
    waiting,    \* the question is in Task.pending
    run,        \* where each run stands in runTurn
    cancel,     \* state.cancel: the run it belongs to, None for the empty function
    cancelled,  \* the runs whose own context was cancelled
    call,       \* where each AnswerInteraction stands
    taskClosed  \* Task.closed and Task.ctx

turn == <<turnStatus, result, run>>
restoredVars == <<cp, restored, turn, waiting, cancel, cancelled, call, taskClosed>>

Verdicts == {"completed", "failed", "cancelled"}

RestoredTypeOK ==
    /\ cp \in Checkpoints
    /\ restored \in BOOLEAN
    /\ turnStatus \in Verdicts \cup {"running", "waiting_input", "interrupted"}
    /\ result \in Verdicts \cup {"interrupted", None}
    /\ (result = None) <=> turnStatus \in {"running", "waiting_input"}
    /\ waiting \in BOOLEAN
    /\ run \in [Starters -> Verdicts \cup {"none", "running", "ended"}]
    /\ cancel \in Starters \cup {None}
    /\ cancelled \in SUBSET Starters
    /\ call \in [Answerers -> {"idle", "emit", "take", "arm", "resume", "accepted", "error"}]
    /\ taskClosed \in BOOLEAN

-----------------------------------------------------------------------------
(* RestoreTask *)

\* A checkpoint that counts as the end of the turn.
IsFinished(c) ==
    ~c.asked /\ c.kind = "agent" /\ c.pending = "none" /\ c.text

\* A plausible bug: an agent goes on although a tool call is unresolved.
ContinuesAnyAgent(c) == ~c.asked /\ c.kind = "agent" /\ ~IsFinished(c)

\* A checkpoint from which the agent goes on by itself.
Continues(c) ==
    ~c.asked /\ c.kind = "agent" /\ c.pending = "none" /\ ~IsFinished(c)

\* A plausible bug: the turn is left open instead of interrupted.
NeverInterrupted(c) == IF IsFinished(c) THEN "completed" ELSE "open"

\* installCheckpoint.
Installed(c) ==
    IF c.asked THEN "open"
    ELSE IF IsFinished(c) THEN "completed"
    ELSE IF Continues(c) THEN "open" ELSE "interrupted"

RestoredInit ==
    /\ cp \in Checkpoints
    /\ restored = FALSE
    /\ turnStatus = IF Installed(cp) # "open" THEN Installed(cp)
                    ELSE IF cp.asked THEN "waiting_input" ELSE "running"
    /\ result = IF Installed(cp) = "open" THEN None ELSE Installed(cp)
    /\ waiting = cp.asked
    /\ run = [s \in Starters |-> "none"]
    /\ cancel = None
    /\ cancelled = {}
    /\ call = [w \in Answerers |-> "idle"]
    /\ taskClosed = FALSE

\* continueRestoredAgent.  Without the agent it returns, and the turn stays open.
Restore ==
    /\ ~restored
    /\ restored' = TRUE
    /\ IF Continues(cp) /\ cp.known
       THEN /\ run' = [run EXCEPT ![Restorer] = "running"]
            /\ cancel' = Restorer
            /\ turnStatus' = "running"
       ELSE UNCHANGED <<run, cancel, turnStatus>>
    /\ UNCHANGED <<cp, result, waiting, cancelled, call, taskClosed>>

-----------------------------------------------------------------------------
(* AnswerInteraction and resumeRestoredInteraction *)

Go(w, here, there) == call[w] = here /\ call' = [call EXCEPT ![w] = there]

Lookup(w) ==
    /\ restored /\ waiting
    /\ Go(w, "idle", "emit")
    /\ UNCHANGED <<cp, restored, turn, waiting, cancel, cancelled, taskClosed>>

EmitResponded(w) ==
    /\ \/ Go(w, "emit", "take")
       \/ "responded" \in Refusals /\ Go(w, "emit", "error")
    /\ UNCHANGED <<cp, restored, turn, waiting, cancel, cancelled, taskClosed>>

\* A plausible bug: the question is not looked up again under the lock.
AnswerableOnce == TRUE

\* Is the question still there for the call that takes it?
Answerable == waiting

TakeQuestion(w) ==
    /\ \/ Answerable /\ Go(w, "take", "arm") /\ waiting' = FALSE
       \/ ~Answerable /\ Go(w, "take", "error") /\ UNCHANGED waiting
    /\ UNCHANGED <<cp, restored, turn, cancel, cancelled, taskClosed>>

ArmCancel(w) ==
    /\ Go(w, "arm", "resume")
    /\ cancel' = w
    /\ turnStatus' = "running"
    /\ UNCHANGED <<cp, restored, result, run, waiting, cancelled, taskClosed>>

\* The status event, the lookup of the target, and the start of the run.
Resume(w) ==
    /\ \/ /\ Go(w, "resume", "accepted")
          /\ cp.known
          /\ run' = [run EXCEPT ![w] = "running"]
          /\ UNCHANGED cancelled
       \/ /\ Go(w, "resume", "error")
          /\ "running" \in Refusals \/ ~cp.known
          /\ cancelled' = cancelled \cup {w}
          /\ UNCHANGED run
    /\ UNCHANGED <<cp, restored, turnStatus, result, waiting, cancel, taskClosed>>

-----------------------------------------------------------------------------
(* runTurn *)

\* A plausible bug: the context of the run is not derived from the Task's.
OwnContextDone(s) == s \in cancelled

RunContextDone(s) == s \in cancelled \/ taskClosed

\* The agent, team or workflow returns: any time with an outcome of its own,
\* and for sure when its context is done.
RunReturns(s) ==
    /\ run[s] = "running"
    /\ \E verdict \in {"completed", IF RunContextDone(s) THEN "cancelled" ELSE "failed"} :
           run' = [run EXCEPT ![s] = verdict]
    /\ UNCHANGED <<cp, restored, turnStatus, result, waiting, cancel, cancelled, call, taskClosed>>

\* The terminal events are emitted, the result is stored, done is closed.
EndTurn(s) ==
    /\ run[s] \in Verdicts
    /\ \E verdict \in {run[s], "failed"} : turnStatus' = verdict /\ result' = verdict
    /\ run' = [run EXCEPT ![s] = "ended"]
    /\ UNCHANGED <<cp, restored, waiting, cancel, cancelled, call, taskClosed>>

CancelRestored ==
    /\ restored
    /\ cancelled' = cancelled \cup ({cancel} \ {None})
    /\ UNCHANGED <<cp, restored, turn, waiting, cancel, call, taskClosed>>

CloseRestored ==
    /\ restored /\ ~taskClosed
    /\ taskClosed' = TRUE
    /\ UNCHANGED <<cp, restored, turn, waiting, cancel, cancelled, call>>

Answer(w) == EmitResponded(w) \/ TakeQuestion(w) \/ ArmCancel(w) \/ Resume(w)

RestoredNext ==
    \/ Restore \/ CancelRestored \/ CloseRestored
    \/ \E w \in Answerers : Lookup(w) \/ Answer(w)
    \/ \E s \in Starters : RunReturns(s) \/ EndTurn(s)

\* RestoreTask and calls that have begun go on; a run whose context is done
\* returns, and runTurn ends the turn.  Nobody has to answer, cancel or close.
RestoredFairness ==
    /\ WF_restoredVars(Restore)
    /\ \A w \in Answerers : WF_restoredVars(Answer(w))
    /\ \A s \in Starters : WF_restoredVars(RunContextDone(s) /\ RunReturns(s)) /\ WF_restoredVars(EndTurn(s))

RestoredSpec == RestoredInit /\ [][RestoredNext]_restoredVars /\ RestoredFairness

-----------------------------------------------------------------------------
(* Properties *)

\* task_runtime.go:548: an "external tool result is unknown and will not be
\* replayed".  No run starts from a checkpoint with an unresolved external tool
\* call, or with a question that nobody has answered.
NothingReplayed ==
    \A s \in Starters : run[s] # "none" =>
        \/ cp.pending = "none"
        \/ cp.pending = "ask" /\ s # Restorer /\ call[s] = "accepted"

\* However many answers race, the turn is run once.  A second run would share
\* its conversation, and would close state.done again, which panics.
RunOnce ==
    \A s, u \in Starters : run[s] # "none" /\ run[u] # "none" => s = u

\* A turn that has ended is neither waiting nor running again.
EndIsFinal == [][result # None => UNCHANGED <<result, turnStatus, waiting>>]_restoredVars

\* The code has two ways to leave a restored turn open for good: the Harness
\* lacks the target, or the status event of the answer that took the question
\* was refused.
ResumeRefused == cancel \in Answerers /\ call[cancel] = "error"

\* In no other way is a restored turn stuck: it will be run, it runs, it waits
\* for an answer, or a call is about to run it.
NotStranded ==
    result = None =>
        \/ ~cp.known \/ ResumeRefused
        \/ ~restored \/ waiting
        \/ \E s \in Starters : run[s] \in Verdicts \cup {"running"}
        \/ \E w \in Answerers : call[w] \in {"arm", "resume"}

\* Cancelling or closing ends a turn that runs again.
RunEnds ==
    \A s \in Starters : run[s] = "running" /\ (taskClosed \/ s \in cancelled) ~> result # None
=============================================================================
