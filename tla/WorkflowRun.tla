---------------------------- MODULE WorkflowRun -----------------------------
(***************************************************************************)
(* A Workflow in Task mode (workflow/workflow.go, workflow/                *)
(* task_runtime.go) and the checkpoints by which it is resumed after a     *)
(* crash, composed by turnRuntime.Checkpoint (task_runtime.go).            *)
(*                                                                         *)
(* Steps, conditions, loops and parallel nodes form trees.  A step runs    *)
(* one agent of its own, reduced to what it checkpoints: its start, a call *)
(* of an external tool before and after it, a question and its answer, its *)
(* end.  A text is the set of steps whose output it holds.  The children   *)
(* of a parallel node interleave at every lock and emission of a           *)
(* checkpoint; between top-level nodes nothing else runs.  A context that  *)
(* is cancelled is one of the reasons for which an agent fails.            *)
(***************************************************************************)
EXTENDS Naturals, Sequences, SequencesExt

CONSTANTS
    Nodes,       \* nodes of the workflow
    Kind,        \* the type of each
    Children,    \* its children in their order; None for an absent branch
    Path,        \* the path of each node from its top-level node
    Workflows,   \* sequences of top-level nodes: Workflow.Nodes
    MaxIter,     \* LoopNode.MaxIter
    MaxWork,     \* bound: tools and questions of an agent's run, for each workflow
    MaxCrashes,  \* bound: crashes of the process, for each workflow
    None

Steps == {n \in Nodes : Kind[n] = "step"}
Conditions == {n \in Nodes : Kind[n] = "condition"}
Loops == {n \in Nodes : Kind[n] = "loop"}
Parallels == {n \in Nodes : Kind[n] = "parallel"}

\* Workflow.ValidateTaskMode: nodes of the four types, with their children, and
\* no top-level node twice.
ValidTaskMode ==
    /\ None \notin Nodes
    /\ Kind \in [Nodes -> {"step", "condition", "loop", "parallel"}]
    /\ Children \in [Nodes -> Seq(Nodes \cup {None})]
    /\ \A n \in Steps : Children[n] = <<>>
    /\ \A n \in Conditions : Len(Children[n]) = 2
    /\ \A n \in Loops : Len(Children[n]) = 1 /\ Children[n][1] # None
    /\ \A n \in Parallels : None \notin ToSet(Children[n])
    /\ \A w \in Workflows : w \in Seq(Nodes) /\ IsInjective(w)

ASSUME WorkflowAssumption ==
    /\ ValidTaskMode
    /\ MaxIter \in Nat \ {0} /\ MaxWork \in [Workflows -> Nat] /\ MaxCrashes \in [Workflows -> Nat]
    /\ Path \in [Nodes -> Seq(Nodes)]
    /\ \A w \in Workflows : \A i \in DOMAIN w : Path[w[i]] = <<w[i]>>
    /\ \A n \in Nodes : \A i \in DOMAIN Children[n] :
          Children[n][i] \in Nodes => Path[Children[n][i]] = Append(Path[n], Children[n][i])
    /\ \A n \in Nodes : Path[n] # <<>> /\ Path[n][Len(Path[n])] = n
    /\ \A n \in Nodes : \A i \in DOMAIN Path[n] : Path[Path[n][i]] = SubSeq(Path[n], 1, i)
    /\ \A n \in Nodes : \A i \in 1..(Len(Path[n]) - 1) :
          \E j \in DOMAIN Children[Path[n][i]] : Children[Path[n][i]][j] = Path[n][i + 1]

Texts == SUBSET Steps

VARIABLES
    top,        \* Workflow.Nodes of this workflow
    up,         \* does the process run?
    turn,       \* where Workflow.Run or Resume stands, or how it has ended
    resumed,    \* is it Resume?
    from,       \* the checkpoint that Resume was given
    next, cur,  \* index of the top-level node, and its input
    pc, mode,   \* where each node stands; is it executed or resumed?
    in, out,    \* its input and its output
    iter,       \* the iteration of each loop, a local of Execute
    tracker,    \* workflowTracker
    agent,      \* what the agent of each step would checkpoint
    save,       \* the checkpoint each node is about to make
    current,    \* turnRuntime.checkpoint
    stored,     \* the last checkpoint that the application stored
    crashes,    \* number of crashes
    spent,      \* history: the steps whose unfinished run has executed a tool
    turns,      \* history: how often the body of each loop was begun since its entry
    given       \* history: the input with which each node was first entered

position == <<top, up, turn, resumed, from, next, cur, crashes>>
node == <<pc, mode, in, out, iter>>
saved == <<save, current, stored>>
history == <<spent, turns, given>>
vars == <<position, node, tracker, agent, saved, history>>

AgentCheckpoint == [work : Nat, pending : {"none", "tool", "ask"}]

Tracker == [
    loops : [Loops -> 0..(MaxIter - 1) \cup {None}],
    branches : [Conditions -> BOOLEAN \cup {None}],
    completed : [Nodes -> Texts \cup {None}],
    agents : [Steps -> AgentCheckpoint \cup {None}]]

\* NodePath is given by the node at its end.
Checkpoint == [
    next : Nat \ {0}, at : Nodes \cup {None}, cur : Texts, tracker : Tracker,
    agent : [of : Steps, state : AgentCheckpoint] \cup {None}, question : Steps \cup {None}]

ASSUME NoneAssumption ==
    /\ None \notin BOOLEAN /\ None \notin Nat /\ \A text \in Texts : text # None
    /\ None \notin AgentCheckpoint /\ None \notin [of : Steps, state : AgentCheckpoint]
    /\ None \notin Checkpoint

NewTracker == [
    loops |-> [n \in Loops |-> None], branches |-> [n \in Conditions |-> None],
    completed |-> [n \in Nodes |-> None], agents |-> [n \in Steps |-> None]]

NewAgent == [work |-> 0, pending |-> "none"]

NoSave == [to |-> "idle", draft |-> None, previous |-> None]

TypeOK ==
    /\ top \in Workflows /\ up \in BOOLEAN /\ resumed \in BOOLEAN
    /\ turn \in {"position", "node", "completed", "failed", "interrupted"}
    /\ from \in Checkpoint \cup {None}
    /\ next \in 1..(Len(top) + 1) /\ cur \in Texts
    /\ pc \in [Nodes -> {"idle", "called", "inside", "working", "tool", "asked", "ended",
                         "complete", "snapshot", "register", "read", "write", "emit", "done", "failed"}]
    /\ mode \in [Nodes -> {"run", "resume"}]
    /\ in \in [Nodes -> Texts] /\ out \in [Nodes -> Texts]
    /\ iter \in [Loops -> 0..MaxIter]
    /\ tracker \in Tracker
    /\ agent \in [Steps -> AgentCheckpoint]
    /\ save \in [Nodes -> [to : {"idle", "working", "tool", "asked", "ended", "done"},
                          draft : Checkpoint \cup {None}, previous : Checkpoint \cup {None}]]
    /\ current \in Checkpoint \cup {None}
    /\ stored \in Checkpoint \cup {None}
    /\ crashes \in 0..MaxCrashes[top]
    /\ spent \in SUBSET Steps
    /\ turns \in [Loops -> Nat]
    /\ given \in [Nodes -> Texts]

Init ==
    /\ top \in Workflows
    /\ up = TRUE /\ turn = "position" /\ resumed = FALSE /\ from = None
    /\ next = 1 /\ cur = {}
    /\ pc = [n \in Nodes |-> "idle"]
    /\ mode = [n \in Nodes |-> "run"]
    /\ in = [n \in Nodes |-> {}] /\ out = [n \in Nodes |-> {}]
    /\ iter = [n \in Loops |-> 0]
    /\ tracker = NewTracker
    /\ agent = [s \in Steps |-> NewAgent]
    /\ save = [n \in Nodes |-> NoSave]
    /\ current = None /\ stored = None
    /\ crashes = 0
    /\ spent = {}
    /\ turns = [n \in Loops |-> 0]
    /\ given = [n \in Nodes |-> {}]

-----------------------------------------------------------------------------
(* The tree *)

Below(n, m) == \E i \in DOMAIN Path[m] : Path[m][i] = n

Inside(m, kinds) == \E n \in Nodes \ {m} : Below(n, m) /\ Kind[n] \in kinds

IsChild(c, n) == \E i \in DOMAIN Children[n] : Children[n][i] = c

Child(n, branch) == Children[n][IF branch THEN 1 ELSE 2]

Body(n) == Children[n][1]

ChildrenOf(n) == {c \in Nodes : IsChild(c, n)}

\* A child of a parallel node that is executed, and not resumed, records its
\* completion before it returns.
Recorded(n) == \E p \in Parallels : IsChild(n, p) /\ mode[p] = "run"

\* Node n returns a text, to its parent or to Run.
Returns(n, text) ==
    /\ pc' = [pc EXCEPT ![n] = IF Recorded(n) THEN "complete" ELSE "done"]
    /\ out' = [out EXCEPT ![n] = text]

-----------------------------------------------------------------------------
(* Checkpoints: wrap or checkpointState, then turnRuntime.Checkpoint *)

\* The agent of step s checkpoints state a, and goes on at to.
Saves(s, a, to) ==
    /\ pc' = [pc EXCEPT ![s] = "snapshot"]
    /\ agent' = [agent EXCEPT ![s] = a]
    /\ save' = [save EXCEPT ![s] = [NoSave EXCEPT !.to = to]]

\* Only a checkpoint of an agent, and not that of a completion, has one.
OfAgent(n) == save[n].to # "done"

\* A plausible bug: a checkpoint has the input of the top-level node.
DraftAtTop(n) == [
    next |-> next, at |-> n, cur |-> cur, tracker |-> tracker,
    agent |-> IF OfAgent(n) THEN [of |-> n, state |-> agent[n]] ELSE None,
    question |-> IF OfAgent(n) /\ agent[n].pending = "ask" THEN n ELSE None]

Draft(n) == [
    next |-> next, at |-> n, cur |-> in[n], tracker |-> tracker,
    agent |-> IF OfAgent(n) THEN [of |-> n, state |-> agent[n]] ELSE None,
    question |-> IF OfAgent(n) /\ agent[n].pending = "ask" THEN n ELSE None]

\* The copy of the tracker, under its lock.
Snapshot(n) ==
    /\ up /\ pc[n] = "snapshot"
    /\ save' = [save EXCEPT ![n].draft = Draft(n)]
    /\ pc' = [pc EXCEPT ![n] = IF OfAgent(n) THEN "register" ELSE "read"]
    /\ UNCHANGED <<position, mode, in, out, iter, tracker, agent, current, stored, history>>

\* A plausible bug: the agent enters the tracker, and not the copy.
RegisterOnly(s) ==
    /\ up /\ pc[s] = "register"
    /\ tracker' = [tracker EXCEPT !.agents[s] = agent[s]]
    /\ pc' = [pc EXCEPT ![s] = "read"]
    /\ UNCHANGED <<position, mode, in, out, iter, agent, saved, history>>

\* The agent enters the tracker under the lock taken once more, and the copy.
Register(s) ==
    /\ up /\ pc[s] = "register"
    /\ tracker' = [tracker EXCEPT !.agents[s] = agent[s]]
    /\ save' = [save EXCEPT ![s].draft.tracker.agents[s] = agent[s]]
    /\ pc' = [pc EXCEPT ![s] = "read"]
    /\ UNCHANGED <<position, mode, in, out, iter, agent, current, stored, history>>

\* turnRuntime.Checkpoint reads the previous checkpoint.
Read(n) ==
    /\ up /\ pc[n] = "read"
    /\ save' = [save EXCEPT ![n].previous = current]
    /\ pc' = [pc EXCEPT ![n] = "write"]
    /\ UNCHANGED <<position, mode, in, out, iter, tracker, agent, current, stored, history>>

\* Does a previous checkpoint wait for the answer to another agent's question?
KeepsQuestion(previous, new) ==
    /\ previous # None /\ previous.question # None
    /\ previous.agent # None /\ previous.agent.state.pending # "none"
    /\ new.agent = None \/ new.agent.of # previous.agent.of

Merged(previous, new) ==
    IF KeepsQuestion(previous, new)
    THEN [new EXCEPT
            !.agent = previous.agent, !.at = previous.at, !.question = previous.question,
            !.tracker.agents = [s \in Steps |-> IF new.tracker.agents[s] # None
                                                THEN new.tracker.agents[s]
                                                ELSE previous.tracker.agents[s]]]
    ELSE new

Write(n) ==
    /\ up /\ pc[n] = "write"
    /\ LET merged == Merged(save[n].previous, save[n].draft) IN
       /\ current' = merged
       /\ save' = [save EXCEPT ![n].draft = merged, ![n].previous = None]
    /\ pc' = [pc EXCEPT ![n] = "emit"]
    /\ UNCHANGED <<position, mode, in, out, iter, tracker, agent, stored, history>>

\* The sink acknowledges the checkpoint, or returns an error, whether it has
\* stored it or not.  A parallel child goes on regardless of its completion's.
Emit(n) ==
    /\ up /\ pc[n] = "emit"
    /\ \/ /\ stored' = save[n].draft
          /\ pc' = [pc EXCEPT ![n] = save[n].to]
       \/ /\ stored' \in {stored, save[n].draft}
          /\ pc' = [pc EXCEPT ![n] = IF OfAgent(n) THEN "failed" ELSE "done"]
    /\ save' = [save EXCEPT ![n] = NoSave]
    /\ UNCHANGED <<position, mode, in, out, iter, tracker, agent, current, history>>

-----------------------------------------------------------------------------
(* Steps *)

\* StepNode.Execute: the agent begins.
Begin(s) ==
    /\ up /\ s \in Steps /\ pc[s] = "called" /\ mode[s] = "run"
    /\ Saves(s, NewAgent, "working")
    /\ given' = [given EXCEPT ![s] = in[s]]
    /\ UNCHANGED <<position, mode, in, out, iter, tracker, current, stored, spent, turns>>

\* The saved agent that resumeWorkflowNode goes on with: that of the path, and
\* only without one that of the checkpoint.
SavedAgent(cp, s) ==
    IF cp.tracker.agents[s] # None THEN cp.tracker.agents[s]
    ELSE IF cp.agent # None THEN cp.agent.state ELSE NewAgent

\* Resume of the step that asked: the answer becomes the result of its call.
ResumeStep(s) ==
    /\ up /\ s \in Steps /\ pc[s] = "called" /\ mode[s] = "resume"
    /\ LET a == SavedAgent(from, s) IN
       IF a.pending # "none"
       THEN Saves(s, [a EXCEPT !.pending = "none"], "working")
       ELSE pc' = [pc EXCEPT ![s] = "failed"] /\ UNCHANGED <<agent, save>>
    /\ UNCHANGED <<position, mode, in, out, iter, tracker, current, stored, history>>

\* The model wants a tool, or asks.
Work(s, kind) ==
    /\ up /\ s \in Steps /\ pc[s] = "working" /\ agent[s].work < MaxWork[top]
    /\ Saves(s, [work |-> agent[s].work + 1, pending |-> kind],
             IF kind = "tool" THEN "tool" ELSE "asked")
    /\ UNCHANGED <<position, mode, in, out, iter, tracker, current, stored, history>>

ToolReturns(s) ==
    /\ up /\ s \in Steps /\ pc[s] = "tool"
    /\ Saves(s, [agent[s] EXCEPT !.pending = "none"], "working")
    /\ spent' = spent \cup {s}
    /\ UNCHANGED <<position, mode, in, out, iter, tracker, current, stored, turns, given>>

Answered(s) ==
    /\ up /\ s \in Steps /\ pc[s] = "asked"
    /\ Saves(s, [agent[s] EXCEPT !.pending = "none"], "working")
    /\ UNCHANGED <<position, mode, in, out, iter, tracker, current, stored, history>>

\* The final answer of the agent, and the return of its step.
Finish(s) ==
    /\ up /\ s \in Steps /\ pc[s] = "working"
    /\ Saves(s, agent[s], "ended")
    /\ UNCHANGED <<position, mode, in, out, iter, tracker, current, stored, history>>

StepReturns(s) ==
    /\ up /\ s \in Steps /\ pc[s] = "ended"
    /\ Returns(s, {s})
    /\ spent' = spent \ {s}
    /\ UNCHANGED <<position, mode, in, iter, tracker, agent, saved, turns, given>>

StepFails(s) ==
    /\ up /\ s \in Steps /\ pc[s] \in {"working", "tool", "asked"}
    /\ pc' = [pc EXCEPT ![s] = "failed"]
    /\ UNCHANGED <<position, mode, in, out, iter, tracker, agent, saved, history>>

\* The goroutine of a parallel child, after the child has returned a text.
Complete(n) ==
    /\ up /\ pc[n] = "complete"
    /\ tracker' = [tracker EXCEPT !.completed[n] = out[n]]
    /\ save' = [save EXCEPT ![n] = [NoSave EXCEPT !.to = "done"]]
    /\ pc' = [pc EXCEPT ![n] = "snapshot"]
    /\ UNCHANGED <<position, mode, in, out, iter, agent, current, stored, history>>

Step(n) ==
    \/ Snapshot(n) \/ Register(n) \/ Read(n) \/ Write(n) \/ Emit(n) \/ Complete(n)
    \/ Begin(n) \/ ResumeStep(n) \/ ToolReturns(n) \/ Finish(n) \/ StepReturns(n)
    \/ \E kind \in {"tool", "ask"} : Work(n, kind)

-----------------------------------------------------------------------------
(* Conditions, loops and parallel nodes *)

\* Node n calls the children cs with a text, to be executed or resumed.
Calls(n, cs, m, text) ==
    /\ pc' = [x \in Nodes |-> IF x \in cs THEN "called" ELSE IF x = n THEN "inside" ELSE pc[x]]
    /\ mode' = [x \in Nodes |-> IF x \in cs THEN m ELSE mode[x]]
    /\ in' = [x \in Nodes |-> IF x \in cs THEN text ELSE in[x]]
    /\ UNCHANGED out

Fails(n) == pc' = [pc EXCEPT ![n] = "failed"] /\ UNCHANGED <<mode, in, out>>

Entered(n) == given' = [given EXCEPT ![n] = in[n]]

\* The predicate chooses a branch, or returns an error.
Decide(n) ==
    /\ up /\ n \in Conditions /\ pc[n] = "called" /\ mode[n] = "run"
    /\ \/ /\ Fails(n)
          /\ UNCHANGED tracker
       \/ \E branch \in BOOLEAN :
          /\ tracker' = [tracker EXCEPT !.branches[n] = branch]
          /\ IF Child(n, branch) = None
             THEN Returns(n, in[n]) /\ UNCHANGED <<mode, in>>
             ELSE Calls(n, {Child(n, branch)}, "run", in[n])
    /\ Entered(n)
    /\ UNCHANGED <<position, iter, agent, saved, spent, turns>>

\* The branch of the checkpoint, which must lead to the node that is resumed.
ResumeBranch(n) ==
    /\ up /\ n \in Conditions /\ pc[n] = "called" /\ mode[n] = "resume"
    /\ LET branch == from.tracker.branches[n] IN
       IF branch = None THEN Fails(n)
       ELSE IF Child(n, branch) = None THEN Returns(n, in[n]) /\ UNCHANGED <<mode, in>>
       ELSE IF Below(Child(n, branch), from.at) THEN Calls(n, {Child(n, branch)}, "resume", in[n])
       ELSE Fails(n)
    /\ UNCHANGED <<position, iter, tracker, agent, saved, history>>

BranchReturns(n) ==
    /\ up /\ n \in Conditions /\ pc[n] = "inside"
    /\ LET c == Child(n, tracker.branches[n]) IN
       \/ pc[c] = "done" /\ Returns(n, out[c])
       \/ pc[c] = "failed" /\ pc' = [pc EXCEPT ![n] = "failed"] /\ UNCHANGED out
    /\ UNCHANGED <<position, mode, in, iter, tracker, agent, saved, history>>

\* A plausible bug: Resume counts the iterations from the beginning.
RestartedAt(n) == 0

\* The iteration of the checkpoint.
ResumedAt(n) == from.tracker.loops[n]

\* The loop of Execute or of Resume at iteration i: its condition stops it,
\* lets it go on, or returns an error.  Only Execute tells the tracker.
Iterate(n, i, text) ==
    \/ /\ Returns(n, text)
       /\ UNCHANGED <<mode, in, iter, tracker, turns>>
    \/ /\ i < MaxIter
       /\ Calls(n, {Body(n)}, "run", text)
       /\ iter' = [iter EXCEPT ![n] = i]
       /\ tracker' = IF mode[n] = "run" THEN [tracker EXCEPT !.loops[n] = i] ELSE tracker
       /\ turns' = [turns EXCEPT ![n] = (IF mode[n] = "run" /\ i = 0 THEN 0 ELSE @) + 1]
    \/ /\ i < MaxIter
       /\ Fails(n)
       /\ UNCHANGED <<iter, tracker, turns>>

EnterLoop(n) ==
    /\ up /\ n \in Loops /\ pc[n] = "called" /\ mode[n] = "run"
    /\ Iterate(n, 0, in[n])
    /\ Entered(n)
    /\ UNCHANGED <<position, agent, saved, spent>>

\* A plausible bug: the body of a loop is executed and not resumed.
ResumeLoopAnew(n) ==
    /\ up /\ n \in Loops /\ pc[n] = "called" /\ mode[n] = "resume"
    /\ Calls(n, {Body(n)}, "run", in[n])
    /\ iter' = [iter EXCEPT ![n] = ResumedAt(n)]
    /\ UNCHANGED <<position, tracker, agent, saved, history>>

\* The body is resumed in the iteration of the checkpoint.
ResumeLoop(n) ==
    /\ up /\ n \in Loops /\ pc[n] = "called" /\ mode[n] = "resume"
    /\ IF from.tracker.loops[n] = None
       THEN Fails(n) /\ UNCHANGED iter
       ELSE /\ Calls(n, {Body(n)}, "resume", in[n])
            /\ iter' = [iter EXCEPT ![n] = ResumedAt(n)]
    /\ UNCHANGED <<position, tracker, agent, saved, history>>

BodyReturns(n) ==
    /\ up /\ n \in Loops /\ pc[n] = "inside"
    /\ \/ /\ pc[Body(n)] = "done"
          /\ Iterate(n, iter[n] + 1, out[Body(n)])
       \/ /\ pc[Body(n)] = "failed"
          /\ Fails(n)
          /\ UNCHANGED <<iter, tracker, turns>>
    /\ UNCHANGED <<position, agent, saved, spent, given>>

\* A goroutine for each child.
Fork(n) ==
    /\ up /\ n \in Parallels /\ pc[n] = "called" /\ mode[n] = "run"
    /\ Calls(n, ChildrenOf(n), "run", in[n])
    /\ Entered(n)
    /\ UNCHANGED <<position, iter, tracker, agent, saved, spent, turns>>

\* A plausible bug: a parallel node waits until all its children succeed.
ReturnedWell(n) == pc[n] = "done"

Returned(n) == pc[n] \in {"done", "failed"}

\* A plausible bug: Resume does not look for completed children.
NoneCompleted(c) == FALSE

WasCompleted(c) == from.tracker.completed[c] # None

\* Resume takes the children one after the other: a completed one is not
\* called, that on the path is resumed, any other is executed again.
ResumeParallel(n) ==
    /\ up /\ n \in Parallels /\ mode[n] = "resume"
    /\ \/ pc[n] = "called"
       \/ pc[n] = "inside" /\ \A c \in ChildrenOf(n) : Returned(c) \/ pc[c] = "idle"
    /\ \E i \in DOMAIN Children[n] :
       LET c == Children[n][i] IN
       /\ pc[c] = "idle"
       /\ \A j \in 1..(i - 1) : Returned(Children[n][j])
       /\ IF WasCompleted(c)
          THEN /\ pc' = [pc EXCEPT ![n] = "inside", ![c] = "done"]
               /\ out' = [out EXCEPT ![c] = from.tracker.completed[c]]
               /\ UNCHANGED <<mode, in>>
          ELSE Calls(n, {c}, IF Below(c, from.at) THEN "resume" ELSE "run", in[n])
    /\ UNCHANGED <<position, iter, tracker, agent, saved, history>>

\* The outputs of the children; that of one that failed is only an error.
Joined(n) == UNION {out[c] : c \in {d \in ChildrenOf(n) : pc[d] = "done"}}

Join(n) ==
    /\ up /\ n \in Parallels /\ pc[n] = "inside"
    /\ \A c \in ChildrenOf(n) : Returned(c)
    /\ Returns(n, Joined(n))
    /\ UNCHANGED <<position, mode, in, iter, tracker, agent, saved, history>>

Control(n) ==
    \/ Decide(n) \/ ResumeBranch(n) \/ BranchReturns(n)
    \/ EnterLoop(n) \/ ResumeLoop(n) \/ BodyReturns(n)
    \/ Fork(n) \/ ResumeParallel(n) \/ Join(n)

-----------------------------------------------------------------------------
(* Workflow.Run, Workflow.Resume and crashes *)

\* The checkpoint of Workflow.Run before top-level node i, or behind the last.
PositionAt(i) == [
    next |-> i, at |-> IF i <= Len(top) THEN top[i] ELSE None, cur |-> cur,
    tracker |-> NewTracker, agent |-> None, question |-> None]

\* Run stores its position before each node and at its end, Resume only before
\* each node.  Nothing else runs meanwhile.
SavePosition ==
    /\ up /\ turn = "position" /\ (next <= Len(top) \/ ~resumed)
    /\ LET merged == Merged(current, PositionAt(next)) IN
       /\ current' = merged
       /\ \/ /\ stored' = merged
             /\ IF next <= Len(top)
                THEN turn' = "node" /\ Calls(top[next], {top[next]}, "run", cur)
                ELSE turn' = "completed" /\ UNCHANGED <<pc, mode, in, out>>
          \/ /\ stored' \in {stored, merged}
             /\ turn' = "failed"
             /\ UNCHANGED <<pc, mode, in, out>>
    /\ UNCHANGED <<top, up, resumed, from, next, cur, crashes, iter, tracker, agent, save, history>>

ResumeCompletes ==
    /\ up /\ turn = "position" /\ resumed /\ next > Len(top)
    /\ turn' = "completed"
    /\ UNCHANGED <<top, up, resumed, from, next, cur, crashes, node, tracker, agent, saved, history>>

NodeReturns ==
    /\ up /\ turn = "node" /\ Returned(top[next])
    /\ IF pc[top[next]] = "done"
       THEN turn' = "position" /\ next' = next + 1 /\ cur' = out[top[next]]
       ELSE turn' = "failed" /\ UNCHANGED <<next, cur>>
    /\ UNCHANGED <<top, up, resumed, from, crashes, node, tracker, agent, saved, history>>

\* The process dies.
Crash ==
    /\ up /\ turn \in {"position", "node"} /\ crashes < MaxCrashes[top]
    /\ up' = FALSE
    /\ crashes' = crashes + 1
    /\ pc' = [n \in Nodes |-> "idle"]
    /\ mode' = [n \in Nodes |-> "run"]
    /\ in' = [n \in Nodes |-> {}] /\ out' = [n \in Nodes |-> {}]
    /\ iter' = [n \in Loops |-> 0]
    /\ agent' = [s \in Steps |-> NewAgent]
    /\ save' = [n \in Nodes |-> NoSave]
    /\ tracker' = NewTracker
    /\ UNCHANGED <<top, turn, resumed, from, next, cur, current, stored, history>>

\* The question that the last checkpoint waits for.
QuestionOf(cp) == IF cp = None THEN None ELSE cp.question

\* RestoreTask without a question that waits: the turn ends.
Interrupt ==
    /\ ~up /\ QuestionOf(stored) = None
    /\ up' = TRUE /\ turn' = "interrupted"
    /\ UNCHANGED <<top, resumed, from, next, cur, crashes, node, tracker, agent, saved, history>>

\* Is the position of a checkpoint one that Resume accepts?
Valid(cp) == cp.next <= Len(top) /\ cp.at # None /\ Below(top[cp.next], cp.at)

\* RestoreTask, the answer to the question of the checkpoint, and Resume.
Resume ==
    /\ ~up /\ QuestionOf(stored) # None
    /\ up' = TRUE /\ resumed' = TRUE /\ from' = stored /\ current' = stored
    /\ next' = stored.next /\ cur' = stored.cur
    /\ IF Valid(stored)
       THEN /\ turn' = "node"
            /\ tracker' = stored.tracker
            /\ Calls(top[stored.next], {top[stored.next]}, "resume", stored.cur)
       ELSE turn' = "failed" /\ UNCHANGED <<tracker, pc, mode, in, out>>
    /\ UNCHANGED <<top, crashes, iter, agent, save, stored, history>>

Run == SavePosition \/ ResumeCompletes \/ NodeReturns \/ \E n \in Nodes : Control(n)

Next ==
    \/ Run \/ Crash \/ Interrupt \/ Resume
    \/ \E n \in Nodes : Step(n) \/ Answered(n) \/ StepFails(n)

\* Goroutines that can go on do, models and tools return, sinks answer.
\* Nobody has to answer a question, and a crashed process need not come back.
Fairness ==
    /\ WF_vars(Run)
    /\ \A n \in Nodes : WF_vars(Step(n))

Spec == Init /\ [][Next]_vars /\ Fairness

-----------------------------------------------------------------------------
(* Properties *)

\* The code that resumes a question finds what it looks for: the path of the
\* checkpoint leads to the agent that asked, through the branches and the
\* iterations that the tracker recorded, and its state is that of the question.
Resumable(cp) ==
    LET s == cp.question IN
    /\ Valid(cp) /\ cp.at = s /\ cp.agent = [of |-> s, state |-> SavedAgent(cp, s)]
    /\ cp.agent.state.pending = "ask"
    /\ \A i \in 1..(Len(Path[s]) - 1) :
        LET n == Path[s][i] IN
        /\ n \in Loops => cp.tracker.loops[n] # None
        /\ n \in Conditions => /\ cp.tracker.branches[n] # None
                               /\ Child(n, cp.tracker.branches[n]) = Path[s][i + 1]
        /\ n \in Parallels => cp.tracker.completed[Path[s][i + 1]] = None

\* Comment of Workflow.Resume (workflow.go:494): it "continues a Workflow whose
\* current Node is suspended at a safe user interaction checkpoint".  A stored
\* question can be resumed.  Below a parallel node it may fail: another agent
\* that read the tracker earlier stores an old state of the one that asks.
QuestionResumable ==
    QuestionOf(stored) # None /\ ~Inside(stored.question, {"parallel"})
        => Resumable(stored)

\* The step begins an agent anew.
Begins(s) == pc[s] = "called" /\ mode[s] = "run" /\ pc'[s] = "snapshot"

\* docs/08-orchestration.md:598: a tool that was started without a result is not
\* executed again, since this could repeat its effect.  No step begins anew
\* while a run of it that a crash cut off has executed a tool ...
EffectsNotRepeated == [][\A s \in Steps : Begins(s) => s \notin spent]_vars

\* ... which holds outside of parallel nodes.
EffectsNotRepeatedInSequence ==
    [][\A s \in Steps : Begins(s) /\ ~Inside(s, {"parallel"}) => s \notin spent]_vars

\* A parallel node is inside another, and n is inside both.
InsideTwo(n) == \E p, r \in Parallels \ {n} : p # r /\ Below(p, n) /\ Below(r, n)

\* Does a checkpoint say that step s is over?  Resume executes a parallel node
\* inside another without a look at the children of it that were completed.
Over(cp, s) ==
    \/ \E i \in 1..(cp.next - 1) : Below(top[i], s)
    \/ /\ ~Inside(s, {"loop"})
       /\ \E c \in Nodes : Below(c, s) /\ ~InsideTwo(c) /\ cp.tracker.completed[c] # None

\* What the stored checkpoint knows as completed is not begun again.
CompletedNotRepeated ==
    [][\A s \in Steps : Begins(s) => stored = None \/ ~Over(stored, s)]_vars

\* A loop and a parallel node are nested, and n is in the outer one.
Nested(n) ==
    \E l \in Loops, p \in Parallels :
        \/ Below(l, p) /\ Below(l, n)
        \/ Below(p, l) /\ Below(p, n)

\* A loop begins its body at most MaxIter times.  From the second crash on it
\* may repeat the iterations that Resume did not report to the tracker.  With a
\* parallel node inside it or around it, it may repeat more: another agent that
\* read the checkpoint earlier stores the question of an earlier iteration.
LoopBounded ==
    \A n \in Loops : ~Nested(n) =>
        turns[n] <= MaxIter + (IF crashes > 1 THEN (crashes - 1) * (MaxIter - 1) ELSE 0)

\* A node that is resumed has the input with which it was entered, so that the
\* children of a parallel node that are executed again get it, too.  Above a
\* loop it is the input of the current iteration; where a loop and a parallel
\* node are nested it may be that of another node or of another iteration.
InputKept ==
    \A n \in Nodes : pc[n] # "idle" /\ mode[n] = "resume" /\ Kind[n] # "loop" /\ ~Nested(n)
                        /\ (\A m \in Loops : ~Below(n, m)) => in[n] = given[n]

Settled == ~up \/ turn \notin {"position", "node"} \/ \E s \in Steps : pc[s] = "asked"

\* A workflow ends, or waits for an answer.
WorkflowSettles == []<>Settled

=============================================================================
