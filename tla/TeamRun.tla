------------------------------ MODULE TeamRun -------------------------------
(***************************************************************************)
(* A Team in a Task (workflow/team.go): Team.Run in its three modes,       *)
(* turnRuntime.Checkpoint, which merges the checkpoints of the agents into *)
(* that of the Team (task_runtime.go), a process that crashes, and         *)
(* Team.Resume with the answer to the question of the last checkpoint.     *)
(*                                                                         *)
(* An agent's run is what the Team and the merge see of it: checkpoints    *)
(* with a pending question, a pending tool call, a cut or a whole answer,  *)
(* and its end; AgentRun has the rest.  A checkpoint of an agent is read,  *)
(* merged, written and emitted in three steps, which interleave with those *)
(* of the other agents of a parallel Team.  A Team that checkpoints itself *)
(* has no agent running.  Contents are reduced to the agent that produced  *)
(* them.  TeamCheckpoint.Agent is the entry of TeamCheckpoint.Agents for   *)
(* the agent "who"; indices count from 1.                                  *)
(***************************************************************************)
EXTENDS Naturals, FiniteSets

CONSTANTS
    N,          \* Team.Agents is 1, ..., N
    Leader,     \* Team.Leader: one of them, or 0 for an agent of its own
    Modes,      \* the modes to look at
    Crashes,    \* bound: crashes of the process, for each mode
    MaxSteps,   \* bound: questions, tools and cut answers of an agent
    None

Members == 1..N
Names == Members \cup {Leader}

Phases == {"starting", "agent", "agent_completed", "parallel", "parallel_completed",
           "leader_plan", "follower", "leader_synthesis"}

AgentCheckpoint == [pending : {"none", "ask", "tool"}, content : {"none", "part", "whole"}]

NoCheckpoint == [pending |-> "none", content |-> "unknown"]

Checkpoint ==
    [phase : Phases, index : 0..N, outputs : [Names -> Names \cup {None}],
     who : Names \cup {None}, asked : Names \cup {None},
     agents : [Names -> AgentCheckpoint \cup {NoCheckpoint}]]

\* Team.Validate: a known mode, and agents with different names.
Validated ==
    /\ Modes \subseteq {"sequential", "parallel", "leader_follower"}
    /\ N \in Nat \ {0} /\ Leader \in 0..N

ASSUME TeamAssumption ==
    /\ Validated /\ MaxSteps \in Nat
    /\ Crashes \in [Modes -> Nat]
    /\ None \notin 0..N /\ None \notin Checkpoint

VARIABLES
    mode,       \* Team.Mode
    tpc,        \* where the Team stands
    phase,      \* the phase and the index of Team.Run
    index,
    from,       \* the checkpoint that Team.Resume was called with, or None
    outputs,    \* who produced the successful output of each agent
    feed,       \* who produced the input of the next agent, or the plan
    pc,         \* where the run of each agent stands
    next,       \* where it goes on once its checkpoint is acknowledged
    mem,        \* what it saves
    seen,       \* turnRuntime.checkpoint as its Checkpoint has read it
    draft,      \* the checkpoint it emits
    current,    \* turnRuntime.checkpoint
    stored,     \* the last checkpoint that the application stored
    left,       \* bound: steps it may still take
    begun,      \* history: how often it was run with an input
    took,       \* history: who produced that input
    crashes     \* history: crashes so far

team == <<mode, tpc, phase, index, from, outputs, feed>>
agent == <<pc, next, mem, seen, draft, left>>
history == <<begun, took, crashes>>
vars == <<team, agent, current, stored, history>>

TypeOK ==
    /\ mode \in Modes
    /\ tpc \in {"save", "run", "join", "rejoin", "succeeded", "failed", "down", "asking",
                "interrupted"}
    /\ phase \in Phases /\ index \in 0..N
    /\ from \in Checkpoint \cup {None}
    /\ outputs \in [Names -> Names \cup {None}]
    /\ feed \in Names \cup {None}
    /\ pc \in [Names -> {"idle", "work", "wait", "tool", "read", "write", "emit", "done", "failed"}]
    /\ next \in [Names -> {"work", "wait", "tool", "done"}]
    /\ mem \in [Names -> AgentCheckpoint]
    /\ seen \in [Names -> Checkpoint \cup {None}]
    /\ draft \in [Names -> Checkpoint \cup {None}]
    /\ current \in Checkpoint \cup {None}
    /\ stored \in Checkpoint \cup {None}
    /\ left \in [Names -> 0..MaxSteps]
    /\ begun \in [Names -> 0..3]
    /\ took \in [Names -> Names \cup {None}]
    /\ crashes \in Nat

Fresh == [pending |-> "none", content |-> "none"]

Init ==
    /\ mode \in Modes
    /\ tpc = "save" /\ phase = "starting" /\ index = 0 /\ from = None
    /\ outputs = [a \in Names |-> None] /\ feed = None
    /\ pc = [a \in Names |-> "idle"] /\ next = [a \in Names |-> "work"]
    /\ mem = [a \in Names |-> Fresh]
    /\ seen = [a \in Names |-> None] /\ draft = [a \in Names |-> None]
    /\ current = None /\ stored = None
    /\ left = [a \in Names |-> MaxSteps]
    /\ begun = [a \in Names |-> 0] /\ took = [a \in Names |-> None] /\ crashes = 0

-----------------------------------------------------------------------------
(* turnRuntime.Checkpoint for an agent of a Team *)

\* Another agent has a pending call in the checkpoint, which is kept.
Held(prev, a) ==
    prev.who \notin {None, a} /\ prev.agents[prev.who].pending # "none"

\* A plausible bug: the question is kept, and the agent that asked it is not.
MergedWithoutHolder(prev, a) ==
    [prev EXCEPT !.agents[a] = mem[a],
                 !.who = a,
                 !.asked = IF Held(prev, a) THEN prev.asked
                           ELSE IF mem[a].pending = "ask" THEN a ELSE None]

\* A plausible bug: the question of the previous checkpoint is always kept.
MergedKeepingAsked(prev, a) ==
    [prev EXCEPT !.agents[a] = mem[a], !.who = IF Held(prev, a) THEN @ ELSE a]

\* The checkpoint of the Team with that of agent a in it.
Merged(prev, a) ==
    [prev EXCEPT !.agents[a] = mem[a],
                 !.who = IF Held(prev, a) THEN @ ELSE a,
                 !.asked = IF Held(prev, a) THEN @
                           ELSE IF mem[a].pending = "ask" THEN a ELSE None]

Read(a) ==
    /\ pc[a] = "read"
    /\ pc' = [pc EXCEPT ![a] = "write"]
    /\ seen' = [seen EXCEPT ![a] = current]
    /\ UNCHANGED <<team, next, mem, draft, left, current, stored, history>>

Write(a) ==
    /\ pc[a] = "write"
    /\ current' = Merged(seen[a], a)
    /\ pc' = [pc EXCEPT ![a] = "emit"]
    /\ draft' = [draft EXCEPT ![a] = current']
    /\ seen' = [seen EXCEPT ![a] = None]
    /\ UNCHANGED <<team, next, mem, left, stored, history>>

\* Acknowledged, or the run fails, whether the application stored it or not.
Emit(a) ==
    /\ pc[a] = "emit"
    /\ \/ stored' = draft[a] /\ pc' = [pc EXCEPT ![a] = next[a]]
       \/ stored' \in {stored, draft[a]} /\ pc' = [pc EXCEPT ![a] = "failed"]
    /\ draft' = [draft EXCEPT ![a] = None]
    /\ UNCHANGED <<team, next, mem, seen, left, current, history>>

-----------------------------------------------------------------------------
(* The run of an agent *)

\* It saves saved, and goes on at then.
Save(a, saved, then) ==
    /\ mem' = [mem EXCEPT ![a] = saved]
    /\ next' = [next EXCEPT ![a] = then]
    /\ pc' = [pc EXCEPT ![a] = "read"]
    /\ UNCHANGED <<team, seen, draft, current, stored, history>>

\* A question, a tool call or a cut answer.
Work(a) ==
    /\ pc[a] = "work" /\ left[a] > 0
    /\ left' = [left EXCEPT ![a] = @ - 1]
    /\ \/ Save(a, [mem[a] EXCEPT !.pending = "ask"], "wait")
       \/ Save(a, [mem[a] EXCEPT !.pending = "tool"], "tool")
       \/ Save(a, [mem[a] EXCEPT !.content = "part"], "work")

ToolReturns(a) ==
    /\ pc[a] = "tool"
    /\ Save(a, [mem[a] EXCEPT !.pending = "none"], "work")
    /\ UNCHANGED left

Answered(a) ==
    /\ pc[a] = "wait"
    /\ Save(a, [mem[a] EXCEPT !.pending = "none"], "work")
    /\ UNCHANGED left

Finish(a) ==
    /\ pc[a] = "work"
    /\ Save(a, [mem[a] EXCEPT !.content = "whole"], "done")
    /\ UNCHANGED left

\* The model, the context or an event fails.
Fail(a) ==
    /\ pc[a] \in {"work", "wait", "tool"}
    /\ pc' = [pc EXCEPT ![a] = "failed"]
    /\ UNCHANGED <<team, next, mem, seen, draft, left, current, stored, history>>

-----------------------------------------------------------------------------
(* Team.Run *)

GoTo(where, p, i) == tpc' = where /\ phase' = p /\ index' = i

Stay == UNCHANGED <<phase, index>>

\* A plausible bug: Resume of a sequential Team does not save its position.
SavesOnlyFresh == from = None

\* Resume only saves the position of a sequential Team.
Saves == from = None \/ mode = "sequential"

\* The agents the Team runs in a phase.
Runs(p, i) ==
    CASE p = "parallel" -> Members
      [] p \in {"agent", "follower"} -> {i}
      [] p \in {"leader_plan", "leader_synthesis"} -> {Leader}
      [] OTHER -> {}

\* emitCheckpoint.
SavePosition ==
    LET cp == [phase |-> phase, index |-> index, outputs |-> outputs, who |-> None, asked |-> None,
               agents |-> [a \in Names |-> NoCheckpoint]]
    IN  /\ tpc = "save"
        /\ current' = cp
        /\ \/ stored' = cp /\ tpc' = "run"
           \/ stored' \in {stored, cp} /\ tpc' = "failed"
        /\ UNCHANGED <<mode, phase, index, from, outputs, feed, agent, history>>

Begin ==
    /\ tpc = "run"
    /\ Runs(phase, index) # {}
    /\ tpc' = "join"
    /\ LET Chosen == Runs(phase, index) IN
       /\ pc' = [a \in Names |-> IF a \in Chosen THEN "read" ELSE pc[a]]
       /\ next' = [a \in Names |-> IF a \in Chosen THEN "work" ELSE next[a]]
       /\ mem' = [a \in Names |-> IF a \in Chosen THEN Fresh ELSE mem[a]]
       /\ took' = [a \in Names |-> IF a \in Chosen THEN feed ELSE took[a]]
       /\ begun' = [a \in Names |-> IF a \in Chosen /\ begun[a] < 3 THEN begun[a] + 1 ELSE begun[a]]
    /\ UNCHANGED <<mode, phase, index, from, outputs, feed, seen, draft, left, current, stored, crashes>>

\* The followers that are still to be run, given the outputs out.
Due(out) ==
    {j \in Members \ {Leader} :
        out[j] = None /\ (from # None /\ from.phase = "follower" => j > from.index)}

\* On to the next follower, or to the synthesis.
Follow(out) ==
    \/ /\ Due(out) = {}
       /\ GoTo(IF Saves THEN "save" ELSE "run", "leader_synthesis", N)
    \/ \E j \in Due(out) :
           /\ \A k \in Due(out) : j <= k
           /\ GoTo(IF Saves THEN "save" ELSE "run", "follower", j)

\* On to the next agent of a sequence, from the one at i.
Advance(i) ==
    IF i = N THEN tpc' = "succeeded" /\ Stay
    ELSE GoTo(IF Saves THEN "save" ELSE "run", "agent", i + 1)

\* A phase that only saves is over.
Pass ==
    /\ tpc = "run"
    /\ \/ phase = "starting" /\ mode = "sequential" /\ Advance(0)
       \/ phase = "starting" /\ mode = "parallel" /\ GoTo("run", "parallel", 0)
       \/ phase = "starting" /\ mode = "leader_follower" /\ GoTo("save", "leader_plan", 0)
       \/ phase = "agent_completed" /\ Advance(index)
       \/ /\ phase = "parallel_completed" /\ Stay
          /\ tpc' = IF \E a \in Members : outputs[a] = None THEN "failed" ELSE "succeeded"
    /\ UNCHANGED <<mode, from, outputs, feed, agent, current, stored, history>>

\* A plausible bug: every agent of a sequence is given the first input.
FedOnce(p, a) == IF p = "leader_plan" THEN a ELSE feed

\* What the next agent is given, after agent a has returned in phase p.
Fed(p, a) == IF p \in {"agent", "leader_plan"} THEN a ELSE feed

\* A plausible bug: a parallel Team only waits for its successful agents.
ReturnedWell(a) == pc[a] = "done"

Returned(a) == pc[a] \in {"done", "failed"}

\* The agents of a phase have returned: all of a parallel Team, failed or not,
\* otherwise the only one.
Join ==
    LET Ran == Runs(phase, index)
        out == [a \in Names |-> IF a \in Ran /\ pc[a] = "done" THEN a ELSE outputs[a]]
        failed == \E a \in Ran : pc[a] = "failed"
    IN  /\ tpc = "join"
        /\ \A a \in Ran : Returned(a)
        /\ outputs' = out
        /\ feed' = IF phase = "parallel" THEN feed ELSE Fed(phase, CHOOSE a \in Ran : TRUE)
        /\ pc' = [a \in Names |-> "idle"]
        /\ \/ phase = "parallel" /\ GoTo("save", "parallel_completed", N)
           \/ phase # "parallel" /\ failed /\ tpc' = "failed" /\ Stay
           \/ /\ phase = "agent" /\ ~failed
              /\ IF from = None THEN GoTo("save", "agent_completed", index) ELSE Advance(index)
           \/ phase \in {"leader_plan", "follower"} /\ ~failed /\ Follow(out)
           \/ phase = "leader_synthesis" /\ ~failed /\ tpc' = "succeeded" /\ Stay
        /\ UNCHANGED <<mode, from, next, mem, seen, draft, left, current, stored, history>>

-----------------------------------------------------------------------------
(* A crash, RestoreTask and Team.Resume *)

Crash ==
    /\ tpc \in {"save", "run", "join", "rejoin", "asking"} /\ crashes < Crashes[mode]
    /\ crashes' = crashes + 1
    /\ tpc' = "down"
    /\ pc' = [a \in Names |-> "idle"]
    /\ seen' = [a \in Names |-> None] /\ draft' = [a \in Names |-> None]
    /\ UNCHANGED <<mode, phase, index, from, outputs, feed, next, mem, left, current, stored, begun, took>>

\* A Team only goes on from a question.
Restore ==
    /\ tpc = "down" /\ stored # None
    /\ tpc' = IF stored.asked = None THEN "interrupted" ELSE "asking"
    /\ UNCHANGED <<mode, phase, index, from, outputs, feed, agent, current, stored, history>>

\* A plausible bug: Resume begins with no outputs.
OutputsDropped(cp) == [a \in Names |-> None]

\* The outputs that Resume begins with.
OutputsOf(cp) == cp.outputs

\* The answer reaches Team.Resume, and the agent goes on.
Resume ==
    /\ tpc = "asking" /\ stored.agents[stored.who].pending = "ask"
    /\ tpc' = "rejoin"
    /\ from' = stored /\ current' = stored
    /\ phase' = stored.phase /\ index' = stored.index
    /\ outputs' = OutputsOf(stored)
    /\ pc' = [pc EXCEPT ![stored.who] = "read"]
    /\ next' = [next EXCEPT ![stored.who] = "work"]
    /\ mem' = [mem EXCEPT ![stored.who] = [stored.agents[stored.who] EXCEPT !.pending = "none"]]
    /\ UNCHANGED <<mode, feed, seen, draft, left, stored, history>>

\* What another agent of a parallel Team has saved counts as its output.
Usable(saved) == saved # NoCheckpoint /\ saved.pending = "none" /\ saved.content # "none"

\* The resumed agent has returned.
Rejoin ==
    LET a == from.who
        own == [outputs EXCEPT ![a] = a]
        out == IF mode = "leader_follower" /\ phase = "leader_plan"
               THEN [own EXCEPT ![Leader] = a] ELSE own
    IN  /\ tpc = "rejoin" /\ Returned(a)
        /\ pc' = [pc EXCEPT ![a] = "idle"]
        /\ \/ /\ pc[a] = "failed"
              /\ tpc' = "failed" /\ Stay
              /\ UNCHANGED <<outputs, feed>>
           \/ /\ pc[a] = "done" /\ mode = "sequential"
              /\ outputs' = own /\ feed' = a
              /\ Advance(index)
           \/ /\ pc[a] = "done" /\ mode = "parallel"
              /\ LET Others == {m \in Members : own[m] = None} IN
                 /\ tpc' = IF \A m \in Others : Usable(from.agents[m]) THEN "succeeded" ELSE "failed"
                 /\ outputs' = [m \in Names |-> IF m \in Others /\ Usable(from.agents[m])
                                                THEN m ELSE own[m]]
              /\ Stay /\ UNCHANGED feed
           \/ /\ pc[a] = "done" /\ mode = "leader_follower"
              /\ outputs' = out /\ feed' = out[Leader]
              /\ IF phase = "leader_synthesis" THEN tpc' = "succeeded" /\ Stay ELSE Follow(out)
        /\ UNCHANGED <<mode, from, next, mem, seen, draft, left, current, stored, history>>

Agent(a) == Read(a) \/ Write(a) \/ Emit(a) \/ Work(a) \/ ToolReturns(a) \/ Finish(a) \/ Fail(a)

Team == SavePosition \/ Begin \/ Pass \/ Join \/ Rejoin

Next ==
    \/ Team \/ Crash \/ Restore \/ Resume
    \/ \E a \in Names : Agent(a) \/ Answered(a)

\* The Team and its agents go on.  Nobody has to answer or to restore.
Spec == Init /\ [][Next]_vars /\ WF_vars(Team) /\ \A a \in Names : WF_vars(Agent(a))

-----------------------------------------------------------------------------
(* Properties *)

\* task_runtime.go:604: only a question whose agent has the pending call can be
\* resumed.  However the checkpoints of parallel agents interleave, a stored
\* question belongs to the agent that the checkpoint resumes.
AskedIsPending ==
    stored # None /\ stored.asked # None =>
        stored.asked = stored.who /\ stored.agents[stored.who].pending = "ask"

\* No crash makes a Team run an agent again: each member is run once with an
\* input, the leader twice.
RunAgainNever ==
    \A a \in Names : begun[a] <= IF mode = "leader_follower" /\ a = Leader THEN 2 ELSE 1

\* An agent is given what the one before it in the sequence produced, and a
\* follower the plan of the leader, also across crashes.
InputIsPredecessors ==
    \A a \in Members : begun[a] > 0 =>
        CASE mode = "sequential" -> took[a] = IF a = 1 THEN None ELSE a - 1
          [] mode = "leader_follower" /\ a # Leader -> took[a] = Leader
          [] OTHER -> TRUE

\* A Team that succeeds, resumed or not, has the output of every member, each
\* its own.
SuccessIsComplete ==
    tpc = "succeeded" => \A a \in Members : outputs[a] = a

\* docs/08-orchestration.md:600: a question can safely be resumed.  While an
\* agent waits for an answer its question is in the stored checkpoint, where
\* one agent runs at a time.  The agents of a parallel Team overwrite it.
QuestionStored ==
    mode # "parallel" => \A a \in Names : pc[a] = "wait" => stored.asked = a

\* A Team comes to its end, but for a question and a crash.
TeamSettles ==
    []<>(\/ tpc \in {"succeeded", "failed", "interrupted", "down", "asking"}
         \/ \E a \in Names : pc[a] = "wait")
=============================================================================
