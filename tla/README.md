# TLA+ for tracklogic-agent

Specifications, model-checking configurations and proofs for the Task runtime of
tracklogic-agent and what it runs: turns and their events, questions to the user,
checkpoints and restored turns, the loop of an agent and the Memory of its conversation,
teams and workflows, the circuit breaker and the stream in front of a model, and the
registration of MCP tools.

The modules model the code under `src/`; the documents are only used as the source of
claims that are compared with it. `PROJECT.json` maps every definition to the lines it
stands for.

    tlc -config MCTaskTurn.cfg MCTaskTurn.tla     # one run
    tlapm TaskProofs.tla                          # the proofs of one component

## 1. The system

An application embeds the library. A **Harness** owns agents, teams, workflows, tools
and one **ReliabilityManager**. A **Task** is an in-memory runtime with a caller's
identifier and an `EventSink`; it has no storage. `StartAgent`, `StartTeam` and
`StartWorkflow` begin a **turn**, a goroutine that emits events to the sink. Events
with delivery `required_ack` must be acknowledged before the turn goes on; some of
them carry a **checkpoint**, and `RestoreTask` builds a Task from the last one that
the application stored.

| Component | State | Operations | Interacts by |
|---|---|---|---|
| Task turns (`task_runtime.go`) | `turns`, `closed`, `sequence`, per turn status/result/done/cancel | Start*, WaitTurn, CancelTurn, Close, emit, runTurn | locks `mu`, `emitMu`; calls the sink with `emitMu` held; contexts |
| Interactions (`task_runtime.go`, `engine/task_controls.go`) | `pending`, a channel of capacity 1 per question | RequestInput, AnswerInteraction | map under `mu`, channel, required events |
| Restored turns (`task_runtime.go`) | the installed turn, its checkpoint, `pending` with `restored` | RestoreTask, AnswerInteraction, CancelTurn, Close | starts `runTurn` again |
| Checkpoint composition (`task_runtime.go`) | `turnRuntime.checkpoint` | Checkpoint, merge into team or workflow | read and write under `mu`, merge between |
| Conversations (`task_runtime.go`, `engine/agent.go`) | per agent a gate and a Memory | AcquireConversation, acquireRun, release | channel of capacity 1 |
| Agent loop (`engine/agent.go`) | Memory, content, loop count | Run, Resume, Continue | model, tools, checkpoints, events |
| Reliability (`engine/reliability.go`) | per model phase, failures, openedAt, halfOpenRun | allow, report, attempts, pauses | mutex; shared by all Tasks of a Harness |
| Streams (`engine/stream.go`, `model/`) | partial response, timer of the headers | InvokeStream, relay of the logger, consumeStream | channels of chunks, contexts |
| Team (`workflow/team.go`) | outputs, phase, index | Run, Resume in three modes | agents, checkpoints, goroutines |
| Workflow (`workflow/*.go`) | State, tracker (loops, branches, completed, agents) | Run, Resume, nodes | agents, checkpoints, goroutines |
| Memory (`memory/`) | messages, summary | Add, Compact, Restore | lock |
| Harness (`harness.go`) | registries | Create*/Register*, InitMCPClients, Close | lock |
| MCP client (`mcp/client.go`) | session, initialized, reqID | Initialize, call, Close | two mutexes, HTTP |
| Model adapters, tools, security, types, examples | - | conversions and I/O | - |

Behaviours that are hard to test, with what makes each component correct:

* *Turns*: several turns emit at once; a sink may store an event and yet return an
  error; CancelTurn and Close come at any moment. The stored story of a turn must be
  well-formed and agree with its verdict, numbers must reach the sink in order, and a
  stopped turn must end.
* *Interactions*: lookup, acknowledgement, delete and send of an answer are separate
  steps, and so are checkpoint, registration, events, wait and cleanup of a question. A
  run that waits must be answerable, an answer must reach the question it was checked
  against, nobody may wait for ever after CancelTurn or Close.
* *Restored turns*: two answers race; the sink refuses; the Harness lacks an agent. The
  turn must run at most once, never from an unresolved external call, and must not be
  stuck.
* *Agent loop*: the process may crash between any two steps. A tool must not run twice,
  its effect must not be forgotten, the loop limit must hold across restores.
* *Reliability*: calls are admitted and report in different phases of the circuit, under
  different configurations. Slots must be accounted for, only exhausted calls count, and
  the circuit must neither stay open nor stay full.
* *Teams*: the agents of a parallel team merge their checkpoints into one, each reading and
  writing it in separate critical sections; a crash leaves a position and outputs from which
  Resume goes on. No agent may be run again or skipped, each gets its predecessor's output, a
  question must stay with the agent that asked it, and a team must end when an agent fails.
* *Workflows*: the same with trees of nodes. The tracker is shared by the children of a parallel
  node, each of which copies it, adds its agent and stores the result in separate critical sections.
  A question must lead back to the agent that asked, through the branches and iterations that were
  chosen; loops keep their bound, nodes their input; what was done is not done again.
* *Conversations and Memory*: turns of one agent take the Memory one after the other, also after a
  turn that failed, was cancelled or restored; summaries and eviction remove messages. A request must
  pair calls with results, hold the agent's prompt, and lose nothing that no summary covers.
* *Streams*: a server, a timer, a relay and a caller that may be cancelled meet at two channels, one
  of which fills. A reply must be whole or an error, and nothing may be left running.
* *Harness and MCP*: several calls register tools of the same servers while others register tools and
  agents or close the sessions. Registration is all or nothing, a rollback removes only its own, and
  no session is lost.

## 2. Modules

| Module | Models | Abstract / composed with |
|---|---|---|
| `TurnContract` | what an application may rely on about one turn and the answers to its questions | abstract |
| `TaskTurn` | startTurn, runTurn, emit, CancelTurn, Close, the events of AnswerInteraction | implements `TurnContract` |
| `Interaction` | RequestInput, AnswerInteraction, `pending` | - |
| `RestoredTurn` | installCheckpoint, continueRestoredAgent, resumeRestoredInteraction | - |
| `AgentRun` | Agent.run in Task mode, crash, RestoreTask | - |
| `TeamRun` | Team.Run, Team.Resume, turnRuntime.Checkpoint for the agents of a team | - |
| `WorkflowRun` | Workflow.Run, Workflow.Resume, the four node types, wrap and checkpointState, turnRuntime.Checkpoint for the agents of a workflow | - |
| `Conversation` | AcquireConversation, acquireRun, the Memory of an agent (`memory/`), both modes of Agent.run, crash and restore | - |
| `ModelStream` | beginStreamingRequest, InvokeStream of the three adapters, the relay of the logger, consumeStream | - |
| `McpHarness` | InitMCPClients, Client.Initialize, ListTools and Close, Registry, RegisterTool, CreateAgentWithTools | - |
| `ModelCircuit` | allow, report, invokeModelWithTaskPolicy | - |
| `MC*` | the instances for TLC | - |
| `*Proofs` | theorems and proofs; `TaskProofs` has those of `TaskTurn` and, under names that begin with `Restored`, of `RestoredTurn`, `ModelProofs` those of `ModelCircuit` and `ModelStream` | extend their module and TLAPS |

**TurnContract / TaskTurn.** `pc[t]` is the position of turn `t` in startTurn or runTurn;
`emitMu` is the turn or caller that holds the mutex of that name. An emission is two steps:
`EmitBegin` takes the mutex and the number, and one of `Announced`, `UserMessageStored`,
`RunEventReturns`, `AssistantReturns`, `TerminalReturns` is the return of the sink with
what the code does next. The sink answers `ack`, `reject` (not stored) or `late` (stored,
and an error nevertheless). `closed` stands for `Task.closed` and the cancelled `Task.ctx`,
`stopped` for the turns whose own context was cancelled. `Verdict` is what WaitTurn and
StartAgent return; the refinement maps `verdict` to it and `shown` to the history of
stored events. What an agent, team or workflow does in between is one nondeterministic
target that emits at most `MaxEvents` events.
`asking` has the turns with a question in `Task.pending`: RequestInput registers it once its checkpoint
is acknowledged (`RegisterQuestion`) and deletes it when it returns (`LeaveQuestion`). `caller` is where
each AnswerInteraction stands: `FindQuestion` is its lookup, after which it emits
`interaction.responded` of the turn it found, with the same `EmitBegin` and `EmitReturns` as a turn, but
in its own goroutine and whatever the turn does meanwhile. The contract therefore says two things: the
events of a run are well-formed and agree with the verdict, and a response is stored at most once, of a
question that was found while the run was at work, but perhaps after its end. How an answer reaches its
question is in `Interaction`; the turns here are started ones, restored ones are in `RestoredTurn`.

**Interaction** (run without an MC module)**.** A question is the n-th RequestInput of an agent run. `pending`, the
channel (`answer`) and the lookup result of each caller (`found`) are the shared state; a
step is one critical section, one emission or one channel operation. The identifier comes
from the model's arguments (`ModelIds`) or is a new one. An answer that fails validation
changes nothing and is not an action.

**RestoredTurn.** A checkpoint is what restoring tells apart: kind, pending call, question,
content, whether the target is known. A run is named after who started it, so that `RunOnce`
can speak of two of them.

**AgentRun.** `st` is what a checkpoint saves (calls issued, results, content, loops). A model call is
`tries` attempts (`Attempt`, one step each) and an outcome; there is one for the summary of a long Memory
(`Summarize`; none if the Task has its own Summarizer or the circuit is open), one for the next message.
`invoked` counts the attempts of both. Every
checkpoint, `tool.started`, execution and `tool.completed` is a step; `Crash` may come between
any two, `Restore` continues from the last stored checkpoint as installCheckpoint decides. A
checkpoint that was refused may have been stored or not.

**TeamRun.** `tpc`, `phase`, `index`, `outputs` and `feed` are the locals of Team.Run and
Team.Resume, `current` is `turnRuntime.checkpoint` and `stored` what the application has. The three
modes share their actions: `SavePosition` is emitCheckpoint, `Begin` starts the agents of a phase,
`Join` takes up their outputs, `Pass` leaves a phase that only saves, `Rejoin` is Resume once the
agent it resumed has returned. A checkpoint of an agent is `Read`, `Write` and `Emit`, so that the
agents of a parallel team interleave between the two critical sections of
turnRuntime.Checkpoint. A content is the agent that produced it, which is enough to tell whose
output went where. What an agent does is reduced to the checkpoints it makes; `AgentRun` has the rest.

**WorkflowRun.** Nodes form trees, given by `Kind`, `Children` and `Path`. `pc[n]`, `mode[n]` (executed
or resumed), `in[n]`, `out[n]` and `iter[n]` are the locals of node `n`; `tracker` is
workflowTracker, `agent` the state of each step's agent, `save[n]` a checkpoint under way,
`current` and `stored` as in `TeamRun`. A checkpoint below a node is `Snapshot` (the copy under the
lock), `Register` (the agent, under the lock again), `Read`, `Write` and `Emit`, which is where
parallel children interleave; a position between top-level nodes is one step, since nothing else runs.
A text is the set of steps whose output it holds, which tells whose output went where. `spent`,
`turns` and `given` are history: agents cut off by a crash after a tool, iterations begun, inputs.

**Conversation.** `messages` and `summary` are the Memory, `gate` the run that holds it. A message is
its role, its turn and its calls, which is what pairing needs. In Task mode the Memory is a
SummaryMemory that `Summarize` compacts and `Crash` restores from the last checkpoint; in synchronous
mode it is a BufferMemory that `Remember` evicts from, and AddSystemMessage may come between any two
steps. `AgentRun` has the effects of tools, this module what the model is told of them. `cut` and
`lost` are history.

**ModelStream.** `producer` is the goroutine of the adapter, which turns the events of the `Wire` into
chunks as its API does (`AnthropicChunks`, `OpenAIChunks`, `ChatChunks`); `read` is the last event, which is
a place in a block: its start, one of its tokens or its end; `channel` is bounded, `relay`
is the goroutine of the logger, `consumer` is consumeStream with its builders. A reply is a sequence of
blocks of numbered tokens, so that a token lost, doubled or moved shows. `timer` is the timer of the
response headers, whose goroutine may act after it was stopped.

**McpHarness.** `pc` is where each call stands; a step is a critical section or a request with its
answer. `locked` is initializeMu, `session` and `initialized` are a client's, `open` is what the server
keeps. `registered[i]` is the list that InitMCPClients rolls back, `tools` says who registered each
tool of the Registry.

**ModelCircuit.** `Enter`, `Finish` are the two critical sections; attempts, pauses and
cancellations of the calls interleave between them. `openedAt` is represented by the time since
then. `leftover` is a history variable: the probes in flight when the half-open phase last began.

## 3. Runs and what they show

| Run | Instance | Shows |
|---|---|---|
| `TaskTurn` | 2 turns, 1 event each, 1 caller of AnswerInteraction | the contract, order at the sink, that stopped turns end |
| `Circuit` | 2 calls of 2 configurations, 2 attempts | probes bounded, failures counted, text of abandoned attempts, no leaked slot |
| `Interaction` | 2 runs that ask once, 2 callers, one impatient; an identifier the model may reuse | answers reach their own question, a waiting question can be answered, accepted answers are taken, stops release runs and callers |
| `RestoredRaces` | every checkpoint, 2 answers, both refusals | never replayed, run once, not stuck but for two named reasons, ends when stopped |
| `AgentEffects` | 2 tools, question, note; 2 calls per response, 3 loops, 2 attempts, 2 crashes | effects at most once and known to the model; cost; the run settles |
| `TeamRun` | 3 modes, 2 members and a leader, 2 steps each, 1 crash (sequential: 2) | the question belongs to the agent that is resumed; no agent is run again or skipped; inputs come from the predecessor; a success is complete; a team ends |
| `WorkflowRun` | a loop in a branch before a step with 2 crashes; 2 parallel steps before a step with 1 | a question can be resumed, inputs and loop bounds survive, what was done is not done again, a workflow ends |
| `WorkflowReplay` | the same | **violated**: Resume runs a parallel sibling again although its tool had run |
| `ModelStream` | 3 replies, 3 adapters, with and without logger, channel of 2 | a reply is whole or an error; nothing is left running |
| `Conversation` | 2 runs, 2 loops of up to 2 calls; Task mode with 1 crash, synchronous mode with a Memory of 5 | calls and results in a request are paired, a failed summary loses nothing, the Memory is passed on |
| `ConversationPrompt` | Task mode | **violated**: after a compaction no request has the system prompt |
| `McpHarness` | 2 servers with 3 tools, 2 InitMCPClients, 1 Close, 1 RegisterTool, 2 CreateAgentWithTools | all tools or none, no registration is taken away, sessions are not lost |

The violated runs are the findings of `PROJECT.json`, each with the sentence of the code or the
documents that it contradicts. Some disagreements have no run of their own:

* an identifier that the model reuses makes a waiting question unanswerable:
  `pending` is emptied by identifier (`task_runtime.go:428`, `736`), whoever registered the entry, so the
  run that ends takes the question of the other with it. `WaitingIsAnswerable` excepts it (`Fresh`);
* an open circuit closes without a probe when a call admitted before it opened succeeds
  (`reliability.go:98`), while the diagram in `docs/11-reliability.md:179-185` leaves Open only for
  HalfOpen;
* `interaction.responded` may be stored after the terminal event of its turn and after its verdict: between
  the lookup and the emission of AnswerInteraction (`task_runtime.go:412`, `421`) the turn may be cancelled
  and end. The call even returns nil, since the channel has room, while the comment at line 406 says that
  it "acknowledges and delivers a response to a waiting turn". `TurnContract` allows it (`Respond`);
* `waiting_input` is emitted before `interaction.requested` (`task_runtime.go:739-742`), while
  `docs/03-runtime-engine.md:780-781` lists them the other way round;
* two callers that both looked a question up before either deleted it can both be told nil although
  only one answer is read (`task_runtime.go:427-432`), while the comment at line 406 says that
  AnswerInteraction "acknowledges and delivers" a response. `AcceptedIsTaken` says what does hold:
  one accepted answer is taken;
* a crash between two calls of one response loses the later ones (`engine/agent.go:303`): the restored
  run invokes the model while they have no Tool message, against `docs/03-runtime-engine.md:337`.
  `RequestPaired` therefore excepts runs that were restored;
* while an agent of a parallel team waits for an answer, another that had read the team's checkpoint
  before writes it without the question (`task_runtime.go:757`, `815`): a crash now ends the turn
  although a question was safely stored before. `QuestionStored` therefore speaks of the other modes;
* a caller whose context ends after AnswerInteraction deleted the question and before it sent the
  answer leaves a run that waits and that nobody can answer (`task_runtime.go:428`, `433`). `Fresh`
  excepts this, too;
* a half-open circuit runs two probes where one is configured, if one was admitted in an earlier
  half-open period (`reliability.go:92`), while `docs/11-reliability.md:200` bounds them.
  `ProbesBounded` counts those left over;
* a restored turn that waits for an answer ignores CancelTurn and Close (`task_runtime.go:518`; the
  comments at 396 and 440): its cancel function does nothing, so that CancelTurn returns nil, no status
  changes and nothing ends the turn. `RunEnds` speaks of runs;
* a response that was cut by its token limit is restored as the completed answer
  (`task_runtime.go:538`), and Resume of a parallel team takes one for an agent's output (`team.go:146`);
* after a second crash, Resume of a leader/follower team takes the output of a follower for the plan
  (`team.go:179`; the comment at 171). `TeamRun` lets these teams crash once;
* the workflow of a question that is resumed does not tell the tracker of the iterations it begins
  (`workflow.go`, LoopNode in Resume), so that a second crash repeats them; `LoopBounded` says how many;
* where a parallel node is in a loop, or a loop in a parallel node, another agent that read the checkpoint
  earlier may store the question of an earlier iteration: Resume then repeats iterations, and a node may
  get the input of another iteration. TLC finds both in trees of these shapes; `LoopBounded` and
  `InputKept` leave out the nodes of such an outer node (`Nested`);
* `completed` is not cleared when a loop begins again, so that a parallel node in a loop skips, after
  a crash, children that were completed in an earlier iteration; `Over` therefore looks at loops apart;
* Resume executes a parallel node that is nested in another anew, if it is not on the way to the question
  (`workflow.go:642`), and so runs children again that the checkpoint has in `completed`.
  `CompletedNotRepeated` does not speak of the nodes inside two parallel nodes (`InsideTwo`, `Over`);
* a sibling in a parallel node that is executed again beside a resumed loop gets the input that the
  loop has now; a second question below a parallel node is lost once the first is answered;
* an agent that asked and then failed leaves its question to the checkpoint of the next node, whose
  position it does not belong to; Resume stores no last position, as Run does;
* of two parallel agents, one may store an old state of the other, since wrap copies the tracker and adds
  its agent in two critical sections (`workflow/task_runtime.go:118`). `QuestionResumable` speaks of
  questions outside of parallel nodes;
* a call that is cancelled may return a truncated reply as complete (`engine/stream.go:30`).
  `ReplyIsWhole` speaks of callers that go on;
* the goroutine of the header timer may cancel a stream after Stop returned, once it has begun
  (`model/http.go:124-129`);
* a failed or cancelled run leaves calls without results in the Memory of the next; Resume and Continue
  answer only one of several calls; compaction and eviction may separate a call from its result, against
  `docs/01-introduction.md:313`. `RequestPaired` excepts what such runs and cuts leave;
* BufferMemory drops the system messages at its front when they are half of its capacity or more,
  against `docs/05-memory.md:21`; AddSystemMessage does not wait for the run that has the Memory;
* MaxLoops, which limits the cost together with the context (`docs/03-runtime-engine.md:114`), limits
  rounds, not model calls: a round may call the model for a summary, too (`engine/agent.go:622`), repeats
  failed attempts (`reliability.go:130`), and is repeated after a crash. `CostBounded` says how many calls
  that are;
* Close during Initialize leaves a session that nobody ends, or a client that says it is initialized and
  has none (`mcp/client.go:131`); the failed notification of `initialized` forgets the session without
  DELETE. `SessionKept` excepts both (`overlapped`, `dropped`);
* an agent may be created with a tool that the rollback of an InitMCPClients then removes.

*Bounds.* Two turns suffice for `emitMu` and `Close`, since an emission excludes all others alike;
one event per running target interleaves with every event of the other turn, and may be the checkpoint
of a question that the one caller finds. Two attempts tell a call that is retried from one that is not. Two calls with
different thresholds suffice for a probe that is left over and one that runs; the counters saturate
where the code no longer distinguishes values (`FailureCap`, `OpenCap`). Two runs and two callers are
the least for the reuse of an identifier and for racing answers. Two crashes let the second hit a
restored run. Two agents run in parallel or one after the other, with the leader apart from both, which
suffices for a merge into a stale checkpoint and for a follower before and after the one that is
resumed. The two workflows of `MCWorkflowRun` have each type of node, a node that is resumed below two
others, and a sibling beside the one that asks; three iterations allow one before, in and after the
crash. A conversation needs a second run to find what the first one left, two calls in a response for
one that is answered and one that is not, and limits that are reached within two loops (compaction from
4 messages, eviction at 5). Replies have up to four blocks, of up to three tokens, in a channel of 2,
which fills; the code's 64 only fills later. Two servers let a client be done while the other fails;
three tools of which one is also registered by the application allow a rollback of some. Calls of
InitMCPClients, and of CreateAgentWithTools, are interchangeable: the run of `McpHarness` uses this
symmetry, and has no liveness property. For the properties that are proved (section 4), these numbers
make no difference.
`CHECK_DEADLOCK FALSE` is given where a system may stop: turns, runs, requests and calls end, questions
stay unanswered, a crashed process is not restored. The circuit is checked for deadlock.

*Fairness.* Only what the scheduler and the environment guarantee: a goroutine that can run runs,
a sink, a model (its HTTP client has a timeout) and a tool return, timers fire, a target returns
once its context is done. It is weak fairness, of the steps of each goroutine. Nobody is obliged to
start, answer, cancel, close, call a model or restore a crashed process, and `RunFails` is fair only
when the context is done: a turn that nobody stops may run for ever. In `WorkflowRun` each node is a
goroutine (a step's questions need not be answered), and Run or Resume another. In `ModelStream` the
server need not send anything: only the end of a request whose context is done is fair (`CutOff`), beside
the steps of adapter, relay, consumer and timer. In `Conversation` each run is fair, and a question is
abandoned when its turn is cancelled. In `TaskTurn` a run leaves its question when its context is done, and
a caller that has found a question goes on. `McpHarness` has only safety properties.

## 4. Proofs

tlapm proves, for all values of the constants under the assumptions named in the modules:

| Module | Theorems | Argument |
|---|---|---|
| `TaskProofs` | `TypeCorrect`, `Acknowledged`, `Ordered`, `Refines` | `IInv` adds to the types: whoever has a number holds `emitMu` and that number is the sequence, which is otherwise the last one delivered (`MutexInv`); at each position of a turn the last stored event is one of a few (`StoryInv`); what was not acknowledged decides the position and the status (`AckInv`); a caller has found a question once it has begun, and its response is stored when it is done (`CallerInv`). With `StoryInv` and `CallerInv` each step is a step of `TurnContract` or a stutter |
| | `RestoredTypeCorrect`, `RunsOnce`, `NeverReplayed`, `EndsForGood`, `NeverStranded` | `RestoredInv` says that a single call has taken the question (`HolderInv`), where the run that it starts may stand (`RunInv`), and when the question is waiting (`QuestionInv`) and the turn over (`EndInv`); for `NeverStranded`, that the call that resumes owns the cancel function (`CancelInv`) |
| `ModelProofs` | `TypeCorrect`, `Accounted`, `Bounded`, `Counted`, `TextUnmixed` | `IInv` counts the probes: how admission and report change the cardinality of `Probes` is a lemma, and `leftover` pays for the reports of an earlier period; for `TextUnmixed`, that nothing is shown outside of an attempt (`TextInv`) |
| | `StreamTypeCorrect`, `ReplyComplete` | `Flow` is the sequence of chunks on their way, from the goroutine of the adapter to the consumer. `HeldInv`: every event read is in the flow or with the consumer, once and in the order of the `Wire`, so that a chunk is always the one that the consumer lacks next (`HeldTake`) and the chunk that says that the reply is done finds all before it taken (`HeldFinal`). The blocks that are sent as a whole need `AccInv`: what the adapter has accumulated is what it has read. `EndInv`: until the consumer returns, a goroutine that has ended has left a chunk in the flow that ends the reply, so that no caller that goes on sees just a closed channel |
| `AgentRunProofs` | `TypeCorrect`, `NoSecondEffect`, `ConfirmedBefore`, `NoForgottenEffect`, `CostLimited` | `IInv` relates the call in hand, the effects, the Memory of the run and the stored checkpoint: a tool without a pending call in the checkpoint has an effect iff its result is saved (`SavedInv`, `LiveInv`, `OrderInv`); for `CostLimited`, that the model calls are paid for by the rounds counted in the run, less what its round may still call (`Due`), and by those counted in the stored checkpoint, plus what a round has called since (`Unsaved`), which is what a crash can repeat (`CostInv`) |
| `TeamRunProofs` | `TypeCorrect`, `QuestionBelongs`, `QuestionKept` | a checkpoint is `Consistent` when its question is that of its pending agent; the merge keeps this (`MergeKeeps`), whatever agent and however old the checkpoint it merges into, and every copy, read, drafted, current or stored, is consistent (`CopiesInv`); for `QuestionKept`, that of a team whose agents run one after the other only one has a checkpoint under way, and the application has the last one (`SoloInv`) |
| | `NeverRunAgain`, `InputFromPredecessor`, `CompleteOnSuccess` | `TInv` relates the position of the team, the outputs it has, the state of each agent in the current and in the stored checkpoint, and who has begun: whoever has begun has an output, a checkpoint or is running, and the stored checkpoint never says less of an agent than Resume needs to leave it alone. Stated of `Tame` teams, since the Resume of a leader/follower team forgets what a second crash would need (section 3) |
| `InteractionProofs` | `TypeCorrect`, `Own`, `Answerable` | `IInv` says which positions of a run have a registered question and an open channel, that an entry of `pending` names its own question, and what a caller may have found at each of its steps; an answer in a channel is that of a caller that was acknowledged for this question |
| `McpHarnessProofs` | `TypeCorrect`, `Whole`, `Stay`, `Kept` | `LockInv`: who is in the critical section of a client; `RegisteredInv`: the tools that carry a call's name are exactly those of its list, which is a part of `Discovered`; `SessionInv`: the session of an Initialize is newer than all that a Close is about to end, and nobody initializes a client between the two steps of a Close, unless it is in `overlapped` |
| `ConversationProofs` | `TypeCorrect`, `Exclusive`, `Lossless` | a run that may touch the Memory holds the gate (`GateInv`), so that the Memory is as short at a request as the run has left it; that the Memory, the calls in hand and the checkpoint are sequences (`SeqInv`, `StoredInv`) gives the length after a compaction |
| | `CallsPaired` | `Paired` says of a sequence of messages that each call has a result behind it, is of a broken run, or is open; that no call has two; that results stand behind their response unless messages were cut; and that calls are of loops already begun, so that new ones are new. Adding a message, eviction and compaction keep it (`PlainKeeps`, `ResponseKeeps`, `ResultKeeps`, `TrimKeeps`). Open are just the calls that a run has in hand (`RunOf`), hence none at a request, since the gate excludes others. `CheckpointInv` says the same of the stored messages with the turns that *will* be broken once they are restored (`SpoiltAfter`) |
| `WorkflowRunProofs` | `TypeCorrect`, `QuestionsResumable`, `EffectsOnce` | `Base` adds to the types which nodes run and what may stand at each place of a node; that the four kinds of nodes keep it is proved once, of the forms that their steps have (`Forms`). A checkpoint that asks outside of parallel nodes leads to its step by the branches and loops of its own tracker (`Sound`), and this holds of the current and the stored checkpoint, of the one that is resumed and of all under way (`GoodInv`), through each merge. A step whose agent was cut off after a tool is waiting or held by what Resume still has to do (`SpentInv`) |
| | `LoopsBounded` | `TurnsInv` bounds the iterations begun by those that the checkpoint to be resumed, the stored one and each one under way count, plus `MaxIter - 1` for every crash after the first, which is what a resumed loop does not report |
| | `CompletedOnce` | no checkpoint has a node as completed that the tracker has not (`KnownInv`), and what the tracker has is over, or is a node that Resume will skip (`OnceInv`) |
| | `InputsKept` | the nodes above a stored question were entered with the input of the checkpoint (`KeptInv`). A checkpoint may take its question from an older one, which another node has drafted or stored; so `AskedInv` and `PlainInv` say that while any copy has the question, the nodes above it run, or wait for Resume, with that input |

None of the invariants is inductive by itself: `BoundaryNotCrossed` does not know who holds the mutex,
`RunOnce` not who took the question, `EffectOnce` not what the checkpoint says, `AskedIsPending` not
what the agents have read and not yet written, `AllOrNothing` not what a rollback will remove,
`RunAgainNever` not what the stored checkpoint says of an agent, `RequestPaired` nothing of the steps
between two requests, nor of the checkpoint that a crash brings back, `QuestionResumable` nothing of the
checkpoints under way, `LoopBounded` not how many iterations a checkpoint counts, `InputKept` not whose
question a checkpoint has, `ReplyIsWhole` nothing of a reply that is not complete. Three properties of
`WorkflowRun` were false of trees that its run does not have, and were restated with what was found when
their proof failed: `CompletedNotRepeated` of parallel nodes nested in each other, `LoopBounded` and
`InputKept` of loops and parallel nodes nested in each other (section 3).

`TypeOK` of these modules, `BoundaryNotCrossed`, `SlotsAccounted`, `EndIsFinal`, `StartedFirst` and the
exclusion of `Exclusive` are proved and no run checks them.

Assumptions: in `ModelCircuit`, `TeamRun`, `WorkflowRun` and `Conversation` what the normalisation of a
configuration or its validation guarantees (`Normalized`, `Validated`, `ValidTaskMode`); in `WorkflowRun`
also that `Path` gives the paths of the trees that `Children` describes, and so that no node is used
twice (`WorkflowAssumption`); in `McpHarness` that the kinds of calls are disjoint and the calls of
InitMCPClients finite; elsewhere that bounds are numbers and that `None`, `Nobody` and `Restorer` differ
from what they stand beside (`NoneAssumption`). `StreamAssumption` says of the Chat API that a call has a
delta, since the identifier of a call comes with one.

Model-checked only: all liveness properties (`StopEnds`, `SlotFreed`, `StopEndsWait`, `CloseReleases`,
`AcceptedIsTaken`, `RunEnds`, `RunSettles`, `TeamSettles`, `WorkflowSettles`, `StreamEnds`,
`ConversationFreed`), since liveness under fairness is beyond the prover. Every safety property that a
passing run checks has a theorem. The prover has no induction over data, so the models avoid
folds: `Conversation` adds its messages one by one (`Added`), and the `Wire` of `ModelStream` is a set of
places in the reply with an order (`Before`), not a sequence put together from the blocks.

## 5. Not modelled, and the plan

Left out for good: building of requests and parsing of complete responses, the wire format of MCP,
built-in tools (conversion and I/O), text validation, configuration files, logging, examples, and nodes
or callbacks of a workflow that the application writes (custom CheckpointableNodes, `State`,
`AfterExecute`, `InputStateKey`). Also the re-entrant sink: `emitMu` is held during the call, so a sink
that calls back into its Task waits for itself; there is nothing to check about that. Servers whose
streams leave out what their API requires (calls without identifiers, several calls in one delta, of
which the chat adapter reads only the first) are not among the replies of `ModelStream`, and a server
that sends a request of its own with the identifier of an answer (taken for the answer by
decodeSSEResponse), or that ends a session by itself, is not among those of `McpHarness`. There, `Discover`
looks all the tools of one server up in one step, which the code does one by one (`harness.go:466-475`); a
tool registered in between is found by the registration instead, and no property depends on it.

Not modelled yet: the quota of progress summaries (a counter under a lock); retryDelay and
retryAfterDelay with the width of `time.Duration`; a contract over several incarnations of a Task (turn
stories across RestoreTask), with `TaskTurn` and `AgentRun` below it; the agents of `TeamRun` and
`WorkflowRun` as instances of an abstract `AgentRun`; workflows in which one node is used twice.

What is left out of `LoopBounded` and `InputKept` (loops and parallel nodes that are nested) would need a
model of which iteration a question belongs to.
