---------------------------- MODULE Conversation -----------------------------
(***************************************************************************)
(* The conversation of one agent: the Memory that its runs share, one      *)
(* after the other, and the messages that each request to the model holds. *)
(*                                                                         *)
(* In Task mode (task_runtime.go) the Memory is a SummaryMemory of the     *)
(* Task and the agent, behind a gate that AcquireConversation takes; it is *)
(* compacted by a summary of the model, and restored after a crash.  In    *)
(* synchronous mode it is the BufferMemory of the agent, behind            *)
(* acquireRun, which drops old messages when it is full.                   *)
(*                                                                         *)
(* A message is its role, the turn that it belongs to, and the calls of    *)
(* tools that it makes or answers: a call is <<turn, loop, index>>.        *)
(***************************************************************************)
EXTENDS Naturals, Sequences, SequencesExt, FiniteSets

CONSTANTS
    Modes,        \* of this instance: "task", "sync"
    Turns,        \* runs of the agent
    MaxLoops,     \* runConfig.maxLoops
    MaxCalls,     \* bound: tool calls of one response
    MaxCrashes,   \* bound: crashes of the process
    MaxSystem,    \* bound: calls of AddSystemMessage
    MaxMessages, KeepRecent, HardLimit,  \* SummaryConfig
    Capacity,     \* of the BufferMemory
    None

\* normalizeSummaryConfig: the limits are positive, and in this order.
Normalized ==
    /\ KeepRecent \in Nat \ {0} /\ MaxMessages \in Nat /\ HardLimit \in Nat
    /\ KeepRecent < MaxMessages /\ MaxMessages < HardLimit

ASSUME ConversationAssumption ==
    /\ Modes \subseteq {"task", "sync"} /\ None \notin Turns
    /\ MaxLoops \in Nat \ {0} /\ MaxCalls \in Nat \ {0}
    /\ MaxCrashes \in Nat /\ MaxSystem \in Nat
    /\ Normalized
    /\ Capacity \in Nat \ {0}

VARIABLES
    mode,        \* how the agent is run
    messages,    \* of the Memory
    summary,     \* has the SummaryMemory a summary?
    gate,        \* the run that holds the Memory
    pc,          \* where each run stands
    cancelled,   \* has its context ended?
    loopCount,   \* its loops
    todo,        \* the calls of the response that are still to be executed
    stored,      \* the last checkpoint that the application stored
    resumed,     \* the runs that go on after a crash
    crashes,
    spoken,      \* number of calls of AddSystemMessage
    cut,         \* history: have messages left the Memory?
    lost         \* history: messages that left it, and that no summary was made of

memory == <<messages, summary, cut, lost>>
run == <<pc, loopCount, todo>>
vars == <<mode, memory, gate, run, cancelled, stored, resumed, crashes, spoken>>

Ended == {"completed", "failed"}

Calls == Turns \X (1..MaxLoops) \X (1..MaxCalls)
Message == [role : {"system", "user", "assistant", "tool"}, turn : Turns \cup {None}, calls : Seq(Calls)]

TypeOK ==
    /\ mode \in Modes
    /\ messages \in Seq(Message) /\ summary \in BOOLEAN
    /\ gate \in Turns \cup {None}
    /\ pc \in [Turns -> {"idle", "waiting", "loop", "summarize", "request", "model", "tools",
                         "tool", "asked", "restored", "completed", "failed"}]
    /\ cancelled \in [Turns -> BOOLEAN] /\ loopCount \in [Turns -> 0..MaxLoops]
    /\ todo \in [Turns -> Seq(Calls)]
    /\ stored = None \/ (stored.turn \in Turns /\ stored.messages \in Seq(Message))
    /\ resumed \subseteq Turns /\ crashes \in 0..MaxCrashes /\ spoken \in 0..MaxSystem
    /\ cut \in BOOLEAN /\ lost \subseteq Message

Init ==
    /\ mode \in Modes
    /\ messages = <<>> /\ summary = FALSE
    /\ gate = None
    /\ pc = [t \in Turns |-> "idle"]
    /\ cancelled = [t \in Turns |-> FALSE]
    /\ loopCount = [t \in Turns |-> 0]
    /\ todo = [t \in Turns |-> <<>>]
    /\ stored = None /\ resumed = {} /\ crashes = 0 /\ spoken = 0
    /\ cut = FALSE /\ lost = {}

-----------------------------------------------------------------------------
(* memory/buffer.go and memory/summary.go *)

Said(role, turn, calls) == [role |-> role, turn |-> turn, calls |-> calls]

\* The number of messages at the front that are system messages.
LeadingSystem(ms) ==
    CHOOSE n \in 0..Len(ms) :
        /\ \A i \in 1..n : ms[i].role = "system"
        /\ n < Len(ms) => ms[n + 1].role # "system"

\* BufferMemory.Add: a full Memory drops half of its capacity, and keeps the
\* system messages at the front unless they are that many.
Evicted(ms) ==
    LET half == IF Capacity \div 2 < 1 THEN 1 ELSE Capacity \div 2
        start == LeadingSystem(ms)
    IN IF Len(ms) < Capacity THEN ms
       ELSE IF start < half THEN SubSeq(ms, 1, start) \o SubSeq(ms, half + 1, Len(ms))
       ELSE SubSeq(ms, half + 1, Len(ms))

Added(ms, m) == Append(Evicted(ms), m)

\* Memory.Add for some messages, one after the other: at most two of them in
\* synchronous mode.
Remember(news) ==
    /\ messages' = IF mode = "task" THEN messages \o news
                   ELSE IF Len(news) = 1 THEN Added(messages, news[1])
                   ELSE Added(Added(messages, news[1]), news[2])
    /\ cut' = (cut \/ Len(messages') < Len(messages) + Len(news))
    /\ UNCHANGED <<summary, lost>>

\* SummaryMemory.Compact
Recent(ms) == SubSeq(ms, (IF Len(ms) > KeepRecent THEN Len(ms) - KeepRecent ELSE 0) + 1, Len(ms))

-----------------------------------------------------------------------------
(* Runs: acquire, loop, release *)

Goes(t, here, there) == pc[t] = here /\ pc' = [pc EXCEPT ![t] = there]

\* The deferred Release.
\* A plausible bug: a run that fails keeps the gate.
ReleasedIfCompleted(t, end) == gate' = IF end = "completed" THEN None ELSE gate

Released(t, end) == gate' = None

Ends(t, end) ==
    /\ pc' = [pc EXCEPT ![t] = end]
    /\ todo' = [todo EXCEPT ![t] = <<>>]
    /\ Released(t, end)

Saved(t, ms, pending) == [turn |-> t, messages |-> ms, summary |-> summary',
                          loops |-> loopCount'[t], pending |-> pending]

\* Checkpoint of the run of turn t in Task mode, with the Memory as it is after
\* the step; pending is the state of its next call.
Stores(t, pending) ==
    stored' = IF mode = "task" THEN Saved(t, messages', pending) ELSE stored

\* A sink may have stored the checkpoint that it did not acknowledge.
MayStore(t, pending) == Stores(t, pending) \/ UNCHANGED stored

Start(t) ==
    /\ Goes(t, "idle", "waiting")
    /\ UNCHANGED <<mode, memory, gate, cancelled, loopCount, todo, stored, resumed, crashes, spoken>>

\* What a run adds to the Memory first: the user's message or, when it goes on
\* after its question was answered, the result of that call.
First(t) ==
    IF t \notin resumed THEN <<Said("user", t, <<>>)>>
    ELSE [i \in DOMAIN todo[t] |-> Said("tool", t, <<todo[t][i]>>)]

\* AcquireConversation or acquireRun, and the first checkpoint.
Acquire(t) ==
    /\ pc[t] = "waiting" /\ gate = None
    /\ Remember(First(t))
    /\ loopCount' = loopCount
    /\ \/ /\ Goes(t, "waiting", "loop")
          /\ gate' = t
          /\ todo' = [todo EXCEPT ![t] = <<>>]
          /\ Stores(t, "none")
       \/ /\ mode = "task"
          /\ Ends(t, "failed")
          /\ MayStore(t, "none")
    /\ UNCHANGED <<mode, cancelled, resumed, crashes, spoken>>

CancelledWhileWaiting(t) ==
    /\ cancelled[t]
    /\ Goes(t, "waiting", "failed")
    /\ todo' = [todo EXCEPT ![t] = <<>>]
    /\ UNCHANGED <<mode, memory, gate, cancelled, loopCount, stored, resumed, crashes, spoken>>

\* The head of the loop: the context, and whether to summarize.
Loop(t) ==
    /\ pc[t] = "loop" /\ loopCount[t] < MaxLoops
    /\ loopCount' = [loopCount EXCEPT ![t] = @ + 1]
    /\ IF cancelled[t] THEN Ends(t, "failed")
       ELSE /\ Goes(t, "loop", IF mode = "task" /\ Len(messages) > MaxMessages
                               THEN "summarize" ELSE "request")
            /\ UNCHANGED <<todo, gate>>
    /\ UNCHANGED <<mode, memory, cancelled, stored, resumed, crashes, spoken>>

\* ErrMaxLoopsExceeded
LoopsExceeded(t) ==
    /\ pc[t] = "loop" /\ loopCount[t] = MaxLoops
    /\ Ends(t, "failed")
    /\ UNCHANGED <<mode, memory, cancelled, loopCount, stored, resumed, crashes, spoken>>

\* compactTaskMemory: the summary of all messages succeeds, and so its checkpoint.
Summarize(t) ==
    /\ pc[t] = "summarize"
    /\ messages' = Recent(messages)
    /\ summary' = TRUE /\ cut' = TRUE
    /\ UNCHANGED <<lost, loopCount>>
    /\ \/ /\ Goes(t, "summarize", "request")
          /\ Stores(t, "none")
          /\ UNCHANGED <<todo, gate>>
       \/ /\ Ends(t, "failed")
          /\ MayStore(t, "none")
    /\ UNCHANGED <<mode, cancelled, resumed, crashes, spoken>>

\* A plausible bug: it makes room before the summary has succeeded.
DropsUnsummarized ==
    /\ messages' = Recent(messages)
    /\ cut' = TRUE
    /\ lost' = lost \cup (ToSet(messages) \ ToSet(messages'))
    /\ UNCHANGED summary

KeepsAll == UNCHANGED memory

\* The summary fails or is empty: the turn goes on below the hard limit.
SummaryFails(t) ==
    /\ pc[t] = "summarize"
    /\ KeepsAll
    /\ IF Len(messages) < HardLimit
       THEN Goes(t, "summarize", "request") /\ UNCHANGED <<todo, gate>>
       ELSE Ends(t, "failed")
    /\ UNCHANGED <<mode, cancelled, loopCount, stored, resumed, crashes, spoken>>

Ask(t) ==
    /\ Goes(t, "request", "model")
    /\ UNCHANGED <<mode, memory, gate, cancelled, loopCount, todo, stored, resumed, crashes, spoken>>

-----------------------------------------------------------------------------
(* The response of the model, and its tools *)

ModelFails(t) ==
    /\ pc[t] = "model"
    /\ Ends(t, "failed")
    /\ UNCHANGED <<mode, memory, cancelled, loopCount, stored, resumed, crashes, spoken>>

\* The final answer.
Answer(t) ==
    /\ pc[t] = "model"
    /\ Remember(<<Said("assistant", t, <<>>)>>)
    /\ loopCount' = loopCount
    /\ \/ Ends(t, "completed") /\ Stores(t, "final")
       \/ mode = "task" /\ Ends(t, "failed") /\ MayStore(t, "final")
    /\ UNCHANGED <<mode, cancelled, resumed, crashes, spoken>>

\* A response that was cut by its token limit is continued.
CutResponse(t) ==
    /\ pc[t] = "model"
    /\ Remember(<<Said("assistant", t, <<>>), Said("user", t, <<>>)>>)
    /\ loopCount' = loopCount
    /\ \/ Goes(t, "model", "loop") /\ Stores(t, "none") /\ UNCHANGED <<todo, gate>>
       \/ mode = "task" /\ Ends(t, "failed") /\ MayStore(t, "none")
    /\ UNCHANGED <<mode, cancelled, resumed, crashes, spoken>>

\* A response with n calls.
WantsTools(t, n) ==
    LET calls == [i \in 1..n |-> <<t, loopCount[t], i>>] IN
    /\ Goes(t, "model", "tools")
    /\ Remember(<<Said("assistant", t, calls)>>)
    /\ todo' = [todo EXCEPT ![t] = calls]
    /\ UNCHANGED <<mode, gate, cancelled, loopCount, stored, resumed, crashes, spoken>>

\* A plausible bug: a tool that fails has no result.
NoResultOfError(t) ==
    \/ Remember(<<Said("tool", t, <<Head(todo[t])>>)>>)
    \/ UNCHANGED memory

\* What a tool returns, or its error.
Result(t) == Remember(<<Said("tool", t, <<Head(todo[t])>>)>>)

\* The checkpoint before the next call; it is executed, or it asks the user.  A
\* question that is refused has a result, too.  report_progress has no checkpoint.
Call(t, kind) ==
    /\ pc[t] = "tools" /\ todo[t] # <<>>
    /\ kind = "asked" => mode = "task"
    /\ loopCount' = loopCount
    /\ \/ /\ Goes(t, "tools", kind)
          /\ UNCHANGED <<memory, todo, gate>>
          /\ Stores(t, kind) \/ (kind = "tool" /\ UNCHANGED stored)
       \/ /\ mode = "task"
          /\ Ends(t, "failed")
          /\ IF kind = "asked" THEN Result(t) ELSE UNCHANGED memory
          /\ stored' \in {stored, Saved(t, messages, kind)}
    /\ UNCHANGED <<mode, cancelled, resumed, crashes, spoken>>

\* The tool returns, or the user answers, and the checkpoint after it is
\* stored, or the run fails: also when the question is refused or abandoned.
CallReturns(t) ==
    /\ pc[t] \in {"tool", "asked"}
    /\ Result(t)
    /\ loopCount' = loopCount
    /\ \/ /\ pc' = [pc EXCEPT ![t] = "tools"]
          /\ todo' = [todo EXCEPT ![t] = Tail(@)]
          /\ Stores(t, "none")
          /\ UNCHANGED gate
       \/ mode = "task" /\ Ends(t, "failed") /\ MayStore(t, "none")
    /\ UNCHANGED <<mode, cancelled, resumed, crashes, spoken>>

CallsDone(t) ==
    /\ todo[t] = <<>>
    /\ Goes(t, "tools", "loop")
    /\ UNCHANGED <<mode, memory, gate, cancelled, loopCount, todo, stored, resumed, crashes, spoken>>

-----------------------------------------------------------------------------
(* The application *)

Cancel(t) ==
    /\ pc[t] \notin Ended \cup {"idle", "restored"} /\ ~cancelled[t]
    /\ cancelled' = [cancelled EXCEPT ![t] = TRUE]
    /\ UNCHANGED <<mode, memory, gate, run, stored, resumed, crashes, spoken>>

\* Agent.AddSystemMessage does not wait for the gate.
AddSystemMessage ==
    /\ mode = "sync" /\ spoken < MaxSystem
    /\ spoken' = spoken + 1
    /\ Remember(<<Said("system", None, <<>>)>>)
    /\ UNCHANGED <<mode, gate, run, cancelled, stored, resumed, crashes>>

\* The process dies and the application restores the Task from the checkpoint:
\* its turn waits for the answer, goes on by itself, is known as completed, or
\* interrupted.  All other turns are gone.
Restored(pending) ==
    CASE pending = "asked" -> "restored"
      [] pending = "none" -> "waiting"
      [] pending = "final" -> "completed"
      [] pending = "tool" -> "failed"

\* The call that the last message with calls still waits for.
Pending(ms) ==
    LET i == CHOOSE j \in DOMAIN ms :
                /\ ms[j].role = "assistant" /\ ms[j].calls # <<>>
                /\ \A k \in (j + 1)..Len(ms) : ms[k].role = "tool"
    IN ms[i].calls[Len(ms) - i + 1]

Crash ==
    /\ mode = "task" /\ stored # None /\ crashes < MaxCrashes
    /\ crashes' = crashes + 1
    /\ LET t == stored.turn IN
       /\ pc' = [u \in Turns |-> IF u = t THEN Restored(stored.pending)
                                 ELSE IF pc[u] = "idle" \/ pc[u] \in Ended THEN pc[u] ELSE "failed"]
       /\ resumed' = IF Restored(stored.pending) \in Ended THEN resumed ELSE resumed \cup {t}
       /\ todo' = [u \in Turns |-> IF u = t /\ stored.pending = "asked"
                                   THEN <<Pending(stored.messages)>> ELSE <<>>]
       /\ loopCount' = [loopCount EXCEPT ![t] = stored.loops]
    /\ messages' = stored.messages /\ summary' = stored.summary
    /\ gate' = None
    /\ cancelled' = [u \in Turns |-> FALSE]
    /\ UNCHANGED <<mode, stored, spoken, cut, lost>>

\* AnswerInteraction for the question of a restored turn.
AnswerRestored(t) ==
    /\ Goes(t, "restored", "waiting")
    /\ UNCHANGED <<mode, memory, gate, cancelled, loopCount, todo, stored, resumed, crashes, spoken>>

Run(t) ==
    \/ Acquire(t) \/ CancelledWhileWaiting(t) \/ Loop(t) \/ LoopsExceeded(t)
    \/ Summarize(t) \/ SummaryFails(t) \/ Ask(t)
    \/ ModelFails(t) \/ Answer(t) \/ CutResponse(t) \/ (\E n \in 1..MaxCalls : WantsTools(t, n))
    \/ (\E kind \in {"tool", "asked"} : Call(t, kind)) \/ CallsDone(t)

Next ==
    \/ AddSystemMessage \/ Crash
    \/ \E t \in Turns : Start(t) \/ Run(t) \/ CallReturns(t) \/ Cancel(t) \/ AnswerRestored(t)

\* Models, summarizers and tools return, and the gate is taken when it is free.
\* A user need not answer, unless the question is abandoned.
Fairness ==
    /\ \A t \in Turns : WF_vars(Run(t))
    /\ \A t \in Turns : WF_vars((pc[t] = "tool" \/ cancelled[t]) /\ CallReturns(t))

Spec == Init /\ [][Next]_vars /\ Fairness

-----------------------------------------------------------------------------
(* Properties *)

\* buildMessages: the messages of the Memory behind the summary; the prompt of
\* the agent only in front of messages none of which is a system message.
HasPrompt == ~summary /\ \A i \in DOMAIN messages : messages[i].role # "system"

\* docs/03-runtime-engine.md:432: each run injects the system prompt again, so
\* that it is always present.
PromptPresent == \A t \in Turns : pc[t] = "request" => HasPrompt

\* Runs that ended without success, or that a crash has cut in two, may leave
\* calls without a result in the Memory of the runs that follow.
Broken(t) == pc[t] = "failed" \/ t \in resumed

Results(id) == {j \in DOMAIN messages : messages[j].role = "tool" /\ messages[j].calls = <<id>>}

CallAnswered(i, id) ==
    /\ Cardinality(Results(id)) <= 1
    /\ Results(id) = {} => Broken(messages[i].turn)

\* Only results of the same response, and system messages, come between.
ResultBelongs(j) ==
    \E i \in 1..(j - 1) :
        /\ messages[i].role = "assistant" /\ Contains(messages[i].calls, messages[j].calls[1])
        /\ \A k \in (i + 1)..(j - 1) :
            \/ messages[k].role = "system"
            \/ messages[k].role = "tool" /\ Contains(messages[i].calls, messages[k].calls[1])
            \/ Broken(messages[i].turn)

\* docs/01-introduction.md:313: the APIs want each result paired with an
\* earlier call.  In a request each call has one result, which follows it,
\* except for what a failed or restored run left, and for results whose call
\* the Memory has dropped.
RequestPaired ==
    (\E t \in Turns : pc[t] = "request") =>
        \A i \in DOMAIN messages :
            /\ messages[i].role = "assistant" =>
                \A n \in DOMAIN messages[i].calls : CallAnswered(i, messages[i].calls[n])
            /\ messages[i].role = "tool" => cut \/ ResultBelongs(i)

\* docs/05-memory.md:335: a summary that fails loses nothing.  What leaves the
\* Memory of a Task is in the summary, up to the hard limit, below which every
\* request stays.
NothingLost ==
    mode = "task" => /\ lost = {}
                     /\ \A t \in Turns : pc[t] = "request" => Len(messages) < HardLimit

\* Who waits for the conversation gets it, unless the run that has it waits for
\* an answer: also a run that fails or is cancelled gives it back.
ConversationFreed ==
    \A t \in Turns :
        pc[t] = "waiting" ~> \/ pc[t] # "waiting"
                             \/ \E u \in Turns : pc[u] = "asked" /\ ~cancelled[u]

=============================================================================
