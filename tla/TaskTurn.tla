------------------------------ MODULE TaskTurn ------------------------------
(***************************************************************************)
(* The life of the turns of one Task (task_runtime.go): StartAgent,        *)
(* StartTeam and StartWorkflow register a turn and emit its start events,  *)
(* a goroutine runs it, emits its final message and its terminal event and *)
(* publishes its result; CancelTurn and Close may come at any moment.      *)
(* While a run waits for an answer, its question is in Task.pending, where *)
(* callers of AnswerInteraction find it; each of them emits an event of    *)
(* the turn from a goroutine of its own, whatever becomes of the turn in   *)
(* the meantime.  What else becomes of an answer is in module Interaction. *)
(*                                                                         *)
(* Events of all turns go through one mutex, emitMu, that is held while    *)
(* the application's sink runs.  An emission is two steps, taking the      *)
(* mutex with a sequence number and the return of the sink, so that the    *)
(* others, CancelTurn and Close run while the sink does.                   *)
(*                                                                         *)
(* The sink is external.  It answers a required_ack event with "ack"       *)
(* (stored), "reject" (an error, not stored) or "late" (stored, and yet an *)
(* error, such as a commit whose confirmation timed out).                  *)
(***************************************************************************)
EXTENDS Naturals

CONSTANTS
    Turns,      \* the turns callers try to start on this Task
    Callers,    \* calls of AnswerInteraction
    Nobody,     \* emitMu is free
    MaxEvents   \* bound: events one turn emits while its target runs

ASSUME TurnsAssumption == Nobody \notin Turns \cup Callers /\ Turns \cap Callers = {}
ASSUME MaxEventsAssumption == MaxEvents \in Nat

VARIABLES
    pc,         \* where startTurn or runTurn stands for each turn
    closed,     \* Task.closed; Task.ctx is cancelled in the same critical section
    stopped,    \* the turns whose own context was cancelled
    emitMu,     \* the turn or caller whose emission holds Task.emitMu
    sequence,   \* Task.sequence
    number,     \* Event.Sequence of each one's emission in progress
    eventType,  \* runTurn's eventType
    status,     \* runTurn's status, published when the turn is done
    emitted,    \* how many events the running target has emitted
    asking,     \* the turns with a question in Task.pending
    caller,     \* where each AnswerInteraction stands
    found,      \* the turn whose question it has looked up
    shown,      \* history: the last event of each run that the sink stored
    heard,      \* history: the calls whose response the sink stored
    delivered,  \* history: Sequence of the last event the sink was given
    unacked     \* history: the events of startTurn and runTurn it did not acknowledge

answering == <<caller, found, heard>>
vars == <<pc, closed, stopped, emitMu, sequence, number, eventType, status,
          emitted, asking, answering, shown, delivered, unacked>>

Answers == {"ack", "reject", "late"}

Outcomes == {"turn.completed", "turn.failed", "turn.cancelled"}

Kinds == {"turn.started", "message.user", "run.event",
          "message.assistant_completed"} \cup Outcomes

\* The status that goes with the terminal event of a run that did not succeed.
StatusOf(outcome) == IF outcome = "turn.cancelled" THEN "cancelled" ELSE "failed"

Emitters == Turns \cup Callers

Emitting == {"announce", "message", "event", "assistant", "terminal"}

Registered(t) ==
    pc[t] \in Emitting \cup {"running", "register", "removing", "settle", "done"}

\* A plausible bug: the context of a run is not derived from the Task's.
ContextDetached(t) == t \in stopped

\* The context of a run is derived from the Task's, so Close cancels it too.
ContextDone(t) == closed \/ t \in stopped

TypeOK ==
    /\ pc \in [Turns -> Emitting \cup {"idle", "starting", "running", "register",
                                       "removing", "settle", "done", "refused"}]
    /\ closed \in BOOLEAN
    /\ stopped \in SUBSET Turns
    /\ emitMu \in Emitters \cup {Nobody}
    /\ sequence \in Nat
    /\ number \in [Emitters -> Nat]
    /\ eventType \in [Turns -> Outcomes]
    /\ status \in [Turns -> {"running", "completed", "failed", "cancelled"}]
    /\ emitted \in [Turns -> 0..MaxEvents]
    /\ asking \in SUBSET Turns
    /\ caller \in [Callers -> {"idle", "emit", "done"}]
    /\ found \in [Callers -> Turns \cup {Nobody}]
    /\ shown \in [Turns -> Kinds \cup {"nothing"}]
    /\ heard \in SUBSET Callers
    /\ delivered \in Nat
    /\ unacked \in [Turns -> SUBSET Kinds]

\* NewTask has returned: the sink has acknowledged task.started, event 1.
Init ==
    /\ pc = [t \in Turns |-> "idle"]
    /\ closed = FALSE
    /\ stopped = {}
    /\ emitMu = Nobody
    /\ sequence = 1
    /\ number = [e \in Emitters |-> 0]
    /\ eventType = [t \in Turns |-> "turn.failed"]
    /\ status = [t \in Turns |-> "running"]
    /\ emitted = [t \in Turns |-> 0]
    /\ asking = {}
    /\ caller = [w \in Callers |-> "idle"]
    /\ found = [w \in Callers |-> Nobody]
    /\ shown = [t \in Turns |-> "nothing"]
    /\ heard = {}
    /\ delivered = 1
    /\ unacked = [t \in Turns |-> {}]

-----------------------------------------------------------------------------
(* startTurn *)

At(t, here, there) == pc[t] = here /\ pc' = [pc EXCEPT ![t] = there]

\* startTurn's first look at the Task, under a read lock it releases again;
\* the input that fails validation is refused here too.
Start(t) ==
    /\ \/ ~closed /\ At(t, "idle", "starting")
       \/ At(t, "idle", "refused")
    /\ UNCHANGED <<closed, stopped, emitMu, sequence, number, eventType, status,
                   emitted, asking, answering, shown, delivered, unacked>>

\* The turn enters Task.turns unless the Task was closed in between.
Register(t) ==
    /\ IF closed THEN At(t, "starting", "refused")
                 ELSE At(t, "starting", "announce")
    /\ UNCHANGED <<closed, stopped, emitMu, sequence, number, eventType, status,
                   emitted, asking, answering, shown, delivered, unacked>>

\* removeTurn and cancel after a start event that was not acknowledged.
Remove(t) ==
    /\ At(t, "removing", "refused")
    /\ stopped' = stopped \cup {t}
    /\ UNCHANGED <<closed, emitMu, sequence, number, eventType, status, emitted,
                   asking, answering, shown, delivered, unacked>>

-----------------------------------------------------------------------------
(* Task.emit *)

\* A plausible bug: the mutex protects the counter but not the call of the sink.
ReleaseEarly(e) == emitMu = Nobody /\ emitMu' = Nobody

\* Task.emitMu.Lock, to be held until the sink returns.
TakeEmitMu(e) == emitMu = Nobody /\ emitMu' = e

\* Has this turn or caller come to a call of emit?
AtEmit(e) == (e \in Turns /\ pc[e] \in Emitting) \/ (e \in Callers /\ caller[e] = "emit")

\* The event gets its number under the mutex, and the sink is called.
EmitBegin(e) ==
    /\ AtEmit(e)
    /\ number[e] = 0
    /\ TakeEmitMu(e)
    /\ sequence' = sequence + 1
    /\ number' = [number EXCEPT ![e] = sequence + 1]
    /\ UNCHANGED <<pc, closed, stopped, eventType, status, emitted, asking, answering,
                   shown, delivered, unacked>>

\* The sink returns to emit, which releases the mutex.
EmitReturns(e) ==
    /\ number[e] # 0
    /\ emitMu' = Nobody
    /\ number' = [number EXCEPT ![e] = 0]
    /\ delivered' = number[e]
    /\ UNCHANGED <<closed, stopped, sequence, emitted, asking>>

\* The same for an event of the turn's own goroutine.
SinkReturns(t, kind, answer) ==
    /\ EmitReturns(t)
    /\ shown' = IF answer = "reject" THEN shown ELSE [shown EXCEPT ![t] = kind]
    /\ unacked' = IF answer = "ack" THEN unacked
                  ELSE [unacked EXCEPT ![t] = @ \cup ({kind} \ {"run.event"})]
    /\ UNCHANGED answering

-----------------------------------------------------------------------------
(* startTurn, continued: the start events *)

\* Where startTurn goes on once its event was or was not acknowledged.
NextIfAcked(answer, next) == IF answer = "ack" THEN next ELSE "removing"

Announced(t, answer) ==
    /\ At(t, "announce", NextIfAcked(answer, "message"))
    /\ SinkReturns(t, "turn.started", answer)
    /\ UNCHANGED <<eventType, status>>

UserMessageStored(t, answer) ==
    /\ At(t, "message", NextIfAcked(answer, "running"))
    /\ SinkReturns(t, "message.user", answer)
    /\ UNCHANGED <<eventType, status>>

-----------------------------------------------------------------------------
(* runTurn.  The target is an agent, a team or a workflow; here it emits at *)
(* most MaxEvents events and then succeeds or fails.                        *)

RunEmits(t) ==
    /\ emitted[t] < MaxEvents
    /\ At(t, "running", "event")
    /\ emitted' = [emitted EXCEPT ![t] = @ + 1]
    /\ UNCHANGED <<closed, stopped, emitMu, sequence, number, eventType, status,
                   asking, answering, shown, delivered, unacked>>

\* The event may be the checkpoint of a question, which RequestInput registers
\* once it is acknowledged.
RunEventReturns(t, answer) ==
    /\ \/ At(t, "event", "running")
       \/ At(t, "event", "register") /\ answer = "ack"
    /\ SinkReturns(t, "run.event", answer)
    /\ UNCHANGED <<eventType, status>>

\* The question enters Task.pending; until it leaves, the run goes on to emit.
RegisterQuestion(t) ==
    /\ At(t, "register", "running")
    /\ asking' = asking \cup {t}
    /\ UNCHANGED <<closed, stopped, emitMu, sequence, number, eventType, status,
                   emitted, answering, shown, delivered, unacked>>

\* RequestInput returns, with an answer or an error: its deferred delete.
LeaveQuestion(t) ==
    /\ pc[t] = "running" /\ t \in asking
    /\ asking' = asking \ {t}
    /\ UNCHANGED <<pc, closed, stopped, emitMu, sequence, number, eventType, status,
                   emitted, answering, shown, delivered, unacked>>

RunSucceeds(t) ==
    /\ At(t, "running", "assistant")
    /\ t \notin asking
    /\ eventType' = [eventType EXCEPT ![t] = "turn.completed"]
    /\ status' = [status EXCEPT ![t] = "completed"]
    /\ UNCHANGED <<closed, stopped, emitMu, sequence, number, emitted,
                   asking, answering, shown, delivered, unacked>>

\* A failure counts as a cancellation if the context was cancelled meanwhile.
RunFails(t) ==
    LET outcome == IF ContextDone(t) THEN "turn.cancelled" ELSE "turn.failed" IN
    /\ At(t, "running", "terminal")
    /\ t \notin asking
    /\ eventType' = [eventType EXCEPT ![t] = outcome]
    /\ status' = [status EXCEPT ![t] = StatusOf(outcome)]
    /\ UNCHANGED <<closed, stopped, emitMu, sequence, number, emitted,
                   asking, answering, shown, delivered, unacked>>

\* Without the acknowledgement of the final message the turn has failed.
AssistantReturns(t, answer) ==
    /\ At(t, "assistant", "terminal")
    /\ SinkReturns(t, "message.assistant_completed", answer)
    /\ IF answer = "ack"
       THEN UNCHANGED <<eventType, status>>
       ELSE /\ eventType' = [eventType EXCEPT ![t] = "turn.failed"]
            /\ status' = [status EXCEPT ![t] = "failed"]

\* A plausible bug: the error of the last emission is ignored.
StatusKept(t, answer) == status

\* The status after the terminal event, whose type is no longer corrected.
StatusAfterTerminal(t, answer) ==
    IF answer = "ack" THEN status ELSE [status EXCEPT ![t] = "failed"]

TerminalReturns(t, answer) ==
    /\ At(t, "terminal", "settle")
    /\ SinkReturns(t, eventType[t], answer)
    /\ status' = StatusAfterTerminal(t, answer)
    /\ UNCHANGED eventType

\* The result is stored and the channel WaitTurn waits on is closed.
Settle(t) ==
    /\ At(t, "settle", "done")
    /\ UNCHANGED <<closed, stopped, emitMu, sequence, number, eventType, status,
                   emitted, asking, answering, shown, delivered, unacked>>

EmitEnd(t) ==
    \E answer \in Answers :
        \/ Announced(t, answer)
        \/ UserMessageStored(t, answer)
        \/ RunEventReturns(t, answer)
        \/ AssistantReturns(t, answer)
        \/ TerminalReturns(t, answer)

-----------------------------------------------------------------------------
(* AnswerInteraction *)

\* The question is looked up under a read lock that is released again.
FindQuestion(w, t) ==
    /\ t \in asking
    /\ caller[w] = "idle" /\ caller' = [caller EXCEPT ![w] = "emit"]
    /\ found' = [found EXCEPT ![w] = t]
    /\ UNCHANGED <<pc, closed, stopped, emitMu, sequence, number, eventType, status,
                   emitted, asking, heard, shown, delivered, unacked>>

\* interaction.responded of the turn found then, wherever that turn is now.
ResponseReturns(w, answer) ==
    /\ caller[w] = "emit" /\ caller' = [caller EXCEPT ![w] = "done"]
    /\ EmitReturns(w)
    /\ heard' = IF answer = "reject" THEN heard ELSE heard \cup {w}
    /\ UNCHANGED <<pc, eventType, status, found, shown, unacked>>

-----------------------------------------------------------------------------
(* CancelTurn and Close *)

CancelTurn(t) ==
    /\ Registered(t)
    /\ stopped' = stopped \cup {t}
    /\ UNCHANGED <<pc, closed, emitMu, sequence, number, eventType, status,
                   emitted, asking, answering, shown, delivered, unacked>>

Close ==
    /\ ~closed
    /\ closed' = TRUE
    /\ UNCHANGED <<pc, stopped, emitMu, sequence, number, eventType, status,
                   emitted, asking, answering, shown, delivered, unacked>>

Step(t) ==
    \/ Start(t) \/ Register(t) \/ Remove(t)
    \/ EmitBegin(t) \/ EmitEnd(t)
    \/ RunEmits(t) \/ RegisterQuestion(t) \/ LeaveQuestion(t)
    \/ RunSucceeds(t) \/ RunFails(t) \/ Settle(t)
    \/ CancelTurn(t)

AnswerStep(w) ==
    \/ \E t \in Turns : FindQuestion(w, t)
    \/ EmitBegin(w)
    \/ \E answer \in Answers : ResponseReturns(w, answer)

Next ==
    \/ Close
    \/ \E t \in Turns : Step(t)
    \/ \E w \in Callers : AnswerStep(w)

\* The goroutines of turns and callers keep running, sinks return, and a target
\* returns once its context is done; nobody has to start, answer, cancel or
\* close anything.
Fairness ==
    /\ \A t \in Turns :
        /\ WF_vars(Register(t) \/ Remove(t) \/ Settle(t) \/ RegisterQuestion(t))
        /\ WF_vars(EmitBegin(t))
        /\ WF_vars(EmitEnd(t))
        /\ WF_vars(ContextDone(t) /\ (RunFails(t) \/ LeaveQuestion(t)))
    /\ \A w \in Callers :
        WF_vars(EmitBegin(w) \/ \E answer \in Answers : ResponseReturns(w, answer))

Spec == Init /\ [][Next]_vars /\ Fairness

-----------------------------------------------------------------------------
(* Properties *)

\* What the caller of StartAgent and WaitTurn has been told about a turn.
Verdict ==
    [t \in Turns |-> IF pc[t] = "done" THEN status[t]
                     ELSE IF pc[t] = "refused" THEN "refused" ELSE "none"]

Contract == INSTANCE TurnContract WITH verdict <- Verdict

\* startTurn, runTurn and AnswerInteraction keep the promise of TurnContract:
\* the stored events of a run are well-formed at every moment and agree with the
\* result of its turn, and a response, which may come after both, is stored once
\* and of a question that was found while the run was at work.
ContractKept == Contract!Spec

\* docs/03-runtime-engine.md:744, on required_ack: until Emit returns nil the
\* library does not cross the safety boundary.  A target runs only after both
\* start events were acknowledged, and a turn is reported completed only after
\* its final message and its terminal event were.
BoundaryNotCrossed ==
    \A t \in Turns :
        /\ pc[t] \in {"running", "register", "event", "assistant", "terminal",
                      "settle", "done"}
              => unacked[t] \cap {"turn.started", "message.user"} = {}
        /\ pc[t] = "done" /\ status[t] = "completed"
              => unacked[t] \cap {"message.assistant_completed", "turn.completed"} = {}

\* docs/03-runtime-engine.md:741: the sink receives the events of all turns in
\* the order of their Sequence, with no number skipped or repeated.
SinkOrder == [][delivered' = delivered + 1]_delivered

\* Cancelling a registered turn, or closing the Task, ends the turn: WaitTurn
\* and StartAgent return.
StopEnds ==
    \A t \in Turns :
        Registered(t) /\ (closed \/ t \in stopped) ~> pc[t] \in {"done", "refused"}
=============================================================================
