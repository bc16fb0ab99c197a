---------------------------- MODULE ModelCircuit ----------------------------
(***************************************************************************)
(* The circuit breaker of one Model instance and the logical model calls   *)
(* of Task turns that pass through it (engine/reliability.go).             *)
(*                                                                         *)
(* A call asks ReliabilityManager.allow for admission, makes up to         *)
(* MaxAttempts attempts with a pause after each transient error, and       *)
(* reports its outcome when it is over.  allow and the report are critical *)
(* sections of ReliabilityManager.mu; everything between them interleaves  *)
(* with the other calls.  The circuit belongs to the Harness, so calls of  *)
(* Tasks with different task.CircuitConfig share it: the configuration is  *)
(* a function of the call.                                                 *)
(***************************************************************************)
EXTENDS Naturals, FiniteSets

CONSTANTS
    Calls,             \* concurrent logical calls, one at a time per turn
    FailureThreshold,  \* CircuitConfig of the Task each call belongs to
    OpenDuration,
    HalfOpenMax,
    MaxAttempts,       \* RetryConfig.MaxAttempts of that Task
    FailureCap,        \* the count of failures saturates here
    OpenCap            \* the time since openedAt saturates here

\* What normalizeCircuitConfig and normalizeRetryConfig guarantee.  Neither
\* saturation is visible: both values are only compared with a configuration.
\* normalizeCircuitConfig and normalizeRetryConfig: a negative value is refused,
\* and a zero stands for a default.
Normalized(config) == config \in [Calls -> Nat \ {0}]

ASSUME ConfigAssumption ==
    /\ IsFiniteSet(Calls)
    /\ Normalized(FailureThreshold) /\ Normalized(OpenDuration)
    /\ Normalized(HalfOpenMax) /\ Normalized(MaxAttempts)
    /\ FailureCap \in Nat /\ \A c \in Calls : FailureThreshold[c] <= FailureCap
    /\ OpenCap \in Nat /\ \A c \in Calls : OpenDuration[c] <= OpenCap

VARIABLES
    phase,        \* circuitState.phase
    failures,     \* circuitState.failures
    elapsed,      \* the clock minus circuitState.openedAt
    halfOpenRun,  \* circuitState.halfOpenRun
    pc,           \* where each call stands
    admitted,     \* the phase captured when the call was admitted
    attempt,      \* the attempt the call is in
    cause,        \* why the call is over
    cancelled,    \* the calls whose context is done
    text,         \* the attempts whose streamed text a client shows
    leftover      \* history: probes in flight when half-open last began

circuit == <<phase, failures, elapsed, halfOpenRun, leftover>>
vars == <<circuit, pc, admitted, attempt, cause, cancelled, text>>

Causes == {"response", "exhausted", "permanent", "aborted"}

TypeOK ==
    /\ phase \in {"closed", "open", "halfOpen"}
    /\ failures \in 0..FailureCap
    /\ elapsed \in 0..OpenCap
    /\ halfOpenRun \in Nat
    /\ leftover \in Nat
    /\ pc \in [Calls -> {"idle", "refused", "invoking", "waiting", "finishing"}]
    /\ admitted \in [Calls -> {"none", "closed", "halfOpen"}]
    /\ attempt \in [Calls -> Nat]
    /\ cause \in [Calls -> Causes]
    /\ cancelled \in SUBSET Calls
    /\ text \in [Calls -> SUBSET Nat]

Init ==
    /\ phase = "closed" /\ failures = 0 /\ elapsed = 0
    /\ halfOpenRun = 0 /\ leftover = 0
    /\ pc = [c \in Calls |-> "idle"]
    /\ admitted = [c \in Calls |-> "none"]
    /\ attempt = [c \in Calls |-> 0]
    /\ cause = [c \in Calls |-> "response"]
    /\ cancelled = {}
    /\ text = [c \in Calls |-> {}]

\* The half-open probes in flight.
Probes == {c \in Calls : admitted[c] = "halfOpen"}

-----------------------------------------------------------------------------
(* ReliabilityManager.allow *)

Cooled(c) == phase = "open" /\ elapsed >= OpenDuration[c]

\* A plausible bug: any number of probes.
SlotAlways(c) == TRUE

\* Is there room for one more probe?
SlotFree(c) == halfOpenRun < HalfOpenMax[c]

Enter(c, captured) ==
    /\ pc[c] \in {"idle", "refused"}
    /\ pc' = [pc EXCEPT ![c] = "invoking"]
    /\ admitted' = [admitted EXCEPT ![c] = captured]
    /\ attempt' = [attempt EXCEPT ![c] = 1]
    /\ UNCHANGED <<failures, elapsed, cause, cancelled, text>>

AdmitClosed(c) ==
    /\ phase = "closed"
    /\ Enter(c, "closed")
    /\ UNCHANGED <<phase, halfOpenRun, leftover>>

\* The first call after the cooldown turns the circuit half-open.
AdmitCooled(c) ==
    /\ Cooled(c)
    /\ Enter(c, "halfOpen")
    /\ phase' = "halfOpen"
    /\ halfOpenRun' = 1
    /\ leftover' = Cardinality(Probes)

AdmitProbe(c) ==
    /\ phase = "halfOpen" /\ SlotFree(c)
    /\ Enter(c, "halfOpen")
    /\ halfOpenRun' = halfOpenRun + 1
    /\ UNCHANGED <<phase, leftover>>

\* ErrCircuitOpen, without touching the circuit.
Refuse(c) ==
    /\ pc[c] \in {"idle", "refused"}
    /\ \/ phase = "open" /\ ~Cooled(c)
       \/ phase = "halfOpen" /\ ~SlotFree(c)
    /\ pc' = [pc EXCEPT ![c] = "refused"]
    /\ UNCHANGED <<elapsed, phase, failures, halfOpenRun, leftover, admitted, attempt, cause,
                   cancelled, text>>

-----------------------------------------------------------------------------
(* The attempts of invokeModelWithTaskPolicy *)

End(c, why) ==
    /\ pc' = [pc EXCEPT ![c] = "finishing"]
    /\ cause' = [cause EXCEPT ![c] = why]
    /\ UNCHANGED <<circuit, admitted, attempt, cancelled, text>>

\* A chunk of content or reasoning reaches the client.
Stream(c) ==
    /\ pc[c] = "invoking"
    /\ text' = [text EXCEPT ![c] = @ \cup {attempt[c]}]
    /\ UNCHANGED <<circuit, pc, admitted, attempt, cause, cancelled>>

\* A response counts even if the context is done by now.
Respond(c) == pc[c] = "invoking" /\ End(c, "response")

\* An error that is not retryable.
FailForGood(c) == pc[c] = "invoking" /\ End(c, "permanent")

\* Any error, or the pause, of a call whose context is done.
Abort(c) == pc[c] \in {"invoking", "waiting"} /\ c \in cancelled /\ End(c, "aborted")

\* A retryable error of the last attempt.
Exhaust(c) ==
    /\ pc[c] = "invoking" /\ c \notin cancelled
    /\ attempt[c] = MaxAttempts[c]
    /\ End(c, "exhausted")

\* A plausible bug: no content.reset before the pause.
TextKept(c) == text

\* What the client shows after content.reset, sent if the attempt had streamed.
TextReset(c) == [text EXCEPT ![c] = {}]

\* A retryable error of an earlier attempt: content.reset, then a pause.
Pause(c) ==
    /\ pc[c] = "invoking" /\ c \notin cancelled
    /\ attempt[c] < MaxAttempts[c]
    /\ pc' = [pc EXCEPT ![c] = "waiting"]
    /\ text' = TextReset(c)
    /\ UNCHANGED <<circuit, admitted, attempt, cause, cancelled>>

Retry(c) ==
    /\ pc[c] = "waiting"
    /\ pc' = [pc EXCEPT ![c] = "invoking"]
    /\ attempt' = [attempt EXCEPT ![c] = @ + 1]
    /\ UNCHANGED <<circuit, admitted, cause, cancelled, text>>

\* CancelTurn or Close reaches the call.
Cancel(c) ==
    /\ pc[c] \in {"invoking", "waiting"} /\ c \notin cancelled
    /\ cancelled' = cancelled \cup {c}
    /\ UNCHANGED <<circuit, pc, admitted, attempt, cause, text>>

-----------------------------------------------------------------------------
(* The report: the function that allow returned *)

\* A plausible bug: every error counts against the model.
OutcomeStrict(why) == IF why = "response" THEN "success" ELSE "failure"

\* Permanent errors and cancellation say nothing about the model's health.
OutcomeOf(why) ==
    IF why = "response" THEN "success"
    ELSE IF why = "exhausted" THEN "failure" ELSE "neutral"

\* A plausible bug: a neutral outcome returns before the slot is given back.
SlotsAfterVerdict(c) ==
    IF OutcomeOf(cause[c]) # "neutral" /\ admitted[c] = "halfOpen" /\ halfOpenRun > 0
    THEN halfOpenRun - 1 ELSE halfOpenRun

\* halfOpenRun once call c has reported.
SlotsAfter(c) ==
    IF admitted[c] = "halfOpen" /\ halfOpenRun > 0 THEN halfOpenRun - 1 ELSE halfOpenRun

Report(c) ==
    /\ halfOpenRun' = SlotsAfter(c)
    /\ \/ /\ OutcomeOf(cause[c]) = "neutral"
          /\ UNCHANGED <<phase, failures, elapsed>>
       \/ /\ OutcomeOf(cause[c]) = "success"
          /\ phase' = "closed" /\ failures' = 0 /\ elapsed' = 0
       \/ /\ OutcomeOf(cause[c]) = "failure"
          /\ failures' = IF failures < FailureCap THEN failures + 1 ELSE failures
          /\ IF admitted[c] = "halfOpen" \/ failures' >= FailureThreshold[c]
             THEN phase' = "open" /\ elapsed' = 0
             ELSE UNCHANGED <<phase, elapsed>>

\* The call ends; its locals are cleared, and a client replaces the streamed
\* text by the final message or the error of the turn.
Finish(c) ==
    /\ pc[c] = "finishing"
    /\ Report(c)
    /\ pc' = [pc EXCEPT ![c] = "idle"]
    /\ admitted' = [admitted EXCEPT ![c] = "none"]
    /\ attempt' = [attempt EXCEPT ![c] = 0]
    /\ cause' = [cause EXCEPT ![c] = "response"]
    /\ cancelled' = cancelled \ {c}
    /\ text' = [text EXCEPT ![c] = {}]
    /\ UNCHANGED leftover

\* Time passes; it matters only while the circuit is open.
Tick ==
    /\ phase = "open" /\ elapsed < OpenCap
    /\ elapsed' = elapsed + 1
    /\ UNCHANGED <<phase, failures, halfOpenRun, leftover, pc, admitted, attempt,
                   cause, cancelled, text>>

Return(c) == Respond(c) \/ FailForGood(c) \/ Abort(c) \/ Exhaust(c) \/ Pause(c)

Step(c) ==
    \/ AdmitClosed(c) \/ AdmitCooled(c) \/ AdmitProbe(c) \/ Refuse(c)
    \/ Stream(c) \/ Return(c) \/ Retry(c) \/ Cancel(c) \/ Finish(c)

Next == Tick \/ \E c \in Calls : Step(c)

\* Time passes, and an admitted call runs to its end: attempts return (the
\* HTTP client has a timeout), timers fire.  Nobody has to call or cancel.
Fairness ==
    /\ WF_vars(Tick)
    /\ \A c \in Calls : WF_vars(Return(c)) /\ WF_vars(Retry(c)) /\ WF_vars(Finish(c))

Spec == Init /\ [][Next]_vars /\ Fairness

-----------------------------------------------------------------------------
(* Properties *)

\* The slots taken are never more than the probes in flight, so a half-open
\* circuit without probes always admits one; and the probes in flight exceed
\* the slots taken by at most those left over from an earlier half-open
\* period, whose reports give back slots of this one.
SlotsAccounted ==
    /\ halfOpenRun <= Cardinality(Probes)
    /\ Cardinality(Probes) <= halfOpenRun + leftover

\* The probes in flight are limited by the largest HalfOpenMax in use and the
\* probes that were still in flight when the half-open period began.
ProbesBounded ==
    Probes # {} =>
        \E c \in Calls : Cardinality(Probes) <= HalfOpenMax[c] + leftover

\* docs/11-reliability.md: permanent errors and context cancellation do not
\* count as failures; a failure is a call that used up its attempts.
OnlyExhaustionCounts ==
    [][failures' > failures =>
          \E c \in Calls : /\ pc[c] = "finishing" /\ cause[c] = "exhausted"
                           /\ attempt[c] = MaxAttempts[c]]_failures

\* docs/11-reliability.md, 11.4: text of an abandoned attempt is taken back
\* before the next attempt starts to stream.
NoMixedText == \A c \in Calls : text[c] \subseteq {attempt[c]}

\* No slot leaks: a half-open circuit whose slots are taken has one free later,
\* or leaves the half-open phase, however its probes end.
SlotFreed ==
    \A c \in Calls :
        phase = "halfOpen" /\ ~SlotFree(c) ~> phase # "halfOpen" \/ SlotFree(c)

=============================================================================
