---------------------------- MODULE Interaction -----------------------------
(***************************************************************************)
(* Structured questions of a running Task (task_runtime.go): agents that   *)
(* wait in turnRuntime.RequestInput, callers in Task.AnswerInteraction,    *)
(* and the map Task.pending between them.                                  *)
(*                                                                         *)
(* Each lock of Task.mu, each emission and each channel operation is a     *)
(* step of its own.  A question is the n-th RequestInput of one agent run; *)
(* its answer channel has room for one answer.  The identifier of a        *)
(* question is the "id" that the model put into the arguments of           *)
(* request_user_input, and only without one a fresh one of the library.    *)
(* The sink acknowledges a required event or returns an error; an answer   *)
(* that fails ValidateAgainst, or names an identifier that is not pending, *)
(* changes nothing and is no action here.                                  *)
(***************************************************************************)
EXTENDS Naturals

CONSTANTS
    Askers,     \* agent runs of this Task
    MaxAsks,    \* bound: questions one run asks
    Ids,        \* identifiers of questions
    ModelIds,   \* those that the model may choose itself
    Answerers,  \* calls of AnswerInteraction
    Impatient,  \* those whose context may be cancelled
    None

ASSUME InteractionAssumption ==
    /\ MaxAsks \in Nat \ {0}
    /\ ModelIds \subseteq Ids
    /\ Impatient \subseteq Answerers
    /\ None \notin Ids \cup Answerers \cup (Askers \X (1..MaxAsks))

Questions == Askers \X (1..MaxAsks)

VARIABLES
    pc,         \* where each run stands in RequestInput
    asks,       \* how many questions it has begun
    id,         \* Request.ID of each question
    pending,    \* Task.pending
    answer,     \* pendingInteraction.answer, the channel of each question
    got,        \* the answer RequestInput took from the channel
    acked,      \* history: the calls whose answer it acknowledged
    call,       \* where each AnswerInteraction stands
    found,      \* the pendingInteraction it has looked up
    stopped,    \* the runs whose context was cancelled
    closed      \* Task.closed and Task.ctx

asking == <<pc, asks, id, got>>
answering == <<call, found, acked>>
vars == <<asking, pending, answer, answering, stopped, closed>>

TypeOK ==
    /\ pc \in [Askers -> {"running", "checkpoint", "register", "waiting", "request",
                          "select", "resume", "return", "leave", "failed"}]
    /\ asks \in [Askers -> 0..MaxAsks]
    /\ id \in [Questions -> Ids \cup {None}]
    /\ \A q \in Questions : q[2] <= asks[q[1]] => id[q] \in Ids
    /\ pending \in [Ids -> Questions \cup {None}]
    /\ answer \in [Questions -> Answerers \cup {None}]
    /\ got \in [Questions -> Answerers \cup {None}]
    /\ call \in [Answerers -> {"idle", "emit", "delete", "send", "accepted", "error"}]
    /\ found \in [Answerers -> Questions \cup {None}]
    /\ acked \in SUBSET Answerers
    /\ stopped \in SUBSET Askers
    /\ closed \in BOOLEAN

Init ==
    /\ pc = [a \in Askers |-> "running"]
    /\ asks = [a \in Askers |-> 0]
    /\ id = [q \in Questions |-> None]
    /\ pending = [i \in Ids |-> None]
    /\ answer = [q \in Questions |-> None]
    /\ got = [q \in Questions |-> None]
    /\ call = [w \in Answerers |-> "idle"]
    /\ found = [w \in Answerers |-> None]
    /\ acked = {}
    /\ stopped = {}
    /\ closed = FALSE

\* The question a run is in.
Current(a) == <<a, asks[a]>>

ContextDone(a) == closed \/ a \in stopped

At(a, here, there) == pc[a] = here /\ pc' = [pc EXCEPT ![a] = there]

-----------------------------------------------------------------------------
(* RequestInput *)

\* The identifiers that a question may get.
IdOf(given) ==
    IF given # None THEN {given} ELSE {i \in Ids : \A q \in Questions : id[q] # i}

\* The model asks a question.
Ask(a, given) ==
    /\ asks[a] < MaxAsks
    /\ At(a, "running", "checkpoint")
    /\ asks' = [asks EXCEPT ![a] = @ + 1]
    /\ \E i \in IdOf(given) : id' = [id EXCEPT ![<<a, asks[a] + 1>>] = i]
    /\ UNCHANGED <<pending, answer, got, answering, stopped, closed>>

\* A required event of the current question: acknowledged, and the run goes
\* on at next, or refused, and it goes on at otherwise.
Emits(a, here, next, otherwise) ==
    /\ At(a, here, next) \/ At(a, here, otherwise)
    /\ UNCHANGED <<asks, id, pending, answer, got, answering, stopped, closed>>

\* The checkpoint that carries the question comes before anything else.
EmitCheckpoint(a) == Emits(a, "checkpoint", "register", "failed")

\* A question whose identifier is in use ends the call, its checkpoint stays.
Register(a) ==
    /\ \/ /\ At(a, "register", "waiting")
          /\ pending[id[Current(a)]] = None
          /\ pending' = [pending EXCEPT ![id[Current(a)]] = Current(a)]
       \/ /\ At(a, "register", "failed")
          /\ pending[id[Current(a)]] # None
          /\ UNCHANGED pending
    /\ UNCHANGED <<asks, id, answer, got, answering, stopped, closed>>

EmitWaiting(a) == Emits(a, "waiting", "request", "leave")

EmitRequested(a) == Emits(a, "request", "select", "leave")

TakeAnswer(a) ==
    /\ At(a, "select", "resume")
    /\ answer[Current(a)] # None
    /\ got' = [got EXCEPT ![Current(a)] = answer[Current(a)]]
    /\ answer' = [answer EXCEPT ![Current(a)] = None]
    /\ UNCHANGED <<asks, id, pending, answering, stopped, closed>>

\* A plausible bug: the wait ignores the context of the run.
GiveUpNever(a) == FALSE

\* May the run leave the wait without an answer?
GiveUp(a) == ContextDone(a)

LeaveSelect(a) ==
    /\ GiveUp(a)
    /\ At(a, "select", "leave")
    /\ UNCHANGED <<asks, id, pending, answer, got, answering, stopped, closed>>

EmitRunning(a) == Emits(a, "resume", "return", "leave")

\* The deferred delete, on success ("return") and on failure ("leave").
Cleanup(a) ==
    /\ At(a, "return", "running") \/ At(a, "leave", "failed")
    /\ pending' = [pending EXCEPT ![id[Current(a)]] = None]
    /\ UNCHANGED <<asks, id, answer, got, answering, stopped, closed>>

-----------------------------------------------------------------------------
(* AnswerInteraction *)

Go(w, here, there) == call[w] = here /\ call' = [call EXCEPT ![w] = there]

\* A plausible bug: the question is taken out when it is looked up.
TakenOut(i) == [pending EXCEPT ![i] = None]

AfterLookup(i) == pending

Lookup(w, i) ==
    /\ pending[i] # None
    /\ Go(w, "idle", "emit")
    /\ found' = [found EXCEPT ![w] = pending[i]]
    /\ pending' = AfterLookup(i)
    /\ UNCHANGED <<asking, answer, acked, stopped, closed>>

\* A plausible bug: the answer is delivered although it was not acknowledged.
UnackedTo == "delete"

\* Where the call goes on when the sink refuses interaction.responded.
RefusedTo == "error"

EmitResponded(w) ==
    /\ \/ Go(w, "emit", "delete") /\ acked' = acked \cup {w}
       \/ Go(w, "emit", RefusedTo) /\ UNCHANGED acked
    /\ UNCHANGED <<asking, pending, answer, found, stopped, closed>>

\* By identifier, whatever question it belongs to by now.
DeletePending(w) ==
    /\ Go(w, "delete", "send")
    /\ pending' = [pending EXCEPT ![id[found[w]]] = None]
    /\ UNCHANGED <<asking, answer, found, acked, stopped, closed>>

\* A plausible bug: the channel has no room, and nobody receives yet.
SentIfWaiting(w) ==
    [answer EXCEPT ![found[w]] = IF pc[found[w][1]] = "select" THEN w ELSE None]

Sent(w) == [answer EXCEPT ![found[w]] = w]

Send(w) ==
    /\ Go(w, "send", "accepted")
    /\ answer[found[w]] = None
    /\ answer' = Sent(w)
    /\ UNCHANGED <<asking, pending, found, acked, stopped, closed>>

\* A plausible bug: the send does not watch the Task's context.
SendAbandonedBy(w) == w \in Impatient

\* Is one of the contexts that the send watches possibly done?
MayAbandon(w) == w \in Impatient \/ closed

Abandon(w) ==
    /\ MayAbandon(w)
    /\ Go(w, "send", "error")
    /\ UNCHANGED <<asking, pending, answer, found, acked, stopped, closed>>

-----------------------------------------------------------------------------
(* CancelTurn and Close *)

Stop(a) ==
    /\ a \notin stopped /\ pc[a] # "failed"
    /\ stopped' = stopped \cup {a}
    /\ UNCHANGED <<asking, pending, answer, answering, closed>>

Close ==
    /\ ~closed
    /\ closed' = TRUE
    /\ UNCHANGED <<asking, pending, answer, answering, stopped>>

Request(a) ==
    \/ EmitCheckpoint(a) \/ Register(a) \/ EmitWaiting(a) \/ EmitRequested(a)
    \/ TakeAnswer(a) \/ LeaveSelect(a) \/ EmitRunning(a) \/ Cleanup(a)

Answer(w) == EmitResponded(w) \/ DeletePending(w) \/ Send(w) \/ Abandon(w)

Next ==
    \/ \E a \in Askers : Request(a) \/ Stop(a)
    \/ \E a \in Askers, given \in ModelIds \cup {None} : Ask(a, given)
    \/ \E w \in Answerers : Answer(w) \/ \E i \in Ids : Lookup(w, i)
    \/ Close

\* Runs and calls that have begun go on when they can, sinks return.  Nobody
\* has to ask, answer, cancel or close.
Fairness ==
    /\ \A a \in Askers : WF_vars(Request(a))
    /\ \A w \in Answerers : WF_vars(EmitResponded(w) \/ DeletePending(w) \/ Send(w))
    /\ \A w \in Answerers : WF_vars(closed /\ Abandon(w))

Spec == Init /\ [][Next]_vars /\ Fairness

-----------------------------------------------------------------------------
(* Properties *)

\* An answer that reaches a question was given by a call that found this very
\* question, validated against it, and had its event acknowledged.
AnswerIsOwn ==
    \A q \in Questions, w \in Answerers :
        w \in {answer[q], got[q]} => found[w] = q /\ w \in acked

\* The run of question q waits, has no answer and none is on its way.
Unanswered(q) ==
    /\ pc[q[1]] = "select" /\ q = Current(q[1]) /\ ~ContextDone(q[1])
    /\ answer[q] = None
    /\ \A w \in Answerers : found[w] = q => call[w] # "send"

\* No two questions have one identifier, which the model may choose, and no
\* answer was given up after the application had acknowledged it.
Fresh ==
    /\ \A q1, q2 \in Questions : id[q1] = id[q2] /\ id[q1] # None => q1 = q2
    /\ \A w \in Answerers : call[w] = "error" => w \notin acked

\* task_runtime.go, comment of AnswerInteraction: it "acknowledges and delivers
\* a response to a waiting turn".  A turn that waits for an answer can be found.
\* The two cases excepted are the ways to lose a question: an answer that was
\* given up between its acknowledgement and its delivery has deleted the
\* question, and one for an earlier question deletes a later one of its name.
WaitingIsAnswerable == Fresh => \A q \in Questions : Unanswered(q) => pending[id[q]] = q

\* Cancelling a turn, or closing the Task, ends its wait for an answer.
StopEndsWait ==
    \A a \in Askers : pc[a] = "select" /\ ContextDone(a) ~> pc[a] # "select"

\* Closing the Task releases the callers of AnswerInteraction.
CloseReleases ==
    \A w \in Answerers : closed /\ call[w] = "send" ~> call[w] # "send"

\* An answer that was accepted, also before the run began to wait for it, is
\* taken, unless the run ends.
AcceptedIsTaken ==
    \A w \in Answerers, q \in Questions :
        call[w] = "accepted" /\ found[w] = q ~> got[q] # None \/ pc[q[1]] = "failed"
=============================================================================
