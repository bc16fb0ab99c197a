---------------------------- MODULE TurnContract ----------------------------
(***************************************************************************)
(* What a Task promises an application about one turn, whatever the event  *)
(* sink does: the events of the turn's own goroutine that the application  *)
(* has stored always tell a well-formed story, and the verdict that        *)
(* WaitTurn or StartAgent reports agrees with that story.                  *)
(*                                                                         *)
(* The callers of AnswerInteraction add events of their own, and for those *)
(* the promise is weaker: a response belongs to a question that its caller *)
(* found while the run was at work, and is stored at most once, but it may *)
(* be stored at any later time, also after the terminal event of the turn  *)
(* and after the verdict.                                                  *)
(*                                                                         *)
(*   shown[t]    the last event of the run of t the application has stored *)
(*   found[w]    the turn in which caller w has found a question           *)
(*   heard       the callers whose response the application has stored     *)
(*   verdict[t]  what the library has told the caller about turn t         *)
(***************************************************************************)
CONSTANTS Turns, Callers, Nobody

VARIABLES shown, found, heard, verdict

vars == <<shown, found, heard, verdict>>

\* The pairs of kinds that may be stored one after the other for one run.
\* "run.event" stands for every event the agent, team or workflow emits while
\* it runs (checkpoints, tool events, progress).
Follows ==
    {<<"nothing", "turn.started">>, <<"turn.started", "message.user">>}
    \cup ({"message.user", "run.event"}
            \X {"run.event", "message.assistant_completed",
                "turn.failed", "turn.cancelled"})
    \cup ({"message.assistant_completed"} \X {"turn.completed", "turn.failed"})

\* A turn the caller was told about may report success or cancellation only
\* if that is what was stored; failure may be reported of any turn.
Agrees(v, s) ==
    \/ v = "completed" /\ s = "turn.completed"
    \/ v = "cancelled" /\ s = "turn.cancelled"
    \/ v = "failed" /\ s # "nothing" /\ s # "turn.started"
    \/ v = "refused" /\ s \in {"nothing", "turn.started", "message.user"}

Init ==
    /\ shown = [t \in Turns |-> "nothing"]
    /\ found = [w \in Callers |-> Nobody]
    /\ heard = {}
    /\ verdict = [t \in Turns |-> "none"]

Show(t, kind) ==
    /\ verdict[t] = "none"
    /\ <<shown[t], kind>> \in Follows
    /\ shown' = [shown EXCEPT ![t] = kind]
    /\ UNCHANGED <<found, heard, verdict>>

Report(t, v) ==
    /\ verdict[t] = "none"
    /\ Agrees(v, shown[t])
    /\ verdict' = [verdict EXCEPT ![t] = v]
    /\ UNCHANGED <<shown, found, heard>>

\* A question is there only after a checkpoint of the run, and until it ends.
Find(w, t) ==
    /\ verdict[t] = "none" /\ shown[t] = "run.event"
    /\ found[w] = Nobody
    /\ found' = [found EXCEPT ![w] = t]
    /\ UNCHANGED <<shown, heard, verdict>>

Respond(w) ==
    /\ found[w] # Nobody /\ w \notin heard
    /\ heard' = heard \cup {w}
    /\ UNCHANGED <<shown, found, verdict>>

Next ==
    \/ \E t \in Turns :
        \/ \E kind \in {pair[2] : pair \in Follows} : Show(t, kind)
        \/ \E v \in {"completed", "failed", "cancelled", "refused"} : Report(t, v)
        \/ \E w \in Callers : Find(w, t)
    \/ \E w \in Callers : Respond(w)

Spec == Init /\ [][Next]_vars
=============================================================================
