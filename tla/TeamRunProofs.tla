--------------------------- MODULE TeamRunProofs ----------------------------
(***************************************************************************)
(* Proofs about TeamRun, for any number of agents, crashes and steps.      *)
(*                                                                         *)
(* A checkpoint is consistent when its question belongs to the agent that  *)
(* it resumes.  The merge of an agent's checkpoint keeps a consistent      *)
(* checkpoint consistent, whichever one it has read before (MergeKeeps);   *)
(* so all copies of checkpoints are consistent (CopiesInv), however the    *)
(* reads and writes of parallel agents interleave.                         *)
(*                                                                         *)
(* What has been done is not done again: TInv relates the position of a    *)
(* Team, what its checkpoints say of each agent, and which agents have     *)
(* begun, at each step and after each crash.  It holds of a Tame team: the *)
(* Resume of a leader/follower Team keeps less than a second crash needs.  *)
(***************************************************************************)
EXTENDS TeamRun, TLAPS

\* In the phases of one agent, the index says which.
Placed(p, i) == p \in {"agent", "follower"} => i # 0

Consistent(cp) ==
    /\ cp.asked # None => cp.asked = cp.who /\ cp.agents[cp.who].pending = "ask"
    /\ Placed(cp.phase, cp.index)

Good(cp) == cp \in Checkpoint /\ Consistent(cp)

CopiesInv ==
    /\ current # None => Good(current)
    /\ stored # None => Good(stored)
    /\ from # None => Good(from)
    /\ \A a \in Names : (seen[a] # None => Good(seen[a])) /\ (draft[a] # None => Good(draft[a]))

\* Where a step uses a checkpoint, there is one.
ThereInv ==
    /\ Placed(phase, index)
    /\ tpc \in {"run", "join", "rejoin"} => current # None
    /\ tpc = "asking" => stored # None /\ stored.asked # None
    /\ tpc = "rejoin" => from # None /\ from.who \in Names
    /\ tpc = "rejoin" => \A a \in Names : pc[a] \in {"idle", "done", "failed"} \/ a = from.who
    /\ \A a \in Names :
           /\ pc[a] \notin {"idle", "done", "failed"} => tpc \in {"join", "rejoin"}
           /\ pc[a] = "write" => seen[a] # None
           /\ pc[a] = "emit" => draft[a] # None

IInv == TypeOK /\ CopiesInv /\ ThereInv


\* Merging the checkpoint of an agent keeps the question with its agent.
LEMMA MergeKeeps ==
  ASSUME TypeOK, NEW prev, Good(prev), NEW a \in Names
  PROVE  Good(Merged(prev, a))
<1> DEFINE m == Merged(prev, a)
<1> USE TeamAssumption DEF Validated, Members, Names
<1>1. mem[a] \in AgentCheckpoint /\ prev \in Checkpoint
  BY DEF TypeOK, Good
<1>2. m \in Checkpoint /\ m.phase = prev.phase /\ m.index = prev.index
  BY <1>1 DEF Merged, Checkpoint
<1>3. CASE Held(prev, a)
  <2>1. m.who = prev.who /\ m.asked = prev.asked /\ prev.who # a
    BY <1>1, <1>3 DEF Merged, Held, Checkpoint
  <2>2. m.agents[prev.who] = prev.agents[prev.who]
    BY <1>1, <1>3, <2>1 DEF Merged, Held, Checkpoint
  <2> QED
    BY <1>2, <2>1, <2>2 DEF Good, Consistent
<1>4. CASE ~Held(prev, a)
  <2>1. m.who = a /\ m.agents[a] = mem[a] /\ m.asked = IF mem[a].pending = "ask" THEN a ELSE None
    BY <1>1, <1>4 DEF Merged, Checkpoint
  <2> QED
    BY <1>2, <2>1 DEF Good, Consistent
<1> QED
  BY <1>3, <1>4

LEMMA InitIInv == Init => IInv
<1> SUFFICES ASSUME Init PROVE IInv
  OBVIOUS
<1> USE TeamAssumption DEF Validated, Init, Members, Names
<1>1. TypeOK
  BY DEF TypeOK, Phases, AgentCheckpoint, Fresh
<1>2. CopiesInv
  BY DEF CopiesInv
<1>3. ThereInv
  BY DEF ThereInv, Placed
<1> QED
  BY <1>1, <1>2, <1>3 DEF IInv

\* Where the Team may be once it has moved on.
Place ==
    /\ phase' \in Phases /\ index' \in 0..N /\ Placed(phase', index')
    /\ tpc' \in {"save", "run", "succeeded"}

LEMMA PlaceAdvance ==
  ASSUME TypeOK, Placed(phase, index), NEW i \in 0..N, Advance(i)
  PROVE  Place
  BY TeamAssumption DEF Validated, TypeOK, Advance, GoTo, Stay, Place, Placed, Phases

LEMMA PlaceFollow ==
  ASSUME TypeOK, NEW out, Follow(out)
  PROVE  Place
<1> USE TeamAssumption DEF Validated, Place, Placed, GoTo, Phases
<1>1. CASE Due(out) = {} /\ GoTo(IF Saves THEN "save" ELSE "run", "leader_synthesis", N)
  BY <1>1
<1>2. ASSUME NEW j \in Due(out), GoTo(IF Saves THEN "save" ELSE "run", "follower", j) PROVE Place
  BY <1>2 DEF Due, Members
<1> QED
  BY <1>1, <1>2 DEF Follow

LEMMA StepIInv == IInv /\ [Next]_vars => IInv'
<1> SUFFICES ASSUME IInv, [Next]_vars PROVE IInv'
  OBVIOUS
<1> USE TeamAssumption DEF Validated, IInv, team, agent, history
<1>0. CASE UNCHANGED vars
  BY <1>0 DEF vars, TypeOK, CopiesInv, ThereInv
<1>1. ASSUME NEW a \in Names, Read(a) PROVE IInv'
  <2> USE <1>1 DEF Read
  <2>1. current # None
    BY DEF ThereInv
  <2>2. TypeOK'
    BY DEF TypeOK
  <2>3. CopiesInv'
    BY <2>1 DEF TypeOK, CopiesInv
  <2>4. ThereInv'
    BY <2>1 DEF TypeOK, ThereInv
  <2> QED
    BY <2>2, <2>3, <2>4
<1>2. ASSUME NEW a \in Names, Write(a) PROVE IInv'
  <2> USE <1>2 DEF Write
  <2>1. seen[a] # None /\ Good(seen[a])
    BY DEF ThereInv, CopiesInv
  <2>2. Good(current')
    BY <2>1, MergeKeeps
  <2>3. current' # None /\ current' \in Checkpoint
    BY <2>2 DEF Good
  <2>4. TypeOK'
    BY <2>3 DEF TypeOK
  <2>5. CopiesInv'
    BY <2>2 DEF TypeOK, CopiesInv
  <2>6. ThereInv'
    BY <2>3 DEF TypeOK, ThereInv
  <2> QED
    BY <2>4, <2>5, <2>6
<1>3. ASSUME NEW a \in Names, Emit(a) PROVE IInv'
  <2> USE <1>3 DEF Emit
  <2>1. draft[a] # None /\ Good(draft[a]) /\ tpc \in {"join", "rejoin"}
    BY DEF ThereInv, CopiesInv
  <2>2. TypeOK'
    BY <2>1 DEF TypeOK, Good
  <2>3. CopiesInv'
    BY <2>1 DEF TypeOK, CopiesInv
  <2>4. ThereInv'
    BY <2>1 DEF TypeOK, ThereInv
  <2> QED
    BY <2>2, <2>3, <2>4
<1>4. ASSUME NEW a \in Names, NEW saved \in AgentCheckpoint, NEW then \in {"work", "wait", "tool", "done"},
             Save(a, saved, then), left' \in [Names -> 0..MaxSteps],
             pc[a] \in {"work", "wait", "tool"}, UNCHANGED <<team, history>>
      PROVE  IInv'
  <2> USE <1>4 DEF Save
  <2>1. TypeOK'
    BY DEF TypeOK
  <2>2. CopiesInv'
    BY DEF TypeOK, CopiesInv
  <2>3. ThereInv'
    BY DEF TypeOK, ThereInv
  <2> QED
    BY <2>1, <2>2, <2>3
<1>5. ASSUME NEW a \in Names, Work(a) \/ ToolReturns(a) \/ Answered(a) \/ Finish(a) PROVE IInv'
  <2> DEFINE Saved(p, c) == [pending |-> p, content |-> c]
  <2>1. mem[a] \in AgentCheckpoint /\ pc[a] \in {"work", "wait", "tool"}
    BY <1>5 DEF TypeOK, Work, ToolReturns, Answered, Finish
  <2>2. \A p \in {"none", "ask", "tool"} : [mem[a] EXCEPT !.pending = p] \in AgentCheckpoint
    BY <2>1 DEF AgentCheckpoint
  <2>3. \A c \in {"none", "part", "whole"} : [mem[a] EXCEPT !.content = c] \in AgentCheckpoint
    BY <2>1 DEF AgentCheckpoint
  <2>4. left' \in [Names -> 0..MaxSteps]
    BY <1>5 DEF TypeOK, Work, ToolReturns, Answered, Finish
  <2>5. UNCHANGED <<team, history>>
    BY <1>5 DEF Work, ToolReturns, Answered, Finish, Save
  <2>6. \E saved \in AgentCheckpoint, then \in {"work", "wait", "tool", "done"} : Save(a, saved, then)
    BY <1>5, <2>2, <2>3 DEF Work, ToolReturns, Answered, Finish
  <2> QED
    BY <1>4, <2>1, <2>4, <2>5, <2>6
<1>6. ASSUME NEW a \in Names, Fail(a) PROVE IInv'
  BY <1>6 DEF Fail, TypeOK, CopiesInv, ThereInv
<1>7. CASE SavePosition
  <2> DEFINE cp == [phase |-> phase, index |-> index, outputs |-> outputs, who |-> None, asked |-> None,
                    agents |-> [a \in Names |-> NoCheckpoint]]
  <2>1. Good(cp) /\ cp # None
    BY DEF Good, Consistent, Checkpoint, TypeOK, ThereInv, AgentCheckpoint, NoCheckpoint
  <2> USE <1>7 DEF SavePosition
  <2>2. current' = cp /\ stored' \in {stored, cp} /\ tpc' \in {"run", "failed"}
    OBVIOUS
  <2> HIDE DEF cp
  <2>3. TypeOK'
    BY <2>1, <2>2 DEF TypeOK, Good
  <2>4. CopiesInv'
    BY <2>1, <2>2 DEF TypeOK, CopiesInv
  <2>5. ThereInv'
    BY <2>1, <2>2 DEF TypeOK, ThereInv
  <2> QED
    BY <2>3, <2>4, <2>5
<1>8. CASE Begin
  <2> USE <1>8 DEF Begin
  <2> DEFINE Chosen == Runs(phase, index)
  <2> HIDE DEF Chosen
  <2>1. TypeOK'
    BY DEF TypeOK, Fresh, AgentCheckpoint
  <2>2. CopiesInv'
    BY DEF TypeOK, CopiesInv
  <2>3. ThereInv'
    BY DEF TypeOK, ThereInv
  <2> QED
    BY <2>1, <2>2, <2>3
<1>9. CASE Pass
  <2> USE <1>9 DEF Pass
  <2>1. /\ phase' \in Phases /\ index' \in 0..N /\ Placed(phase', index')
        /\ tpc' \in {"save", "run", "succeeded", "failed"}
    BY PlaceAdvance DEF TypeOK, ThereInv, GoTo, Stay, Phases, Place, Placed
  <2>2. TypeOK'
    BY <2>1 DEF TypeOK
  <2>3. CopiesInv'
    BY DEF CopiesInv
  <2>4. ThereInv'
    BY <2>1 DEF TypeOK, ThereInv
  <2> QED
    BY <2>2, <2>3, <2>4
<1>10. CASE Join
  <2> DEFINE Ran == Runs(phase, index)
             out == [a \in Names |-> IF a \in Ran /\ pc[a] = "done" THEN a ELSE outputs[a]]
             b == CHOOSE a \in Ran : TRUE
  <2>1. outputs' = out /\ tpc = "join" /\ pc' = [a \in Names |-> "idle"]
    BY <1>10 DEF Join
  <2>2. out \in [Names -> Names \cup {None}]
    BY DEF TypeOK
  <2>3. /\ phase' \in Phases /\ index' \in 0..N /\ Placed(phase', index')
        /\ tpc' \in {"save", "run", "succeeded", "failed"}
    <3> HIDE DEF out
    <3> QED
      BY <1>10, PlaceAdvance, PlaceFollow DEF Join, TypeOK, ThereInv, GoTo, Stay, Phases, Place, Placed, out
  <2>4. feed' \in Names \cup {None}
    <3>1. feed' \in {feed, b} /\ (phase \notin {"agent", "leader_plan"} => feed' = feed)
      BY <1>10, Zenon DEF Join, Fed
    <3>2. CASE phase = "agent"
      <4>1. Ran = {index} /\ index \in Names
        BY <3>2 DEF Runs, TypeOK, ThereInv, Placed, Names, Members
      <4>2. b = index
        BY <4>1
      <4> HIDE DEF b
      <4> QED
        BY <3>1, <4>1, <4>2 DEF TypeOK
    <3>3. CASE phase = "leader_plan"
      <4>1. Ran = {Leader}
        BY <3>3 DEF Runs
      <4>2. b = Leader
        BY <4>1
      <4> HIDE DEF b
      <4> QED
        BY <3>1, <4>2 DEF TypeOK, Names
    <3> QED
      BY <3>1, <3>2, <3>3 DEF TypeOK
  <2>5. TypeOK'
    BY <1>10, <2>1, <2>2, <2>3, <2>4 DEF Join, TypeOK
  <2>6. CopiesInv'
    BY <1>10 DEF Join, CopiesInv
  <2>7. ThereInv'
    BY <1>10, <2>1, <2>3 DEF Join, TypeOK, ThereInv
  <2> QED
    BY <2>5, <2>6, <2>7
<1>11. CASE Rejoin
  <2> DEFINE a == from.who
             own == [outputs EXCEPT ![a] = a]
  <2>1. tpc = "rejoin" /\ from \in Checkpoint /\ a \in Names /\ pc' = [pc EXCEPT ![a] = "idle"]
    BY <1>11 DEF Rejoin, ThereInv, TypeOK
  <2>2. own \in [Names -> Names \cup {None}]
    BY <2>1 DEF TypeOK
  <2>3. [own EXCEPT ![Leader] = a] \in [Names -> Names \cup {None}]
    BY <2>1, <2>2
  <2>4. /\ phase' \in Phases /\ index' \in 0..N /\ Placed(phase', index')
        /\ tpc' \in {"save", "run", "succeeded", "failed"}
    <3> HIDE DEF own
    <3> QED
      BY <1>11, PlaceAdvance, PlaceFollow DEF Rejoin, TypeOK, ThereInv, GoTo, Stay, Phases, Place, Placed, own
  <2>5. outputs' \in [Names -> Names \cup {None}] /\ feed' \in Names \cup {None}
    <3>1. CASE UNCHANGED <<outputs, feed>>
      BY <3>1 DEF TypeOK
    <3>2. CASE outputs' = own /\ feed' = a
      BY <2>1, <2>2, <3>2
    <3>3. CASE mode = "parallel" /\ UNCHANGED feed /\ pc[a] = "done"
      <4> HIDE DEF own
      <4>1. \E Others \in SUBSET Members :
                outputs' = [m \in Names |-> IF m \in Others /\ Usable(from.agents[m]) THEN m ELSE own[m]]
        BY <1>11, <3>3 DEF Rejoin, own
      <4> QED
        BY <2>2, <3>3, <4>1 DEF TypeOK
    <3>4. CASE /\ outputs' = own \/ outputs' = [own EXCEPT ![Leader] = a]
               /\ feed' = outputs'[Leader]
      <4>1. outputs' \in [Names -> Names \cup {None}]
        BY <2>2, <2>3, <3>4
      <4> QED
        BY <3>4, <4>1 DEF Names
    <3>5. CASE mode = "leader_follower" /\ pc[a] = "done"
      BY <1>11, <3>4, <3>5 DEF Rejoin
    <3> QED
      <4> HIDE DEF own
      <4>1. \/ UNCHANGED <<outputs, feed>>
            \/ outputs' = own /\ feed' = a
            \/ mode = "parallel" /\ UNCHANGED feed /\ pc[a] = "done"
            \/ mode = "leader_follower" /\ pc[a] = "done"
        BY <1>11 DEF Rejoin, own
      <4> QED
        BY <3>1, <3>2, <3>3, <3>5, <4>1
  <2>6. TypeOK'
    BY <1>11, <2>1, <2>4, <2>5 DEF Rejoin, TypeOK
  <2>7. CopiesInv'
    BY <1>11 DEF Rejoin, CopiesInv
  <2>8. ThereInv'
    BY <1>11, <2>1, <2>4 DEF Rejoin, TypeOK, ThereInv
  <2> QED
    BY <2>6, <2>7, <2>8
<1>12. CASE Crash
  <2> USE <1>12 DEF Crash
  <2>1. TypeOK'
    BY DEF TypeOK
  <2>2. CopiesInv'
    BY DEF CopiesInv
  <2>3. ThereInv'
    BY DEF TypeOK, ThereInv
  <2> QED
    BY <2>1, <2>2, <2>3
<1>13. CASE Restore
  <2> USE <1>13 DEF Restore
  <2>1. TypeOK'
    BY DEF TypeOK
  <2>2. CopiesInv'
    BY DEF CopiesInv
  <2>3. ThereInv'
    BY DEF TypeOK, ThereInv
  <2> QED
    BY <2>1, <2>2, <2>3
<1>14. CASE Resume
  <2> DEFINE a == stored.who
  <2>1. stored # None /\ Good(stored) /\ stored.asked = a /\ a \in Names /\ tpc = "asking"
    BY <1>14 DEF Resume, ThereInv, CopiesInv, Good, Consistent, Checkpoint
  <2>2. stored.agents[a] \in AgentCheckpoint
    BY <1>14, <2>1 DEF Resume, Good, Checkpoint, NoCheckpoint
  <2>3. [stored.agents[a] EXCEPT !.pending = "none"] \in AgentCheckpoint
    BY <2>2 DEF AgentCheckpoint
  <2>4. /\ stored.phase \in Phases /\ stored.index \in 0..N /\ Placed(stored.phase, stored.index)
        /\ stored.outputs \in [Names -> Names \cup {None}]
    BY <2>1 DEF Good, Consistent, Checkpoint
  <2>5. TypeOK'
    BY <1>14, <2>1, <2>3, <2>4 DEF Resume, OutputsOf, TypeOK, Good
  <2>6. CopiesInv'
    BY <1>14, <2>1 DEF Resume, CopiesInv
  <2>7. ThereInv'
    BY <1>14, <2>1, <2>4 DEF Resume, TypeOK, ThereInv
  <2> QED
    BY <2>5, <2>6, <2>7
<1> QED
  BY <1>0, <1>1, <1>2, <1>3, <1>5, <1>6, <1>7, <1>8, <1>9, <1>10, <1>11, <1>12, <1>13, <1>14 DEF Next, Team, Agent

LEMMA Inductive == Spec => []IInv
BY InitIInv, StepIInv, PTL DEF Spec

\* The variables of a Team and its agents keep their types.
THEOREM TypeCorrect == Spec => []TypeOK
<1>1. IInv => TypeOK
  BY DEF IInv
<1> QED
  BY <1>1, Inductive, PTL

\* However the checkpoints of the agents of a Team interleave, and whatever
\* crashes, a stored question belongs to the agent that would be resumed.
THEOREM QuestionBelongs == Spec => []AskedIsPending
<1>1. IInv => AskedIsPending
  BY DEF IInv, CopiesInv, Good, Consistent, AskedIsPending
<1> QED
  BY <1>1, Inductive, PTL

-----------------------------------------------------------------------------
(* A Team that runs one agent at a time *)

PhasesOf(m) ==
    CASE m = "sequential" -> {"starting", "agent", "agent_completed"}
      [] m = "parallel" -> {"starting", "parallel", "parallel_completed"}
      [] m = "leader_follower" -> {"starting", "leader_plan", "follower", "leader_synthesis"}

Copies == {current, stored, from} \cup {seen[a] : a \in Names} \cup {draft[a] : a \in Names}

\* The Team, and what it has saved of it, is in a phase of its mode.
PhaseInv ==
    /\ phase \in PhasesOf(mode)
    /\ \A cp \in Copies : cp # None => cp.phase \in PhasesOf(mode)

\* The Team waits for agent a.
Awaits(a) == \/ tpc = "rejoin" /\ a = from.who
             \/ tpc = "join" /\ a \in Runs(phase, index)

ActorInv == \A a \in Names : pc[a] # "idle" => Awaits(a)

\* What the agent saves says whether it is going to wait for an answer.
MemInv ==
    \A a \in Names :
        /\ pc[a] \in {"read", "write", "emit"} =>
               /\ next[a] \in {"work", "done"} => mem[a].pending = "none"
               /\ next[a] = "wait" => mem[a].pending = "ask"
        /\ pc[a] \in {"work", "done"} => mem[a].pending = "none"
        /\ pc[a] = "wait" => mem[a].pending = "ask"

\* No agent has a pending call in cp.
Calm(cp) == cp.who # None => cp.agents[cp.who].pending = "none"

\* The last checkpoint in cp is what agent a saved.
Wrote(cp, a) ==
    cp.who = a /\ cp.agents[a] = mem[a] /\ cp.asked = IF mem[a].pending = "ask" THEN a ELSE None

\* Between two agents no question is open; while one runs, its last checkpoint
\* is that of the Team.
SoloInv ==
    mode # "parallel" =>
        /\ tpc \in {"save", "run"} /\ stored # None => stored.asked = None
        /\ tpc = "run" => Calm(current)
        /\ \A a \in Names :
               /\ pc[a] \in {"read", "write"} => Calm(current) \/ current.who = a
               /\ pc[a] = "write" => seen[a] = current
               /\ pc[a] = "emit" => draft[a] = current /\ Wrote(current, a)
               /\ pc[a] \in {"work", "wait", "tool", "done"} => stored = current /\ Wrote(current, a)

\* The agents save, in one form.
Saving(a) == Work(a) \/ ToolReturns(a) \/ Answered(a) \/ Finish(a)

LEMMA SavingIs ==
  ASSUME TypeOK, NEW a \in Names, Saving(a)
  PROVE  \E saved \in AgentCheckpoint, then \in {"work", "wait", "tool", "done"} :
            /\ Save(a, saved, then)
            /\ pc[a] \in {"work", "wait", "tool"} /\ UNCHANGED <<team, history>>
            /\ MemInv => /\ then \in {"work", "done"} => saved.pending = "none"
                         /\ then = "wait" => saved.pending = "ask"
<1>1. mem[a] \in AgentCheckpoint
  BY DEF TypeOK
<1>2. UNCHANGED <<team, history>>
  BY DEF Saving, Work, ToolReturns, Answered, Finish, Save
<1>3. ASSUME NEW p \in {"none", "ask", "tool"}
      PROVE  [mem[a] EXCEPT !.pending = p] \in AgentCheckpoint /\ [mem[a] EXCEPT !.pending = p].pending = p
  BY <1>1 DEF AgentCheckpoint
<1>4. ASSUME NEW c \in {"none", "part", "whole"}
      PROVE  /\ [mem[a] EXCEPT !.content = c] \in AgentCheckpoint
             /\ [mem[a] EXCEPT !.content = c].pending = mem[a].pending
  BY <1>1 DEF AgentCheckpoint
<1>5. CASE Work(a)
  <2>1. pc[a] = "work" /\ (MemInv => mem[a].pending = "none")
    BY <1>5 DEF Work, MemInv
  <2>2. CASE Save(a, [mem[a] EXCEPT !.pending = "ask"], "wait")
    BY <1>2, <1>3, <2>1, <2>2
  <2>3. CASE Save(a, [mem[a] EXCEPT !.pending = "tool"], "tool")
    BY <1>2, <1>3, <2>1, <2>3
  <2>4. CASE Save(a, [mem[a] EXCEPT !.content = "part"], "work")
    BY <1>2, <1>4, <2>1, <2>4
  <2> QED
    BY <1>5, <2>2, <2>3, <2>4 DEF Work
<1>6. CASE ToolReturns(a) \/ Answered(a)
  BY <1>2, <1>3, <1>6 DEF ToolReturns, Answered
<1>7. CASE Finish(a)
  <2>1. pc[a] = "work" /\ (MemInv => mem[a].pending = "none")
    BY <1>7 DEF Finish, MemInv
  <2> QED
    BY <1>2, <1>4, <1>7, <2>1 DEF Finish
<1> QED
  BY <1>5, <1>6, <1>7 DEF Saving

LEMMA Cases ==
  ASSUME Next
  PROVE  \/ SavePosition \/ Begin \/ Pass \/ Join \/ Rejoin \/ Crash \/ Restore \/ Resume
         \/ \E a \in Names : Read(a) \/ Write(a) \/ Emit(a) \/ Saving(a) \/ Fail(a)
  BY DEF Next, Team, Agent, Saving

\* The position in a checkpoint.
Like(cp, c) == cp.phase = c.phase /\ cp.index = c.index /\ cp.outputs = c.outputs

AtPosition(cp) == cp.phase = phase /\ cp.index = index /\ cp.outputs = outputs

LEMMA MergedIsLike ==
  ASSUME NEW prev \in Checkpoint, NEW a \in Names
  PROVE  Like(Merged(prev, a), prev)
  BY DEF Merged, Like, Checkpoint

\* A copy is made from another one, or at the position of the Team.
LEMMA CopiesKept ==
  ASSUME IInv, [Next]_vars, NEW cp \in Copies', cp # None
  PROVE  AtPosition(cp) \/ \E c \in Copies : c # None /\ Like(cp, c)
<1> USE DEF IInv, team, agent, history
<1>0. \A c : Like(c, c)
  BY DEF Like
<1> SUFFICES ASSUME cp \notin Copies PROVE AtPosition(cp) \/ \E c \in Copies : c # None /\ Like(cp, c)
  BY <1>0
<1>1. CASE UNCHANGED vars
  BY <1>1 DEF vars, Copies
<1>2. CASE SavePosition
  BY <1>2 DEF SavePosition, Copies, AtPosition
<1>3. CASE Begin \/ Pass \/ Join \/ Rejoin \/ Restore
  BY <1>3 DEF Begin, Pass, Join, Rejoin, Restore, Copies
<1>4. CASE Crash
  BY <1>4 DEF Crash, Copies
<1>5. CASE Resume
  BY <1>5 DEF Resume, Copies
<1>6. ASSUME NEW a \in Names, Read(a) \/ Emit(a) \/ Fail(a) PROVE FALSE
  BY <1>6 DEF Read, Emit, Fail, Copies, TypeOK
<1>7. ASSUME NEW a \in Names, Saving(a) PROVE FALSE
  BY <1>7, SavingIs DEF Save, Copies
<1>8. ASSUME NEW a \in Names, Write(a) PROVE \E c \in Copies : c # None /\ Like(cp, c)
  <2>1. seen[a] # None /\ seen[a] \in Checkpoint /\ seen[a] \in Copies
    BY <1>8 DEF Write, ThereInv, TypeOK, Copies
  <2>2. cp = Merged(seen[a], a)
    BY <1>8 DEF Write, Copies, TypeOK
  <2> QED
    BY <2>1, <2>2, MergedIsLike
<1> QED
  BY <1>1, <1>2, <1>3, <1>4, <1>5, <1>6, <1>7, <1>8, Cases

LEMMA SameMode == [Next]_vars => mode' = mode
<1> SUFFICES ASSUME [Next]_vars PROVE mode' = mode
  OBVIOUS
<1> USE DEF team
<1>1. CASE UNCHANGED vars
  BY <1>1 DEF vars
<1>2. CASE SavePosition \/ Begin \/ Pass \/ Join \/ Rejoin \/ Crash \/ Restore \/ Resume
  BY <1>2 DEF SavePosition, Begin, Pass, Join, Rejoin, Crash, Restore, Resume
<1>3. ASSUME NEW a \in Names, Read(a) \/ Write(a) \/ Emit(a) \/ Saving(a) \/ Fail(a) PROVE mode' = mode
  BY <1>3 DEF Read, Write, Emit, Saving, Work, ToolReturns, Answered, Finish, Save, Fail
<1> QED
  BY <1>1, <1>2, <1>3, Cases

LEMMA PhaseStep == IInv /\ PhaseInv /\ [Next]_vars => PhaseInv'
<1> SUFFICES ASSUME IInv, PhaseInv, [Next]_vars PROVE PhaseInv'
  OBVIOUS
<1> USE DEF IInv, team, agent, history
<1>0. mode' = mode /\ mode \in {"sequential", "parallel", "leader_follower"}
  BY SameMode, TeamAssumption DEF Validated, TypeOK
<1>1. ASSUME NEW cp \in Copies', cp # None PROVE cp.phase \in PhasesOf(mode)
  BY <1>1, CopiesKept DEF PhaseInv, AtPosition, Like
<1>2. phase' \in PhasesOf(mode)
  <2>1. CASE UNCHANGED phase
    BY <2>1 DEF PhaseInv
  <2>2. CASE Pass
    BY <1>0, <2>2 DEF Pass, PhaseInv, PhasesOf, Advance, GoTo, Stay
  <2>3. ASSUME NEW out, Follow(out), mode = "leader_follower" PROVE phase' \in PhasesOf(mode)
    BY <2>3 DEF Follow, GoTo, PhasesOf
  <2>4. CASE Join
    BY <1>0, <2>3, <2>4 DEF Join, PhaseInv, PhasesOf, Advance, GoTo, Stay
  <2>5. CASE Rejoin
    BY <1>0, <2>3, <2>5 DEF Rejoin, PhaseInv, PhasesOf, Advance, GoTo, Stay
  <2>6. CASE Resume
    BY <2>6 DEF Resume, ThereInv, PhaseInv, Copies
  <2>7. CASE UNCHANGED vars \/ SavePosition \/ Begin \/ Crash \/ Restore
    BY <2>1, <2>7 DEF vars, SavePosition, Begin, Crash, Restore
  <2>8. ASSUME NEW a \in Names, Read(a) \/ Write(a) \/ Emit(a) \/ Saving(a) \/ Fail(a) PROVE UNCHANGED phase
    BY <2>8 DEF Read, Write, Emit, Saving, Work, ToolReturns, Answered, Finish, Save, Fail
  <2> QED
    BY <2>1, <2>2, <2>4, <2>5, <2>6, <2>7, <2>8, Cases
<1> QED
  BY <1>0, <1>1, <1>2 DEF PhaseInv

LEMMA ActorStep == IInv /\ ActorInv /\ [Next]_vars => ActorInv'
<1> SUFFICES ASSUME IInv, ActorInv, [Next]_vars PROVE ActorInv'
  OBVIOUS
<1> USE DEF IInv, team, agent, history, ActorInv, Awaits
<1>1. CASE UNCHANGED vars
  BY <1>1 DEF vars
<1>2. CASE SavePosition \/ Pass \/ Restore
  BY <1>2 DEF SavePosition, Pass, Restore
<1>3. CASE Begin
  <2> DEFINE Chosen == Runs(phase, index)
  <2> HIDE DEF Chosen
  <2>1. tpc' = "join" /\ Chosen' = Chosen
    BY <1>3 DEF Begin, Chosen
  <2>2. pc' = [a \in Names |-> IF a \in Chosen THEN "read" ELSE pc[a]] /\ \A a \in Names : pc[a] = "idle"
    BY <1>3 DEF Begin, Chosen
  <2> QED
    BY <2>1, <2>2 DEF Chosen
<1>4. CASE Join \/ Crash
  BY <1>4 DEF Join, Crash
<1>5. CASE Rejoin
  BY <1>5 DEF Rejoin, TypeOK
<1>6. CASE Resume
  <2>1. tpc = "asking" /\ from' = stored /\ tpc' = "rejoin" /\ pc' = [pc EXCEPT ![stored.who] = "read"]
    BY <1>6 DEF Resume
  <2> QED
    BY <2>1 DEF TypeOK
<1>7. ASSUME NEW a \in Names, Read(a) \/ Write(a) \/ Emit(a) \/ Saving(a) \/ Fail(a) PROVE ActorInv'
  <2>1. UNCHANGED team /\ pc[a] # "idle" /\ \A b \in Names \ {a} : pc'[b] = pc[b]
    BY <1>7 DEF Read, Write, Emit, Saving, Work, ToolReturns, Answered, Finish, Save, Fail, TypeOK
  <2> QED
    BY <2>1
<1> QED
  BY <1>1, <1>2, <1>3, <1>4, <1>5, <1>6, <1>7, Cases

LEMMA MemStep == IInv /\ MemInv /\ [Next]_vars => MemInv'
<1> SUFFICES ASSUME IInv, MemInv, [Next]_vars PROVE MemInv'
  OBVIOUS
<1> USE DEF IInv, team, agent, history
<1>1. CASE UNCHANGED vars \/ SavePosition \/ Pass \/ Restore
  BY <1>1 DEF vars, SavePosition, Pass, Restore, MemInv
<1>2. CASE Begin
  BY <1>2 DEF Begin, MemInv, Fresh, TypeOK
<1>3. CASE Join \/ Crash
  BY <1>3 DEF Join, Crash, MemInv
<1>4. CASE Rejoin
  BY <1>4 DEF Rejoin, MemInv, TypeOK
<1>5. CASE Resume
  <2> DEFINE a == stored.who
             saved == [stored.agents[a] EXCEPT !.pending = "none"]
  <2>1. stored # None /\ Good(stored) /\ stored.asked = a /\ a \in Names
    BY <1>5 DEF Resume, ThereInv, CopiesInv, Good, Consistent, Checkpoint
  <2>2. saved.pending = "none"
    BY <1>5, <2>1 DEF Resume, Good, Checkpoint, NoCheckpoint, AgentCheckpoint
  <2>3. /\ pc' = [pc EXCEPT ![a] = "read"] /\ next' = [next EXCEPT ![a] = "work"]
        /\ mem' = [mem EXCEPT ![a] = saved]
    BY <1>5 DEF Resume
  <2> HIDE DEF a, saved
  <2> QED
    BY <2>1, <2>2, <2>3 DEF MemInv, TypeOK
<1>6. ASSUME NEW a \in Names, Read(a) \/ Write(a) \/ Emit(a) \/ Fail(a) PROVE MemInv'
  BY <1>6 DEF Read, Write, Emit, Fail, MemInv, TypeOK
<1>7. ASSUME NEW a \in Names, Saving(a) PROVE MemInv'
  <2>1. PICK saved \in AgentCheckpoint, then \in {"work", "wait", "tool", "done"} :
            /\ Save(a, saved, then)
            /\ then \in {"work", "done"} => saved.pending = "none"
            /\ then = "wait" => saved.pending = "ask"
    BY <1>7, SavingIs
  <2> QED
    BY <2>1 DEF Save, MemInv, TypeOK
<1> QED
  BY <1>1, <1>2, <1>3, <1>4, <1>5, <1>6, <1>7, Cases

LEMMA OneActor ==
  ASSUME TypeOK, PhaseInv, ActorInv, mode # "parallel",
         NEW a \in Names, NEW b \in Names, pc[a] # "idle", pc[b] # "idle"
  PROVE  a = b
<1>1. mode \in {"sequential", "leader_follower"} /\ phase # "parallel"
  BY TeamAssumption DEF Validated, TypeOK, PhaseInv, PhasesOf
<1>2. \A p \in Phases : \A i : p # "parallel" => \A x, y \in Runs(p, i) : x = y
  BY DEF Runs, Phases
<1> QED
  BY <1>1, <1>2 DEF ActorInv, Awaits, TypeOK

LEMMA SoloStep ==
  IInv /\ PhaseInv /\ ActorInv /\ MemInv /\ SoloInv /\ [Next]_vars => SoloInv'
<1> SUFFICES ASSUME IInv, PhaseInv, ActorInv, MemInv, SoloInv, [Next]_vars, mode' # "parallel"
             PROVE SoloInv'
  BY DEF SoloInv
<1> USE DEF IInv, team, agent, history
<1>0. mode # "parallel"
  BY SameMode
<1>i. ASSUME tpc \notin {"join", "rejoin"} PROVE \A a \in Names : pc[a] = "idle"
  BY <1>i DEF ActorInv, Awaits
<1>1. CASE UNCHANGED vars
  BY <1>1 DEF vars, SoloInv, Calm, Wrote
<1>2. CASE SavePosition
  <2>1. current'.who = None /\ current'.asked = None /\ stored' \in {stored, current'}
    BY <1>2 DEF SavePosition
  <2>2. tpc = "save" /\ pc' = pc /\ \A a \in Names : pc[a] = "idle"
    BY <1>2, <1>i DEF SavePosition
  <2>3. stored # None => stored.asked = None
    BY <1>0, <2>2 DEF SoloInv
  <2> QED
    BY <2>1, <2>2, <2>3 DEF SoloInv, Calm
<1>3. CASE Begin
  <2>1. tpc' = "join" /\ UNCHANGED <<current, stored, seen, draft>> /\ Calm(current)
    BY <1>0, <1>3 DEF Begin, SoloInv
  <2>2. \A a \in Names : pc'[a] \in {"idle", "read"}
    BY <1>3, <1>i DEF Begin
  <2> QED
    BY <2>1, <2>2 DEF SoloInv, Calm
<1>4. CASE Pass
  <2>1. tpc = "run" /\ UNCHANGED <<current, stored, agent>> /\ \A a \in Names : pc[a] = "idle"
    BY <1>4, <1>i DEF Pass
  <2> QED
    BY <1>0, <2>1 DEF SoloInv, Calm
\* An agent that is done has no question left.
<1>5. ASSUME NEW a \in Names, pc[a] = "done"
      PROVE  stored = current /\ Calm(current) /\ current.asked = None
  <2>1. stored = current /\ Wrote(current, a) /\ mem[a].pending = "none"
    BY <1>0, <1>5 DEF SoloInv, MemInv
  <2> QED
    BY <2>1 DEF Wrote, Calm
<1>6. CASE Join
  <2>1. pc' = [a \in Names |-> "idle"] /\ UNCHANGED <<current, stored>> /\ tpc = "join"
    BY <1>6 DEF Join
  <2>2. CASE tpc' \in {"save", "run"}
    <3>1. \A a \in Runs(phase, index) : pc[a] = "done"
      <4>1. phase # "parallel"
        BY <1>0, TeamAssumption DEF Validated, TypeOK, PhaseInv, PhasesOf
      <4> QED
        BY <1>6, <2>2, <4>1 DEF Join, Returned, Stay
    <3>2. \E a \in Names : a \in Runs(phase, index)
      <4>1. phase \in {"agent", "leader_plan", "follower", "leader_synthesis"}
        BY <1>0, <1>6, <2>2, TeamAssumption DEF Join, Validated, TypeOK, PhaseInv, PhasesOf
      <4>2. phase \in {"agent", "follower"} => index \in Names
        BY TeamAssumption DEF Validated, TypeOK, ThereInv, Placed, Names, Members
      <4> QED
        BY <4>1, <4>2 DEF Runs, Names
    <3> QED
      BY <1>5, <2>1, <3>1, <3>2 DEF SoloInv, Calm
  <2>3. CASE tpc' \notin {"save", "run"}
    BY <2>1, <2>3 DEF SoloInv
  <2> QED
    BY <2>2, <2>3
<1>7. CASE Rejoin
  <2> DEFINE a == from.who
  <2>1. /\ tpc = "rejoin" /\ a \in Names /\ pc' = [pc EXCEPT ![a] = "idle"] /\ UNCHANGED <<current, stored>>
    BY <1>7 DEF Rejoin, ThereInv
  <2>2. \A b \in Names : pc'[b] = "idle"
    BY <2>1 DEF ActorInv, Awaits, TypeOK
  <2>3. tpc' \in {"save", "run"} => pc[a] = "done"
    BY <1>7 DEF Rejoin
  <2> QED
    BY <1>5, <2>1, <2>2, <2>3 DEF SoloInv, Calm
<1>8. CASE Crash \/ Restore
  BY <1>8, <1>i DEF Crash, Restore, SoloInv
<1>9. CASE Resume
  <2>1. /\ tpc' = "rejoin" /\ current' = stored /\ UNCHANGED stored
        /\ stored.asked = stored.who /\ pc' = [pc EXCEPT ![stored.who] = "read"]
    BY <1>9 DEF Resume, ThereInv, CopiesInv, Good, Consistent
  <2>2. \A a \in Names : pc[a] = "idle"
    BY <1>9, <1>i DEF Resume
  <2>3. \A a \in Names : \/ pc'[a] = "read" /\ a = stored.who
                         \/ pc'[a] = "idle"
    BY <2>1, <2>2 DEF TypeOK
  <2> QED
    BY <2>1, <2>3 DEF SoloInv, Calm
\* One agent runs at a time, and the others are idle.
<1>10. ASSUME NEW a \in Names, pc[a] # "idle", UNCHANGED team,
              \A b \in Names \ {a} : pc'[b] = pc[b],
              /\ pc'[a] \in {"read", "write"} => Calm(current') \/ current'.who = a
              /\ pc'[a] = "write" => seen'[a] = current'
              /\ pc'[a] = "emit" => draft'[a] = current' /\ Wrote(current, a)'
              /\ pc'[a] \in {"work", "wait", "tool", "done"} => stored' = current' /\ Wrote(current, a)'
      PROVE  SoloInv'
  <2>1. \A b \in Names \ {a} : pc'[b] = "idle"
    BY <1>0, <1>10, OneActor
  <2>2. tpc' \in {"join", "rejoin"}
    BY <1>10 DEF ActorInv, Awaits
  <2> QED
    BY <1>10, <2>1, <2>2 DEF SoloInv
<1>11. ASSUME NEW a \in Names, Read(a) PROVE SoloInv'
  <2>1. /\ pc'[a] = "write" /\ seen'[a] = current /\ current' = current
        /\ Calm(current) \/ current.who = a
    BY <1>0, <1>11 DEF Read, SoloInv, TypeOK
  <2>2. pc[a] # "idle" /\ UNCHANGED team /\ \A b \in Names \ {a} : pc'[b] = pc[b]
    BY <1>11 DEF Read, TypeOK
  <2> QED
    BY <1>10, <2>1, <2>2 DEF Calm
<1>12. ASSUME NEW a \in Names, Write(a) PROVE SoloInv'
  <2>1. /\ pc'[a] = "emit" /\ current' = Merged(current, a) /\ draft'[a] = current' /\ mem' = mem
        /\ Calm(current) \/ current.who = a
    BY <1>0, <1>12 DEF Write, SoloInv, TypeOK
  <2>2. ~Held(current, a) /\ current \in Checkpoint
    BY <2>1, <1>12 DEF Write, Held, Calm, ThereInv, TypeOK, ActorInv, Awaits
  <2>3. Wrote(current, a)'
    BY <2>1, <2>2 DEF Merged, Wrote, Checkpoint
  <2>4. pc[a] # "idle" /\ UNCHANGED team /\ \A b \in Names \ {a} : pc'[b] = pc[b]
    BY <1>12 DEF Write, TypeOK
  <2> QED
    BY <1>10, <2>1, <2>3, <2>4
<1>13. ASSUME NEW a \in Names, Emit(a) PROVE SoloInv'
  <2>1. draft[a] = current /\ Wrote(current, a) /\ UNCHANGED <<current, mem>>
    BY <1>0, <1>13 DEF Emit, SoloInv
  <2>2. \/ pc'[a] \in {"work", "wait", "tool", "done"} /\ stored' = draft[a]
        \/ pc'[a] = "failed"
    BY <1>13 DEF Emit, TypeOK
  <2>3. pc[a] # "idle" /\ UNCHANGED team /\ \A b \in Names \ {a} : pc'[b] = pc[b]
    BY <1>13 DEF Emit, TypeOK
  <2> QED
    BY <1>10, <2>1, <2>2, <2>3 DEF Wrote
<1>14. ASSUME NEW a \in Names, Saving(a) PROVE SoloInv'
  <2>1. PICK saved \in AgentCheckpoint, then \in {"work", "wait", "tool", "done"} :
            Save(a, saved, then) /\ pc[a] \in {"work", "wait", "tool"}
    BY <1>14, SavingIs
  <2>2. current.who = a
    BY <1>0, <2>1 DEF SoloInv, Wrote
  <2>3. pc'[a] = "read" /\ current' = current /\ UNCHANGED team /\ \A b \in Names \ {a} : pc'[b] = pc[b]
    BY <2>1 DEF Save, TypeOK
  <2> QED
    BY <1>10, <2>1, <2>2, <2>3
<1>15. ASSUME NEW a \in Names, Fail(a) PROVE SoloInv'
  <2>1. pc[a] # "idle" /\ pc'[a] = "failed" /\ UNCHANGED team /\ \A b \in Names \ {a} : pc'[b] = pc[b]
    BY <1>15 DEF Fail, TypeOK
  <2> QED
    BY <1>10, <2>1
<1> QED
  BY <1>1, <1>2, <1>3, <1>4, <1>6, <1>7, <1>8, <1>9, <1>11, <1>12, <1>13, <1>14, <1>15, Cases

\* What holds of the agents of a Team, however often it crashes.
AgentsInv == IInv /\ PhaseInv /\ ActorInv /\ MemInv /\ SoloInv

LEMMA InitAgents == Init => AgentsInv
<1> SUFFICES ASSUME Init PROVE AgentsInv
  OBVIOUS
<1>1. PhaseInv
  BY TeamAssumption DEF Init, Validated, PhaseInv, PhasesOf, Copies
<1>2. ActorInv /\ MemInv
  BY DEF Init, ActorInv, MemInv
<1>3. SoloInv
  BY DEF Init, SoloInv
<1> QED
  BY <1>1, <1>2, <1>3, InitIInv DEF AgentsInv

LEMMA AgentsStep == AgentsInv /\ [Next]_vars => AgentsInv'
BY StepIInv, PhaseStep, ActorStep, MemStep, SoloStep DEF AgentsInv

LEMMA AgentsInductive == Spec => []AgentsInv
BY InitAgents, AgentsStep, PTL DEF Spec

\* While an agent of a sequential or a leader/follower Team waits for an answer,
\* the checkpoint from which its question can be resumed is stored.
THEOREM QuestionKept == Spec => []QuestionStored
<1>1. AgentsInv => QuestionStored
  <2> SUFFICES ASSUME AgentsInv, mode # "parallel", NEW a \in Names, pc[a] = "wait" PROVE stored.asked = a
    BY DEF QuestionStored
  <2>1. stored = current /\ Wrote(current, a) /\ mem[a].pending = "ask"
    BY DEF AgentsInv, SoloInv, MemInv
  <2> QED
    BY <2>1 DEF Wrote
<1> QED
  BY <1>1, AgentsInductive, PTL

-----------------------------------------------------------------------------
(* The progress of a Team *)

\* Resume of a leader/follower Team forgets what has happened since the question
\* of an earlier crash.
Tame == mode = "leader_follower" => crashes <= 1

Followers == Members \ {Leader}

\* What is done at index i of phase p, if out are the outputs.
Progress(p, i, out) ==
    /\ \A a \in Names : out[a] \in {None, a}
    /\ p \in {"agent", "agent_completed"} => i \in Members
    /\ p = "agent" => \A m \in Members : m < i => out[m] = m
    /\ p = "agent_completed" => \A m \in Members : m <= i => out[m] = m
    /\ p \in {"follower", "leader_synthesis"} => out[Leader] = Leader
    /\ p = "follower" => i \in Followers /\ \A k \in Followers : k < i => out[k] = k
    /\ p = "leader_synthesis" => \A k \in Followers : out[k] = k

\* The agents that are not run before index i of phase p.
Later(p, i, out) ==
    IF mode = "leader_follower" THEN {k \in Followers : out[k] = None}
    ELSE CASE p \in {"starting", "parallel"} -> Members
           [] p = "agent" -> i..N
           [] p = "agent_completed" -> (i + 1)..N
           [] OTHER -> {}

ProgressInv ==
    /\ Progress(phase, index, outputs)
    /\ \A cp \in Copies : cp # None => Progress(cp.phase, cp.index, cp.outputs)

OnceInv ==
    mode = "leader_follower" =>
        /\ from # None => crashes > 0
        /\ tpc \in {"down", "asking"} => crashes > 0 /\ from = None

\* The resumed agent is that of the phase.
ResumedInv ==
    mode # "parallel" /\ tpc = "rejoin" =>
        Runs(phase, index) = {from.who} /\ phase = from.phase /\ index = from.index

PositionInv ==
    mode # "parallel" /\ Saves /\ tpc \in {"run", "join", "rejoin"} => AtPosition(current)

\* Nothing was begun after a question that can be resumed.
QuestionInv ==
    mode # "parallel" /\ Saves /\ stored # None /\ stored.asked # None =>
        /\ Runs(stored.phase, stored.index) = {stored.asked}
        /\ \A a \in Later(stored.phase, stored.index, stored.outputs) \ {stored.asked} : begun[a] = 0
        /\ mode = "leader_follower" /\ stored.phase # "leader_synthesis" => begun[Leader] <= 1

Running == IF tpc \in {"join", "rejoin"} THEN Runs(phase, index) ELSE {}

GoesOn == IF mode = "parallel" THEN tpc \in {"save", "run", "join"}
          ELSE tpc \in {"save", "run", "join", "rejoin"}

BegunInv ==
    /\ GoesOn =>
        /\ \A a \in Later(phase, index, outputs) \ Running : begun[a] = 0
        /\ mode = "leader_follower" =>
            /\ phase \in {"starting", "leader_plan"} /\ Running = {} => begun[Leader] = 0
            /\ phase # "leader_synthesis" \/ Running = {} => begun[Leader] <= 1
    /\ tpc \in {"save", "run"} /\ phase = "follower" => outputs[index] = None
    /\ RunAgainNever

\* The followers up to the one that was resumed are not due again.
ResumedFollowerInv ==
    mode = "leader_follower" /\ from # None /\ from.phase = "follower" /\ tpc \in {"save", "run", "join"} =>
        \A k \in Followers : k <= from.index => outputs[k] = k

\* What feed is at index i of phase p.
FeedIs(f, p, i) ==
    /\ mode = "sequential" /\ p = "starting" => f = None
    /\ mode = "sequential" /\ p = "agent" => f = IF i = 1 THEN None ELSE i - 1
    /\ mode = "sequential" /\ p = "agent_completed" => f = i
    /\ mode = "leader_follower" /\ p = "follower" => f = Leader

FeedInv ==
    /\ tpc \in {"save", "run", "join"} => FeedIs(feed, phase, index)
    /\ InputIsPredecessors

TInv ==
    /\ ProgressInv /\ OnceInv /\ ResumedInv /\ PositionInv /\ QuestionInv
    /\ BegunInv /\ ResumedFollowerInv /\ FeedInv /\ SuccessIsComplete

\* What the steps below use of the Team.
LEMMA Known ==
  ASSUME AgentsInv
  PROVE  /\ N \in Nat \ {0} /\ Leader \in 0..N /\ None \notin 0..N /\ Members \subseteq Names
         /\ Names \subseteq 0..N /\ Leader \in Names
         /\ mode \in {"sequential", "parallel", "leader_follower"}
         /\ mode = "sequential" => phase \in {"starting", "agent", "agent_completed"}
         /\ mode = "parallel" => phase \in {"starting", "parallel", "parallel_completed"}
         /\ mode = "leader_follower" => phase \in {"starting", "leader_plan", "follower", "leader_synthesis"}
         /\ index \in 0..N /\ phase \in Phases
         /\ outputs \in [Names -> Names \cup {None}]
         /\ begun \in [Names -> 0..3] /\ took \in [Names -> Names \cup {None}] /\ crashes \in Nat
<1> USE TeamAssumption DEF AgentsInv, IInv, TypeOK, Validated
<1>1. /\ N \in Nat \ {0} /\ Leader \in 0..N /\ None \notin 0..N /\ Members \subseteq Names
      /\ Names \subseteq 0..N /\ Leader \in Names
  BY DEF Names, Members
<1>2. mode \in {"sequential", "parallel", "leader_follower"}
  OBVIOUS
<1>3. phase \in PhasesOf(mode)
  BY DEF PhaseInv
<1>4. /\ mode = "sequential" => phase \in {"starting", "agent", "agent_completed"}
      /\ mode = "parallel" => phase \in {"starting", "parallel", "parallel_completed"}
      /\ mode = "leader_follower" => phase \in {"starting", "leader_plan", "follower", "leader_synthesis"}
  BY <1>3 DEF PhasesOf
<1>5. /\ index \in 0..N /\ phase \in Phases
      /\ outputs \in [Names -> Names \cup {None}]
      /\ begun \in [Names -> 0..3] /\ took \in [Names -> Names \cup {None}] /\ crashes \in Nat
  OBVIOUS
<1> QED
  BY <1>1, <1>2, <1>4, <1>5

LEMMA ProgressKept ==
  ASSUME AgentsInv, ProgressInv, [Next]_vars
  PROVE  \A cp \in Copies' : cp # None => Progress(cp.phase, cp.index, cp.outputs)
<1> SUFFICES ASSUME NEW cp \in Copies', cp # None PROVE Progress(cp.phase, cp.index, cp.outputs)
  OBVIOUS
<1>1. AtPosition(cp) \/ \E c \in Copies : c # None /\ Like(cp, c)
  BY CopiesKept DEF AgentsInv
<1> QED
  BY <1>1 DEF ProgressInv, AtPosition, Like

\* A step that leaves the Team and its agents' inputs alone.
LEMMA QuietStep ==
  ASSUME AgentsInv, TInv, [Next]_vars, UNCHANGED <<team, history>>,
         PositionInv', QuestionInv'
  PROVE  TInv'
<1> USE DEF team, history
<1>1. ProgressInv'
  BY ProgressKept DEF TInv, ProgressInv
<1>2. UNCHANGED <<Running, GoesOn>> /\ \A p, i, out : Later(p, i, out)' = Later(p, i, out)
  BY DEF Running, GoesOn, Later
<1>3. OnceInv' /\ ResumedInv' /\ ResumedFollowerInv' /\ SuccessIsComplete'
  BY DEF TInv, OnceInv, ResumedInv, ResumedFollowerInv, SuccessIsComplete
<1>4. BegunInv'
  BY <1>2 DEF TInv, BegunInv, RunAgainNever
<1>5. FeedInv'
  BY DEF TInv, FeedInv, FeedIs, InputIsPredecessors
<1> QED
  BY <1>1, <1>3, <1>4, <1>5 DEF TInv

LEMMA AgentTame ==
  ASSUME AgentsInv, TInv, [Next]_vars, NEW a \in Names,
         Read(a) \/ Write(a) \/ Emit(a) \/ Saving(a) \/ Fail(a)
  PROVE  TInv'
<1> USE DEF team, history, agent
<1>1. UNCHANGED <<team, history>> /\ pc[a] # "idle"
  BY DEF Read, Write, Emit, Saving, Work, ToolReturns, Answered, Finish, Save, Fail
<1>2. PositionInv'
  <2> SUFFICES ASSUME mode # "parallel", Saves, tpc \in {"run", "join", "rejoin"}
               PROVE  AtPosition(current)'
    BY <1>1 DEF PositionInv, Saves
  <2>1. AtPosition(current)
    BY DEF TInv, PositionInv
  <2>2. CASE Write(a)
    <3>1. seen[a] = current /\ current # None /\ current \in Checkpoint
      BY <2>2 DEF Write, AgentsInv, SoloInv, IInv, ThereInv, TypeOK
    <3>2. Like(current', current)
      BY <2>2, <3>1, MergedIsLike DEF Write
    <3> QED
      BY <1>1, <2>1, <3>2 DEF Like, AtPosition
  <2>3. CASE Read(a) \/ Emit(a) \/ Saving(a) \/ Fail(a)
    <3>1. current' = current
      BY <2>3 DEF Read, Emit, Saving, Work, ToolReturns, Answered, Finish, Save, Fail
    <3> QED
      BY <1>1, <2>1, <3>1 DEF AtPosition
  <2> QED
    BY <2>2, <2>3
<1>3. QuestionInv'
  <2>1. CASE stored' = stored
    BY <1>1, <2>1 DEF TInv, QuestionInv, Saves, Later
  <2>2. CASE stored' # stored
    <3>1. Emit(a) /\ stored' = draft[a]
      BY <2>2 DEF Read, Write, Emit, Saving, Work, ToolReturns, Answered, Finish, Save, Fail
    <3> SUFFICES ASSUME mode # "parallel", Saves, stored' # None, stored'.asked # None
                 PROVE  /\ Runs(stored'.phase, stored'.index) = {stored'.asked}
                        /\ \A b \in Later(stored'.phase, stored'.index, stored'.outputs) \ {stored'.asked} :
                              begun[b] = 0
                        /\ mode = "leader_follower" /\ stored'.phase # "leader_synthesis" => begun[Leader] <= 1
      BY <1>1 DEF QuestionInv, Saves, Later
    <3>2. stored' = current /\ current.asked = a
      BY <3>1 DEF Emit, AgentsInv, SoloInv, Wrote
    <3>3. tpc \in {"join", "rejoin"} /\ AtPosition(current)
      BY <1>1 DEF AgentsInv, ActorInv, Awaits, TInv, PositionInv
    <3>4. Runs(phase, index) = {a}
      BY <1>1, <3>3, Known DEF AgentsInv, ActorInv, Awaits, TInv, ResumedInv, Runs
    <3>5. Running = {a} /\ GoesOn
      BY <3>3, <3>4 DEF Running, GoesOn
    <3> QED
      BY <3>2, <3>3, <3>4, <3>5 DEF TInv, BegunInv, AtPosition
  <2> QED
    BY <2>1, <2>2
<1> QED
  BY <1>1, <1>2, <1>3, QuietStep

LEMMA SaveTame ==
  ASSUME AgentsInv, TInv, [Next]_vars, SavePosition
  PROVE  TInv'
<1> USE DEF SavePosition, agent, history
<1>1. /\ current' # None => AtPosition(current')
      /\ current'.asked = None /\ stored' \in {stored, current'} /\ tpc = "save" /\ tpc' \in {"run", "failed"}
      /\ UNCHANGED <<mode, phase, index, from, outputs, feed, begun, took, crashes>>
  BY DEF AtPosition
<1>2. ProgressInv'
  BY <1>1, ProgressKept DEF TInv, ProgressInv
<1>3. OnceInv' /\ ResumedInv' /\ SuccessIsComplete'
  BY <1>1 DEF TInv, OnceInv, ResumedInv, SuccessIsComplete
<1>4. PositionInv'
  BY <1>1 DEF PositionInv, AtPosition
<1>5. QuestionInv'
  <2>1. mode # "parallel" /\ stored' # None => stored'.asked = None
    BY <1>1 DEF AgentsInv, SoloInv
  <2> QED
    BY <1>1, <2>1 DEF QuestionInv
<1>6. Running' = {} /\ Running = {} /\ GoesOn /\ \A p, i, out : Later(p, i, out)' = Later(p, i, out)
  BY <1>1 DEF Running, GoesOn, Later
<1>7. BegunInv'
  BY <1>1, <1>6 DEF TInv, BegunInv, RunAgainNever
<1>8. ResumedFollowerInv' /\ FeedInv'
  BY <1>1 DEF TInv, ResumedFollowerInv, FeedInv, FeedIs, InputIsPredecessors
<1> QED
  BY <1>2, <1>3, <1>4, <1>5, <1>7, <1>8 DEF TInv

LEMMA BeginTame ==
  ASSUME AgentsInv, TInv, [Next]_vars, Begin
  PROVE  TInv'
<1> DEFINE Chosen == Runs(phase, index)
<1>1. /\ tpc = "run" /\ tpc' = "join" /\ Chosen # {}
      /\ took' = [a \in Names |-> IF a \in Chosen THEN feed ELSE took[a]]
      /\ begun' = [a \in Names |-> IF a \in Chosen /\ begun[a] < 3 THEN begun[a] + 1 ELSE begun[a]]
      /\ UNCHANGED <<mode, phase, index, from, outputs, feed, seen, draft, current, stored, crashes>>
  BY DEF Begin
<1>2. ProgressInv'
  BY <1>1, ProgressKept DEF TInv, ProgressInv
<1>3. OnceInv' /\ ResumedInv' /\ SuccessIsComplete' /\ ResumedFollowerInv'
  BY <1>1 DEF TInv, OnceInv, ResumedInv, SuccessIsComplete, ResumedFollowerInv
<1>4. PositionInv'
  BY <1>1 DEF TInv, PositionInv, Saves, AtPosition
<1>5. QuestionInv'
  <2>1. mode # "parallel" /\ stored' # None => stored'.asked = None
    BY <1>1 DEF AgentsInv, SoloInv
  <2> QED
    BY <1>1, <2>1 DEF QuestionInv
<1>6. Running = {} /\ GoesOn /\ Running' = Chosen /\ \A p, i, out : Later(p, i, out)' = Later(p, i, out)
  BY <1>1, Known DEF Running, GoesOn, Later, Runs
<1>7. \A a \in Names : \/ a \in Chosen /\ begun'[a] <= begun[a] + 1 /\ took'[a] = feed
                       \/ a \notin Chosen /\ begun'[a] = begun[a] /\ took'[a] = took[a]
  BY <1>1, Known DEF Chosen
<1>8. \A a \in Chosen \ {Leader} : a \in Later(phase, index, outputs) /\ a \in Names
  BY <1>1, <1>6, Known DEF Chosen, Runs, Later, TInv, ProgressInv, Progress, BegunInv, Followers
<1>9. mode # "leader_follower" => \A a \in Chosen : a \in Later(phase, index, outputs) /\ a \in Names
  BY <1>1, Known DEF Chosen, Runs, Later, TInv, ProgressInv, Progress
<1>10. BegunInv'
  <2>1. GoesOn' => \A a \in Later(phase, index, outputs)' \ Running' : begun'[a] = 0
    <3>1. Later(phase, index, outputs)' = Later(phase, index, outputs)
      BY <1>1, <1>6
    <3>2. Later(phase, index, outputs) \subseteq Names
      BY Known DEF Later, Followers, Members, Names, TInv, ProgressInv, Progress
    <3> QED
      BY <1>6, <1>7, <3>1, <3>2 DEF TInv, BegunInv
  <2>2. mode = "leader_follower" =>
           /\ phase \in {"starting", "leader_plan"} => Chosen # {}
           /\ phase # "leader_synthesis" => begun'[Leader] <= 1
    BY <1>1, <1>6, <1>7, Known DEF TInv, BegunInv, Chosen, Runs, ProgressInv, Progress, Followers
  <2>3. RunAgainNever'
    <3> SUFFICES ASSUME NEW a \in Names PROVE begun'[a] <= IF mode = "leader_follower" /\ a = Leader THEN 2 ELSE 1
      BY <1>1 DEF RunAgainNever
    <3>1. CASE a \notin Chosen
      BY <1>7, <3>1 DEF TInv, BegunInv, RunAgainNever
    <3>2. CASE a \in Chosen /\ ~(mode = "leader_follower" /\ a = Leader)
      BY <1>6, <1>7, <1>8, <1>9, <3>2 DEF TInv, BegunInv
    <3>3. CASE mode = "leader_follower" /\ a = Leader
      <4>1. begun[Leader] <= 1
        BY <1>6, <3>3 DEF TInv, BegunInv
      <4>2. begun[a] \in 0..3 /\ begun'[a] \in {begun[a], begun[a] + 1}
        BY <1>1, Known
      <4> QED
        BY <3>3, <4>1, <4>2
    <3> QED
      BY <3>1, <3>2, <3>3
  <2> QED
    BY <1>1, <1>6, <2>1, <2>2, <2>3 DEF BegunInv
<1>11. FeedInv'
  <2>1. InputIsPredecessors'
    <3> SUFFICES ASSUME NEW a \in Members, begun'[a] > 0
                 PROVE  CASE mode = "sequential" -> took'[a] = IF a = 1 THEN None ELSE a - 1
                          [] mode = "leader_follower" /\ a # Leader -> took'[a] = Leader
                          [] OTHER -> TRUE
      BY <1>1 DEF InputIsPredecessors
    <3>1. CASE a \notin Chosen
      BY <1>7, <3>1, Known DEF TInv, FeedInv, FeedIs, InputIsPredecessors
    <3>2. CASE a \in Chosen
      <4>1. mode = "sequential" => phase = "agent" /\ a = index
        BY <3>2, Known DEF Chosen, Runs
      <4>2. mode = "leader_follower" /\ a # Leader => phase = "follower"
        BY <3>2, Known DEF Chosen, Runs
      <4>3. took'[a] = feed
        BY <1>7, <3>2, Known
      <4> QED
        BY <1>1, <4>1, <4>2, <4>3, Known DEF TInv, FeedInv, FeedIs
    <3> QED
      BY <3>1, <3>2
  <2> QED
    BY <1>1, <2>1 DEF TInv, FeedInv, FeedIs
<1> QED
  BY <1>2, <1>3, <1>4, <1>5, <1>10, <1>11 DEF TInv
\* The Team has moved on, after the agents of a phase or from a phase that only saves.
Move ==
    /\ UNCHANGED <<mode, from, current, stored, seen, draft, history>>
    /\ tpc' \in {"save", "run", "succeeded", "failed"}
    /\ Progress(phase', index', outputs')
    /\ tpc' = "succeeded" => \A a \in Members : outputs'[a] = a
    /\ tpc' \in {"save", "run"} =>
        /\ mode # "parallel" /\ Saves => tpc' = "save"
        /\ Later(phase', index', outputs') \subseteq Later(phase, index, outputs) \ Running
        /\ mode = "leader_follower" =>
            /\ phase' \in {"starting", "leader_plan"} => phase = "starting"
            /\ phase # "leader_synthesis"
            /\ from # None /\ from.phase = "follower" =>
                   \A k \in Followers : k <= from.index => outputs'[k] = k
        /\ phase' = "follower" => outputs'[index'] = None
        /\ FeedIs(feed', phase', index')

LEMMA MoveTame ==
  ASSUME AgentsInv, TInv, [Next]_vars, Move, GoesOn \/ tpc' \notin {"save", "run"}
  PROVE  TInv'
<1> USE DEF Move, history
<1>1. ProgressInv'
  BY ProgressKept DEF TInv, ProgressInv
<1>2. OnceInv' /\ ResumedInv' /\ SuccessIsComplete' /\ ResumedFollowerInv'
  BY DEF TInv, OnceInv, ResumedInv, SuccessIsComplete, ResumedFollowerInv
<1>3. PositionInv'
  BY DEF PositionInv, Saves
<1>4. QuestionInv'
  BY DEF TInv, QuestionInv, Saves, Later
<1>5. Running' = {} /\ (GoesOn' => tpc' \in {"save", "run"}) /\ \A p, i, out : Later(p, i, out)' = Later(p, i, out)
  BY DEF Running, GoesOn, Later
<1>6. BegunInv'
  <2>1. GoesOn' => \A a \in Later(phase', index', outputs') : begun[a] = 0
    BY <1>5 DEF TInv, BegunInv
  <2>2. phase = "starting" => Running = {}
    BY DEF Running, Runs
  <2>3. GoesOn' /\ mode = "leader_follower" =>
            /\ phase' \in {"starting", "leader_plan"} => begun[Leader] = 0
            /\ begun[Leader] <= 1
    BY <1>5, <2>2 DEF TInv, BegunInv
  <2> QED
    BY <1>5, <2>1, <2>3 DEF TInv, BegunInv, RunAgainNever
<1>7. FeedInv'
  BY DEF TInv, FeedInv, FeedIs, InputIsPredecessors
<1> QED
  BY <1>1, <1>2, <1>3, <1>4, <1>6, <1>7 DEF TInv

\* The agents of a sequence up to i are done.
LEMMA AdvanceMoves ==
  ASSUME AgentsInv, TInv, mode = "sequential", NEW i \in 0..N, Advance(i),
         UNCHANGED <<mode, from, current, stored, seen, draft, history>>,
         \A a \in Names : outputs'[a] \in {None, a},
         \A m \in Members : m <= i => outputs'[m] = m,
         (i + 1)..N \subseteq Later(phase, index, outputs) \ Running,
         feed' = IF i = 0 THEN None ELSE i
  PROVE  Move
<1>1. CASE i = N
  <2>1. tpc' = "succeeded" /\ phase' = phase /\ index' = index
    BY <1>1 DEF Advance, Stay
  <2>2. \A a \in Members : outputs'[a] = a
    BY <1>1, Known DEF Members
  <2>3. Progress(phase', index', outputs')
    BY <2>1, <2>2, Known DEF TInv, ProgressInv, Progress
  <2> QED
    BY <2>1, <2>2, <2>3 DEF Move
<1>2. CASE i # N
  <2>1. tpc' = (IF Saves THEN "save" ELSE "run") /\ phase' = "agent" /\ index' = i + 1
    BY <1>2 DEF Advance, GoTo
  <2>2. i + 1 \in Members /\ \A m \in Members : m < i + 1 => m <= i
    BY <1>2, Known DEF Members
  <2>3. Progress(phase', index', outputs')
    BY <2>1, <2>2 DEF Progress
  <2>4. Later(phase', index', outputs') = (i + 1)..N
    BY <2>1 DEF Later
  <2>5. FeedIs(feed', phase', index')
    BY <2>1 DEF FeedIs
  <2> QED
    BY <2>1, <2>3, <2>4, <2>5 DEF Move
<1> QED
  BY <1>1, <1>2

LEMMA PassTame ==
  ASSUME AgentsInv, TInv, [Next]_vars, Pass
  PROVE  TInv'
<1>1. /\ tpc = "run" /\ UNCHANGED <<mode, from, outputs, feed, current, stored, seen, draft, history>>
  BY DEF Pass, agent
<1>2. GoesOn /\ Running = {}
  BY <1>1, Known DEF GoesOn, Running
<1>3. CASE phase = "starting" /\ mode = "sequential" /\ Advance(0)
  <2>1. Later(phase, index, outputs) = Members /\ feed = None /\ \A a \in Names : outputs[a] \in {None, a}
    BY <1>1, <1>3 DEF Later, TInv, FeedInv, FeedIs, ProgressInv, Progress
  <2>2. Move
    BY <1>1, <1>2, <1>3, <2>1, AdvanceMoves, Known DEF Members
  <2> QED
    BY <1>2, <2>2, MoveTame
<1>4. CASE phase = "starting" /\ mode = "parallel" /\ GoTo("run", "parallel", 0)
  <2>1. Move
    BY <1>1, <1>2, <1>4 DEF GoTo, Move, TInv, ProgressInv, Progress, Later, FeedIs
  <2> QED
    BY <1>2, <2>1, MoveTame
<1>5. CASE phase = "starting" /\ mode = "leader_follower" /\ GoTo("save", "leader_plan", 0)
  <2>1. Move
    BY <1>1, <1>2, <1>5 DEF GoTo, Move, TInv, ProgressInv, Progress, Later, FeedIs, ResumedFollowerInv
  <2> QED
    BY <1>2, <2>1, MoveTame
<1>6. CASE phase = "agent_completed" /\ Advance(index)
  <2>1. mode = "sequential" /\ index \in Members /\ index # 0
    BY <1>6, Known DEF TInv, ProgressInv, Progress, Members
  <2>2. /\ Later(phase, index, outputs) = (index + 1)..N /\ feed = index
        /\ \A a \in Names : outputs[a] \in {None, a}
        /\ \A m \in Members : m <= index => outputs[m] = m
    BY <1>1, <1>6, <2>1 DEF Later, TInv, FeedInv, FeedIs, ProgressInv, Progress
  <2>3. Move
    BY <1>1, <1>2, <1>6, <2>1, <2>2, AdvanceMoves, Known
  <2> QED
    BY <1>2, <2>3, MoveTame
<1>7. CASE /\ phase = "parallel_completed" /\ Stay
           /\ tpc' = IF \E a \in Members : outputs[a] = None THEN "failed" ELSE "succeeded"
  <2>1. Move
    BY <1>1, <1>7, Known DEF Stay, Move, TInv, ProgressInv, Progress
  <2> QED
    BY <1>2, <2>1, MoveTame
<1> QED
  BY <1>3, <1>4, <1>5, <1>6, <1>7 DEF Pass

\* The Team goes on to the followers, of whom those up to the resumed one have an
\* output, or to the synthesis.
LEMMA FollowMoves ==
  ASSUME AgentsInv, TInv, mode = "leader_follower", NEW out, Follow(out),
         UNCHANGED <<mode, from, current, stored, seen, draft, history>>, outputs' = out,
         \A a \in Names : out[a] \in {None, a} /\ (outputs[a] = a => out[a] = a),
         \A a \in Running : out[a] = a,
         out[Leader] = Leader, feed' = Leader, phase # "leader_synthesis",
         from # None /\ from.phase = "follower" => \A k \in Followers : k <= from.index => out[k] = k
  PROVE  Move
<1>1. \A k \in Followers : k \notin Due(out) => out[k] = k
  BY Known DEF Due, Followers, AgentsInv, IInv, TypeOK, Checkpoint, Members
<1>2. Later(phase', index', outputs') \subseteq Later(phase, index, outputs) \ Running
  <2>1. \A k \in Followers : out[k] = None => outputs[k] = None /\ k \notin Running
    BY Known DEF Followers, TInv, ProgressInv, Progress
  <2>2. \A p, i, o : Later(p, i, o) = {k \in Followers : o[k] = None}
    BY DEF Later
  <2> QED
    BY <2>1, <2>2
<1>3. CASE Due(out) = {} /\ GoTo(IF Saves THEN "save" ELSE "run", "leader_synthesis", N)
  <2>1. Progress(phase', index', outputs')
    BY <1>1, <1>3 DEF GoTo, Progress
  <2> QED
    BY <1>2, <1>3, <2>1 DEF GoTo, Move, FeedIs
<1>4. ASSUME NEW j \in Due(out), \A k \in Due(out) : j <= k,
             GoTo(IF Saves THEN "save" ELSE "run", "follower", j)
      PROVE  Move
  <2>1. j \in Followers /\ \A k \in Followers : k < j => k \notin Due(out)
    BY <1>4, Known DEF Due, Followers, Members
  <2>2. Progress(phase', index', outputs')
    BY <1>1, <1>4, <2>1 DEF GoTo, Progress
  <2>3. out[j] = None
    BY DEF Due
  <2> QED
    BY <1>2, <1>4, <2>2, <2>3 DEF GoTo, Move, FeedIs
<1> QED
  BY <1>3, <1>4 DEF Follow

LEMMA JoinTame ==
  ASSUME AgentsInv, TInv, [Next]_vars, Join
  PROVE  TInv'
<1> DEFINE Ran == Runs(phase, index)
           out == [a \in Names |-> IF a \in Ran /\ pc[a] = "done" THEN a ELSE outputs[a]]
           failed == \E a \in Ran : pc[a] = "failed"
<1>1. /\ tpc = "join" /\ outputs' = out /\ \A a \in Ran : pc[a] \in {"done", "failed"}
      /\ UNCHANGED <<mode, from, current, stored, seen, draft, history>>
  BY DEF Join, Returned
<1>2. GoesOn /\ Running = Ran /\ Ran \subseteq Names
  BY <1>1, Known DEF GoesOn, Running, Runs, TInv, ProgressInv, Progress, Followers
<1>3. \A a \in Names : out[a] \in {None, a} /\ (outputs[a] = a => out[a] = a)
  BY DEF TInv, ProgressInv, Progress
<1>4. ~failed => \A a \in Ran : out[a] = a
  BY <1>1, <1>2
<1>5. Progress(phase, index, out)
  BY <1>3, Known DEF TInv, ProgressInv, Progress, Followers
<1>6. feed' = IF phase = "parallel" THEN feed ELSE Fed(phase, CHOOSE a \in Ran : TRUE)
  BY DEF Join
<1> HIDE DEF out
<1>7. CASE phase = "parallel" /\ GoTo("save", "parallel_completed", N)
  <2>1. mode = "parallel"
    BY <1>7, Known
  <2>2. Move
    BY <1>1, <1>3, <1>7, <2>1, Known DEF GoTo, Move, Progress, Later, FeedIs
  <2> QED
    BY <1>2, <2>2, MoveTame
<1>8. CASE phase # "parallel" /\ failed /\ tpc' = "failed" /\ Stay
  <2>1. Move
    BY <1>1, <1>5, <1>8 DEF Stay, Move
  <2> QED
    BY <1>2, <2>1, MoveTame
<1>9. CASE phase = "agent" /\ ~failed
  <2>1. mode = "sequential" /\ Ran = {index} /\ index \in Members
    BY <1>9, Known DEF Runs, TInv, ProgressInv, Progress
  <2>2. \A m \in Members : m <= index => out[m] = m
    BY <1>4, <1>5, <1>9, <2>1, Known DEF Progress, Members
  <2>3. feed' = index
    <3>1. \A x : (CHOOSE a \in {x} : TRUE) = x
      OBVIOUS
    <3> QED
      BY <1>6, <1>9, <2>1, <3>1, Zenon DEF Fed
  <2>4. (index + 1)..N \subseteq Later(phase, index, outputs) \ Running /\ index # 0
    BY <1>2, <1>9, <2>1, Known DEF Later, Members
  <2>5. CASE from = None /\ GoTo("save", "agent_completed", index)
    <3>1. Move
      BY <1>1, <1>3, <2>1, <2>2, <2>3, <2>4, <2>5 DEF GoTo, Move, Progress, Later, FeedIs
    <3> QED
      BY <1>2, <3>1, MoveTame
  <2>6. CASE Advance(index)
    <3>1. Move
      BY <1>1, <1>3, <2>1, <2>2, <2>3, <2>4, <2>6, AdvanceMoves, Known
    <3> QED
      BY <1>2, <3>1, MoveTame
  <2> QED
    BY <1>9, <2>5, <2>6 DEF Join
<1>10. CASE phase \in {"leader_plan", "follower"} /\ ~failed /\ Follow(out)
  <2>1. mode = "leader_follower"
    BY <1>10, Known
  <2>2. out[Leader] = Leader /\ feed' = Leader
    <3>1. CASE phase = "leader_plan"
      <4>1. Ran = {Leader}
        BY <3>1 DEF Runs
      <4>2. (CHOOSE a \in {Leader} : TRUE) = Leader
        OBVIOUS
      <4> QED
        BY <1>4, <1>6, <1>10, <3>1, <4>1, <4>2, Zenon DEF Fed
    <3>2. CASE phase = "follower"
      BY <1>1, <1>5, <1>6, <2>1, <3>2, Zenon DEF Fed, Progress, TInv, FeedInv, FeedIs
    <3> QED
      BY <1>10, <3>1, <3>2
  <2>3. from # None /\ from.phase = "follower" => \A k \in Followers : k <= from.index => out[k] = k
    BY <1>1, <1>3, <2>1, Known DEF TInv, ResumedFollowerInv, Followers
  <2>4. Move
    BY <1>1, <1>2, <1>3, <1>4, <1>10, <2>1, <2>2, <2>3, FollowMoves
  <2> QED
    BY <1>2, <2>4, MoveTame
<1>11. CASE phase = "leader_synthesis" /\ ~failed /\ tpc' = "succeeded" /\ Stay
  <2>1. \A a \in Members : out[a] = a
    BY <1>5, <1>11 DEF Progress, Followers
  <2>2. Move
    BY <1>1, <1>5, <1>11, <2>1 DEF Stay, Move
  <2> QED
    BY <1>2, <2>2, MoveTame
<1> QED
  BY <1>7, <1>8, <1>9, <1>10, <1>11 DEF Join, out

LEMMA RejoinTame ==
  ASSUME AgentsInv, TInv, [Next]_vars, Rejoin
  PROVE  TInv'
<1> DEFINE a == from.who
           own == [outputs EXCEPT ![a] = a]
           out == IF mode = "leader_follower" /\ phase = "leader_plan" THEN [own EXCEPT ![Leader] = a] ELSE own
<1>1. /\ tpc = "rejoin" /\ a \in Names /\ pc[a] \in {"done", "failed"}
      /\ UNCHANGED <<mode, from, current, stored, seen, draft, history>>
  BY DEF Rejoin, Returned, AgentsInv, IInv, ThereInv
<1>2. /\ own \in [Names -> Names \cup {None}] /\ own[a] = a
      /\ \A b \in Names : own[b] \in {None, b} /\ (outputs[b] = b => own[b] = b)
  BY <1>1, Known DEF TInv, ProgressInv, Progress
<1>3. Progress(phase, index, own)
  BY <1>2, Known DEF TInv, ProgressInv, Progress, Followers
<1>4. mode # "parallel" => GoesOn /\ Running = {a} /\ Runs(phase, index) = {a} /\ phase = from.phase /\ index = from.index
  BY <1>1 DEF GoesOn, Running, TInv, ResumedInv
<1> HIDE DEF own
<1>5. CASE mode = "parallel"
  <2> DEFINE Others == {m \in Members : own[m] = None}
  <2>1. CASE pc[a] = "failed"
    <3>1. Move
      BY <1>1, <2>1 DEF Rejoin, Stay, Move, TInv, ProgressInv
    <3> QED
      BY <2>1, <3>1, MoveTame DEF Rejoin
  <2>2. CASE pc[a] = "done"
    <3>1. /\ tpc' = IF \A m \in Others : Usable(from.agents[m]) THEN "succeeded" ELSE "failed"
          /\ outputs' = [m \in Names |-> IF m \in Others /\ Usable(from.agents[m]) THEN m ELSE own[m]]
          /\ Stay
      BY <1>5, <2>2 DEF Rejoin, own
    <3>2. \A m \in Names : outputs'[m] \in {None, m}
      BY <1>2, <3>1
    <3>3. tpc' = "succeeded" => \A m \in Members : outputs'[m] = m
      BY <1>2, <3>1, Known
    <3>4. Progress(phase', index', outputs')
      BY <1>5, <3>1, <3>2, Known DEF Stay, Progress
    <3>5. tpc' \in {"succeeded", "failed"}
      BY <3>1
    <3>6. Move
      BY <1>1, <3>3, <3>4, <3>5 DEF Move
    <3> QED
      BY <3>5, <3>6, MoveTame
  <2> QED
    BY <1>1, <2>1, <2>2
<1>6. CASE mode # "parallel" /\ pc[a] = "failed"
  <2>1. /\ tpc' = "failed" /\ Stay /\ UNCHANGED <<outputs, feed>>
    BY <1>6 DEF Rejoin
  <2>2. Move
    BY <1>1, <2>1 DEF Stay, Move, TInv, ProgressInv
  <2> QED
    BY <2>1, <2>2, MoveTame
<1>7. CASE mode = "sequential" /\ pc[a] = "done"
  <2>1. outputs' = own /\ feed' = a /\ Advance(index)
    BY <1>7 DEF Rejoin, own
  <2>2. phase = "agent" /\ a = index /\ index \in Members /\ index # 0
    BY <1>4, <1>7, Known DEF Runs, TInv, ProgressInv, Progress, Members
  <2>3. \A m \in Members : m <= index => own[m] = m
    BY <1>2, <1>3, <2>2, Known DEF Progress, Members
  <2>4. (index + 1)..N \subseteq Later(phase, index, outputs) \ Running
    BY <1>4, <1>7, <2>2, Known DEF Later, Members
  <2>5. Move
    BY <1>1, <1>2, <1>7, <2>1, <2>2, <2>3, <2>4, AdvanceMoves, Known
  <2> QED
    BY <1>4, <1>7, <2>5, MoveTame
<1>8. CASE mode = "leader_follower" /\ pc[a] = "done"
  <2>1. /\ outputs' = out /\ feed' = out[Leader]
        /\ IF phase = "leader_synthesis" THEN tpc' = "succeeded" /\ Stay ELSE Follow(out)
    BY <1>8 DEF Rejoin, own
  <2>2. out = own
    <3>1. phase = "leader_plan" => a = Leader
      BY <1>4, <1>8 DEF Runs
    <3>2. own = [own EXCEPT ![a] = a]
      BY <1>2
    <3> QED
      BY <1>8, <3>1, <3>2
  <2>3. phase \in {"leader_plan", "follower", "leader_synthesis"}
    BY <1>4, <1>8, Known DEF Runs
  <2>4. own[Leader] = Leader
    BY <1>2, <1>3, <1>4, <1>8, <2>3 DEF Runs, Progress
  <2> HIDE DEF out
  <2>5. CASE phase = "leader_synthesis"
    <3>1. \A m \in Members : own[m] = m
      BY <1>3, <2>4, <2>5 DEF Progress, Followers
    <3>2. Move
      BY <1>1, <1>3, <2>1, <2>2, <2>5, <3>1 DEF Stay, Move
    <3> QED
      BY <1>4, <1>8, <3>2, MoveTame
  <2>6. CASE phase # "leader_synthesis"
    <3>1. Follow(own) /\ outputs' = own /\ feed' = Leader
      BY <2>1, <2>2, <2>4, <2>6
    <3>2. from # None /\ from.phase = "follower" => \A k \in Followers : k <= from.index => own[k] = k
      BY <1>2, <1>3, <1>4, <1>8, Known DEF Runs, Progress, Followers, Members
    <3>3. Move
      BY <1>1, <1>2, <1>4, <1>8, <2>4, <2>6, <3>1, <3>2, FollowMoves
    <3> QED
      BY <1>4, <1>8, <3>3, MoveTame
  <2> QED
    BY <2>5, <2>6
<1> QED
  BY <1>1, <1>5, <1>6, <1>7, <1>8, Known

LEMMA CrashTame ==
  ASSUME AgentsInv, TInv, [Next]_vars, Crash, Tame'
  PROVE  TInv'
<1>1. /\ tpc \in {"save", "run", "join", "rejoin", "asking"} /\ tpc' = "down" /\ crashes' = crashes + 1
      /\ UNCHANGED <<mode, phase, index, from, outputs, current, stored, begun, took>>
  BY DEF Crash
<1>2. ProgressInv'
  BY <1>1, ProgressKept DEF TInv, ProgressInv
<1>3. OnceInv'
  BY <1>1, Known DEF Tame, TInv, OnceInv
<1>4. ResumedInv' /\ PositionInv' /\ ResumedFollowerInv' /\ SuccessIsComplete'
  BY <1>1 DEF ResumedInv, PositionInv, ResumedFollowerInv, SuccessIsComplete
<1>5. QuestionInv'
  BY <1>1 DEF TInv, QuestionInv, Saves, Later
<1>6. BegunInv' /\ FeedInv'
  BY <1>1 DEF TInv, BegunInv, RunAgainNever, FeedInv, InputIsPredecessors, GoesOn
<1> QED
  BY <1>2, <1>3, <1>4, <1>5, <1>6 DEF TInv

LEMMA RestoreTame ==
  ASSUME AgentsInv, TInv, [Next]_vars, Restore
  PROVE  TInv'
<1>1. /\ tpc = "down" /\ tpc' \in {"interrupted", "asking"}
      /\ UNCHANGED <<mode, phase, index, from, outputs, current, stored, begun, took, crashes>>
  BY DEF Restore, history
<1>2. ProgressInv'
  BY <1>1, ProgressKept DEF TInv, ProgressInv
<1>3. OnceInv'
  BY <1>1 DEF TInv, OnceInv
<1>4. ResumedInv' /\ PositionInv' /\ ResumedFollowerInv' /\ SuccessIsComplete'
  BY <1>1 DEF ResumedInv, PositionInv, ResumedFollowerInv, SuccessIsComplete
<1>5. QuestionInv'
  BY <1>1 DEF TInv, QuestionInv, Saves, Later
<1>6. BegunInv' /\ FeedInv'
  BY <1>1 DEF TInv, BegunInv, RunAgainNever, FeedInv, InputIsPredecessors, GoesOn
<1> QED
  BY <1>2, <1>3, <1>4, <1>5, <1>6 DEF TInv

LEMMA ResumeTame ==
  ASSUME AgentsInv, TInv, [Next]_vars, Resume
  PROVE  TInv'
<1>1. /\ tpc = "asking" /\ tpc' = "rejoin" /\ from' = stored /\ current' = stored
      /\ phase' = stored.phase /\ index' = stored.index /\ outputs' = stored.outputs
      /\ UNCHANGED <<mode, stored, begun, took, crashes>>
  BY DEF Resume, OutputsOf, history
<1>2. stored # None /\ stored.asked # None /\ stored.asked = stored.who /\ stored \in Copies
  BY <1>1 DEF AgentsInv, IInv, ThereInv, CopiesInv, Good, Consistent, Copies
<1>3. mode # "parallel" => Saves
  BY <1>1, Known DEF TInv, OnceInv, Saves
<1>4. mode # "parallel" =>
        /\ Runs(phase', index') = {stored.asked}
        /\ \A a \in Later(phase', index', outputs') \ {stored.asked} : begun[a] = 0
        /\ mode = "leader_follower" /\ phase' # "leader_synthesis" => begun[Leader] <= 1
  BY <1>1, <1>2, <1>3 DEF TInv, QuestionInv
<1>5. ProgressInv'
  BY <1>1, <1>2, ProgressKept DEF TInv, ProgressInv
<1>6. OnceInv'
  BY <1>1 DEF TInv, OnceInv
<1>7. ResumedInv' /\ PositionInv'
  BY <1>1, <1>2, <1>4 DEF ResumedInv, PositionInv, AtPosition, Runs
<1>8. ResumedFollowerInv' /\ SuccessIsComplete'
  BY <1>1 DEF ResumedFollowerInv, SuccessIsComplete
<1>9. QuestionInv'
  BY <1>1, <1>3 DEF TInv, QuestionInv, Later, Saves
<1>10. BegunInv'
  <2>1. \A p, i, out : Later(p, i, out)' = Later(p, i, out)
    BY <1>1 DEF Later
  <2>2. Running' = Runs(phase', index') /\ (GoesOn' => mode # "parallel")
    BY <1>1 DEF Running, Runs, GoesOn
  <2> QED
    BY <1>1, <1>4, <2>1, <2>2 DEF TInv, BegunInv, RunAgainNever
<1>11. FeedInv'
  BY <1>1 DEF TInv, FeedInv, InputIsPredecessors
<1> QED
  BY <1>5, <1>6, <1>7, <1>8, <1>9, <1>10, <1>11 DEF TInv

LEMMA TameInductive == Spec => [](AgentsInv /\ (Tame => TInv))
<1>1. Init => AgentsInv
  BY InitAgents
<1>2. Init => TInv
  <2> SUFFICES ASSUME Init PROVE TInv
    OBVIOUS
  <2> USE DEF Init
  <2>1. ProgressInv
    BY DEF ProgressInv, Progress, Copies
  <2>2. OnceInv /\ ResumedInv /\ PositionInv /\ QuestionInv /\ ResumedFollowerInv /\ SuccessIsComplete
    BY DEF OnceInv, ResumedInv, PositionInv, QuestionInv, ResumedFollowerInv, SuccessIsComplete
  <2>3. BegunInv
    BY <1>1, Known DEF BegunInv, RunAgainNever, Later, Followers
  <2>4. FeedInv
    BY <1>1, Known DEF FeedInv, FeedIs, InputIsPredecessors
  <2> QED
    BY <2>1, <2>2, <2>3, <2>4 DEF TInv
<1>3. AgentsInv /\ (Tame => TInv) /\ [Next]_vars => (Tame => TInv)'
  <2> SUFFICES ASSUME AgentsInv, Tame => TInv, [Next]_vars, Tame' PROVE TInv'
    OBVIOUS
  <2>1. crashes <= crashes'
    <3>1. CASE UNCHANGED vars
      BY <3>1, Known DEF vars, history
    <3>2. CASE SavePosition \/ Begin \/ Pass \/ Join \/ Rejoin \/ Crash \/ Restore \/ Resume
      BY <3>2, Known DEF SavePosition, Begin, Pass, Join, Rejoin, Crash, Restore, Resume, history
    <3>3. ASSUME NEW a \in Names, Read(a) \/ Write(a) \/ Emit(a) \/ Saving(a) \/ Fail(a) PROVE crashes <= crashes'
      BY <3>3, Known DEF Read, Write, Emit, Saving, Work, ToolReturns, Answered, Finish, Save, Fail, history
    <3> QED
      BY <3>1, <3>2, <3>3, Cases
  <2>2. TInv
    <3>1. crashes' \in Nat
      BY <2>1, AgentsStep DEF AgentsInv, IInv, TypeOK
    <3> QED
      BY <2>1, <3>1, SameMode, Known DEF Tame
  <2>3. CASE UNCHANGED vars
    <3>1. PositionInv' /\ QuestionInv'
      BY <2>2, <2>3 DEF vars, team, agent, history, TInv, PositionInv, QuestionInv, Saves, AtPosition, Later
    <3> QED
      BY <2>2, <2>3, <3>1, QuietStep DEF vars
  <2> QED
    BY <2>2, <2>3, Cases, AgentTame, SaveTame, BeginTame, PassTame, JoinTame, RejoinTame,
       CrashTame, RestoreTame, ResumeTame
<1>4. AgentsInv /\ [Next]_vars => AgentsInv'
  BY AgentsStep
<1>5. (Tame => TInv) /\ AgentsInv <=> AgentsInv /\ (Tame => TInv)
  OBVIOUS
<1> QED
  BY <1>1, <1>2, <1>3, <1>4, PTL DEF Spec

\* No agent of a Team is run again after a crash: each member has one input, and
\* the leader two, however often a sequential or a parallel Team crashes.  A
\* leader/follower Team forgets at its second crash what the resumed agent gave it.
THEOREM NeverRunAgain == Spec => [](Tame => RunAgainNever)
<1>1. AgentsInv /\ (Tame => TInv) => (Tame => RunAgainNever)
  BY DEF TInv, BegunInv
<1> QED
  BY <1>1, TameInductive, PTL

\* An agent's input is what the one before it in the sequence produced, or the
\* plan of the leader, in whichever process it is run.
THEOREM InputFromPredecessor == Spec => [](Tame => InputIsPredecessors)
<1>1. AgentsInv /\ (Tame => TInv) => (Tame => InputIsPredecessors)
  BY DEF TInv, FeedInv
<1> QED
  BY <1>1, TameInductive, PTL

\* A Team that succeeds, resumed or not, has the output of every member.
THEOREM CompleteOnSuccess == Spec => [](Tame => SuccessIsComplete)
<1>1. AgentsInv /\ (Tame => TInv) => (Tame => SuccessIsComplete)
  BY DEF TInv
<1> QED
  BY <1>1, TameInductive, PTL
=============================================================================
