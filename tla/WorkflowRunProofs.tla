------------------------- MODULE WorkflowRunProofs --------------------------
(******************************************************************************)
(* Proofs about WorkflowRun, for every tree of nodes that Children and Path   *)
(* can describe, any number of crashes, iterations and checkpoints.           *)
(*                                                                            *)
(* Base adds to the types what is running: everything that runs is below the  *)
(* current top-level node, and all nodes above it are inside (RunInv); what   *)
(* may stand at the places of a node (KindInv), of an agent (AgentInv), of    *)
(* Run and of Resume; and that the question of a checkpoint is of the agent   *)
(* that it resumes (PlaceInv).  Four invariants rest on it:                   *)
(*                                                                            *)
(*   Asking      a checkpoint that asks leads to its step by the branches and *)
(*               loops that were chosen (Sound), in every copy: current,      *)
(*               stored, resumed or under way (GoodInv).  A step that has     *)
(*               executed a tool is held until it is over (SpentInv).  This   *)
(*               gives QuestionResumable and EffectsNotRepeatedInSequence.    *)
(*                                                                            *)
(*   Counting    what a loop has begun is bounded by what the checkpoint to   *)
(*               resume, the stored one and those under way count, and by     *)
(*               the repetitions of the crashes so far: LoopBounded.          *)
(*                                                                            *)
(*   Completing  no checkpoint knows a node as completed that the tracker     *)
(*               does not (KnownInv), and what the tracker knows is over      *)
(*               until Resume skips it (OnceInv): CompletedNotRepeated.       *)
(*                                                                            *)
(*   Keeping     the nodes above a stored question were entered with the      *)
(*               input of its checkpoint (KeptInv), because a question is     *)
(*               asked or merged while these nodes run (PlainInv): InputKept. *)
(******************************************************************************)
EXTENDS WorkflowRun, TLAPS

Above(n, m) == n # m /\ Below(n, m)

-----------------------------------------------------------------------------
(* The tree: a path leads to its last node, and its prefixes are the paths   *)
(* of the nodes on it.                                                       *)

LEMMA PathNodes ==
  ASSUME NEW n \in Nodes
  PROVE  /\ Path[n] \in Seq(Nodes) /\ Len(Path[n]) \in Nat \ {0}
         /\ Path[n][Len(Path[n])] = n
         /\ \A i \in 1..Len(Path[n]) : Path[n][i] \in Nodes
BY WorkflowAssumption

LEMMA Prefix ==
  ASSUME NEW n \in Nodes, NEW i \in 1..Len(Path[n])
  PROVE  /\ Path[n][i] \in Nodes /\ Len(Path[Path[n][i]]) = i
         /\ \A j \in 1..i : Path[Path[n][i]][j] = Path[n][j]
<1>1. \A m \in Nodes : \A j \in DOMAIN Path[m] : Path[Path[m][j]] = SubSeq(Path[m], 1, j)
  BY WorkflowAssumption
<1>2. Path[Path[n][i]] = SubSeq(Path[n], 1, i)
  BY <1>1, PathNodes
<1> QED
  BY <1>2, PathNodes

LEMMA OnPath ==
  ASSUME NEW m \in Nodes, NEW n
  PROVE  Below(n, m) <=> \E i \in 1..Len(Path[m]) : Path[m][i] = n
<1>1. Path[m] \in Seq(Nodes)
  BY WorkflowAssumption
<1>2. DOMAIN Path[m] = 1..Len(Path[m])
  BY <1>1
<1> QED
  BY <1>2 DEF Below

LEMMA BelowNode ==
  ASSUME NEW m \in Nodes, NEW n, Below(n, m)
  PROVE  n \in Nodes
BY PathNodes, OnPath

LEMMA BelowSelf == ASSUME NEW n \in Nodes PROVE Below(n, n)
BY PathNodes, OnPath

LEMMA BelowTransitive ==
  ASSUME NEW n \in Nodes, NEW m \in Nodes, NEW k \in Nodes, Below(n, m), Below(m, k)
  PROVE  Below(n, k)
<1>1. PICK i \in 1..Len(Path[k]) : Path[k][i] = m
  BY PathNodes, OnPath
<1>2. PICK j \in 1..Len(Path[m]) : Path[m][j] = n
  BY PathNodes, OnPath
<1>3. Len(Path[m]) = i /\ \A l \in 1..i : Path[m][l] = Path[k][l]
  BY <1>1, Prefix
<1>4. j \in 1..i /\ Path[k][j] = n
  BY <1>2, <1>3
<1>5. j \in 1..Len(Path[k])
  BY <1>4, PathNodes
<1> QED
  BY <1>4, <1>5, PathNodes, OnPath

LEMMA AtItsEnd ==
  ASSUME NEW n \in Nodes, NEW m \in Nodes, Below(n, m)
  PROVE  /\ Len(Path[n]) <= Len(Path[m])
         /\ Len(Path[n]) = Len(Path[m]) => n = m
<1>1. PICK i \in 1..Len(Path[m]) : Path[m][i] = n
  BY PathNodes, OnPath
<1> QED
  BY <1>1, Prefix, PathNodes

LEMMA Antisymmetric ==
  ASSUME NEW n \in Nodes, NEW m \in Nodes, Below(n, m), Below(m, n)
  PROVE  n = m
BY AtItsEnd, PathNodes

LEMMA Comparable ==
  ASSUME NEW n \in Nodes, NEW m \in Nodes, NEW k \in Nodes, Below(n, k), Below(m, k)
  PROVE  Below(n, m) \/ Below(m, n)
<1>1. PICK i \in 1..Len(Path[k]) : Path[k][i] = n
  BY PathNodes, OnPath
<1>2. PICK j \in 1..Len(Path[k]) : Path[k][j] = m
  BY PathNodes, OnPath
<1>3. CASE i <= j
  <2>1. i \in 1..Len(Path[m]) /\ Path[m][i] = n
    BY <1>1, <1>2, <1>3, Prefix
  <2> QED
    BY <2>1, PathNodes, OnPath
<1>4. CASE j <= i
  <2>1. j \in 1..Len(Path[n]) /\ Path[n][j] = m
    BY <1>1, <1>2, <1>4, Prefix
  <2> QED
    BY <2>1, PathNodes, OnPath
<1> QED
  BY <1>3, <1>4

LEMMA Appended ==
  ASSUME NEW s \in Seq(Nodes), NEW c \in Nodes
  PROVE  Len(Append(s, c)) = Len(s) + 1 /\ \A i \in 1..Len(s) : Append(s, c)[i] = s[i]
OBVIOUS

LEMMA ChildPath ==
  ASSUME NEW n \in Nodes, NEW c \in Nodes, IsChild(c, n)
  PROVE  /\ Len(Path[c]) = Len(Path[n]) + 1
         /\ \A i \in 1..Len(Path[n]) : Path[c][i] = Path[n][i]
<1>0. \A m \in Nodes : \A i \in DOMAIN Children[m] :
        Children[m][i] \in Nodes => Path[Children[m][i]] = Append(Path[m], Children[m][i])
  BY WorkflowAssumption
<1>1. Path[c] = Append(Path[n], c)
  BY <1>0 DEF IsChild
<1>2. Path[n] \in Seq(Nodes)
  BY PathNodes
<1> QED
  BY <1>1, <1>2, Appended

LEMMA ChildAbove ==
  ASSUME NEW n \in Nodes, NEW c \in Nodes, IsChild(c, n)
  PROVE  Above(n, c)
<1>1. Len(Path[c]) = Len(Path[n]) + 1 /\ \A i \in 1..Len(Path[n]) : Path[c][i] = Path[n][i]
  BY ChildPath
<1>2. Path[n][Len(Path[n])] = n /\ Len(Path[n]) \in Nat \ {0}
  BY PathNodes
<1>3. Path[c][Len(Path[n])] = n /\ Len(Path[n]) \in 1..Len(Path[c])
  BY <1>1, <1>2
<1>4. n # c
  BY <1>1, <1>2
<1> QED
  BY <1>3, <1>4, OnPath DEF Above

LEMMA AboveChild ==
  ASSUME NEW n \in Nodes, NEW c \in Nodes, NEW m \in Nodes, IsChild(c, n), Above(m, c)
  PROVE  Below(m, n)
<1>1. PICK i \in 1..Len(Path[c]) : Path[c][i] = m
  BY OnPath DEF Above
<1>2. i # Len(Path[c])
  BY <1>1, PathNodes DEF Above
<1>3. i \in 1..Len(Path[n]) /\ Path[n][i] = m
  BY <1>1, <1>2, ChildPath, PathNodes
<1> QED
  BY <1>3, OnPath

LEMMA ChildTowards ==
  ASSUME NEW n \in Nodes, NEW m \in Nodes, Above(n, m)
  PROVE  \E c \in Nodes : IsChild(c, n) /\ Below(c, m)
<1>1. PICK i \in 1..Len(Path[m]) : Path[m][i] = n
  BY OnPath DEF Above
<1>2. i \in 1..(Len(Path[m]) - 1)
  BY <1>1, PathNodes DEF Above
<1>3. PICK j \in DOMAIN Children[n] : Children[n][j] = Path[m][i + 1]
  BY <1>1, <1>2, WorkflowAssumption
<1>4. Path[m][i + 1] \in Nodes /\ i + 1 \in DOMAIN Path[m]
  BY <1>2, PathNodes
<1> QED
  BY <1>3, <1>4 DEF IsChild, Below

LEMMA OneChildTowards ==
  ASSUME NEW n \in Nodes, NEW m \in Nodes, NEW c \in Nodes, NEW d \in Nodes,
         IsChild(c, n), IsChild(d, n), Below(c, m), Below(d, m)
  PROVE  c = d
BY Comparable, AtItsEnd, ChildPath

LEMMA OneParent ==
  ASSUME NEW n \in Nodes, NEW m \in Nodes, NEW c \in Nodes, IsChild(c, n), IsChild(c, m)
  PROVE  n = m
<1>1. /\ Len(Path[c]) = Len(Path[n]) + 1
      /\ \A i \in 1..Len(Path[n]) : Path[c][i] = Path[n][i]
  BY ChildPath
<1>2. /\ Len(Path[c]) = Len(Path[m]) + 1
      /\ \A i \in 1..Len(Path[m]) : Path[c][i] = Path[m][i]
  BY ChildPath
<1>3. Len(Path[n]) \in Nat \ {0} /\ Len(Path[m]) \in Nat \ {0}
  BY PathNodes
<1>4. Len(Path[n]) = Len(Path[m])
  BY <1>1, <1>2, <1>3
<1>5. Path[n][Len(Path[n])] = Path[m][Len(Path[m])]
  BY <1>1, <1>2, <1>3, <1>4
<1> QED
  BY <1>4, <1>5, PathNodes

LEMMA OneTop ==
  ASSUME NEW w \in Workflows, NEW i \in DOMAIN w, NEW j \in DOMAIN w, NEW n \in Nodes,
         Below(w[i], n), Below(w[j], n)
  PROVE  i = j
<1>1. w \in Seq(Nodes) /\ IsInjective(w)
  BY WorkflowAssumption DEF ValidTaskMode
<1>2. w[i] \in Nodes /\ w[j] \in Nodes
  BY <1>1
<1>4. Path[w[i]] = <<w[i]>> /\ Path[w[j]] = <<w[j]>>
  BY WorkflowAssumption
<1>3. w[i] = w[j]
  BY <1>2, <1>4, Comparable, AtItsEnd
<1> QED
  BY <1>1, <1>3 DEF IsInjective

-----------------------------------------------------------------------------
(* Types of the data *)

PCs == {"idle", "called", "inside", "working", "tool", "asked", "ended",
        "complete", "snapshot", "register", "read", "write", "emit", "done", "failed"}

Goals == {"idle", "working", "tool", "asked", "ended", "done"}

LEMMA CheckpointFields ==
  ASSUME NEW cp \in Checkpoint
  PROVE  /\ cp # None
         /\ cp.next \in Nat \ {0} /\ cp.at \in Nodes \cup {None} /\ cp.cur \in Texts
         /\ cp.tracker \in Tracker
         /\ cp.question \in Steps \cup {None}
         /\ cp.agent # None =>
               /\ cp.agent.of \in Steps /\ cp.agent.state \in AgentCheckpoint
               /\ cp.agent = [of |-> cp.agent.of, state |-> cp.agent.state]
<1>1. cp # None
  BY NoneAssumption
<1> QED
  BY <1>1 DEF Checkpoint

LEMMA TrackerFields ==
  ASSUME NEW t \in Tracker
  PROVE  /\ t.loops \in [Loops -> 0..(MaxIter - 1) \cup {None}]
         /\ t.branches \in [Conditions -> BOOLEAN \cup {None}]
         /\ t.completed \in [Nodes -> Texts \cup {None}]
         /\ t.agents \in [Steps -> AgentCheckpoint \cup {None}]
BY DEF Tracker

LEMMA NewTyped == NewTracker \in Tracker /\ NewAgent \in AgentCheckpoint
BY DEF NewTracker, Tracker, NewAgent, AgentCheckpoint

LEMMA AgentFields ==
  ASSUME NEW a \in AgentCheckpoint
  PROVE  /\ a # None /\ a.work \in Nat /\ a.pending \in {"none", "tool", "ask"}
         /\ [a EXCEPT !.pending = "none"] \in AgentCheckpoint
         /\ [a EXCEPT !.pending = "none"].pending = "none"
BY NoneAssumption DEF AgentCheckpoint

LEMMA SavedAgentTyped ==
  ASSUME NEW cp \in Checkpoint, NEW s \in Steps
  PROVE  SavedAgent(cp, s) \in AgentCheckpoint
<1>1. /\ cp.tracker.agents[s] \in AgentCheckpoint \cup {None}
      /\ cp.agent # None => cp.agent.state \in AgentCheckpoint
  BY CheckpointFields, TrackerFields
<1> QED
  BY <1>1, NewTyped DEF SavedAgent

\* The tracker takes a new iteration, branch, text or agent.
LEMMA TrackerTakes ==
  ASSUME NEW t \in Tracker
  PROVE  /\ \A n \in Loops, i \in 0..(MaxIter - 1) : [t EXCEPT !.loops[n] = i] \in Tracker
         /\ \A n \in Conditions, b \in BOOLEAN : [t EXCEPT !.branches[n] = b] \in Tracker
         /\ \A n \in Nodes, text \in Texts : [t EXCEPT !.completed[n] = text] \in Tracker
         /\ \A n \in Steps, a \in AgentCheckpoint : [t EXCEPT !.agents[n] = a] \in Tracker
<1> USE DEF Tracker
<1>1. ASSUME NEW n \in Loops, NEW i \in 0..(MaxIter - 1)
      PROVE  [t EXCEPT !.loops[n] = i] \in Tracker
  OBVIOUS
<1>2. ASSUME NEW n \in Conditions, NEW b \in BOOLEAN
      PROVE  [t EXCEPT !.branches[n] = b] \in Tracker
  OBVIOUS
<1>3. ASSUME NEW n \in Nodes, NEW text \in Texts
      PROVE  [t EXCEPT !.completed[n] = text] \in Tracker
  OBVIOUS
<1>4. ASSUME NEW n \in Steps, NEW a \in AgentCheckpoint
      PROVE  [t EXCEPT !.agents[n] = a] \in Tracker
  OBVIOUS
<1> QED
  BY <1>1, <1>2, <1>3, <1>4

\* The checkpoint of an agent, once its state is in the copy of the tracker.
WithAgent(cp, s, a) == [cp EXCEPT !.tracker.agents[s] = a]

LEMMA WithAgentTyped ==
  ASSUME NEW cp \in Checkpoint, NEW s \in Steps, NEW a \in AgentCheckpoint
  PROVE  /\ WithAgent(cp, s, a) \in Checkpoint
         /\ WithAgent(cp, s, a).next = cp.next /\ WithAgent(cp, s, a).at = cp.at
         /\ WithAgent(cp, s, a).cur = cp.cur
         /\ WithAgent(cp, s, a).agent = cp.agent /\ WithAgent(cp, s, a).question = cp.question
         /\ WithAgent(cp, s, a).tracker.agents[s] = a
         /\ WithAgent(cp, s, a).tracker.loops = cp.tracker.loops
         /\ WithAgent(cp, s, a).tracker.branches = cp.tracker.branches
         /\ WithAgent(cp, s, a).tracker.completed = cp.tracker.completed
<1>1. cp.tracker \in Tracker
  BY CheckpointFields
<1>2. /\ WithAgent(cp, s, a).next = cp.next /\ WithAgent(cp, s, a).at = cp.at
      /\ WithAgent(cp, s, a).cur = cp.cur
      /\ WithAgent(cp, s, a).agent = cp.agent /\ WithAgent(cp, s, a).question = cp.question
      /\ WithAgent(cp, s, a).tracker = [cp.tracker EXCEPT !.agents[s] = a]
  BY DEF WithAgent, Checkpoint
<1>3. [cp.tracker EXCEPT !.agents[s] = a] \in Tracker
  BY <1>1, TrackerTakes
<1>4. WithAgent(cp, s, a) \in Checkpoint
  BY <1>3 DEF WithAgent, Checkpoint
<1> QED
  BY <1>1, <1>2, <1>4 DEF Tracker

LEMMA MergedFields ==
  ASSUME NEW previous \in Checkpoint \cup {None}, NEW new \in Checkpoint
  PROVE  /\ Merged(previous, new) \in Checkpoint
         /\ Merged(previous, new).next = new.next /\ Merged(previous, new).cur = new.cur
         /\ Merged(previous, new).tracker.loops = new.tracker.loops
         /\ Merged(previous, new).tracker.branches = new.tracker.branches
         /\ Merged(previous, new).tracker.completed = new.tracker.completed
         /\ ~KeepsQuestion(previous, new) => Merged(previous, new) = new
         /\ KeepsQuestion(previous, new) =>
              /\ previous \in Checkpoint
              /\ Merged(previous, new).question = previous.question
              /\ Merged(previous, new).agent = previous.agent
              /\ Merged(previous, new).at = previous.at
<1> DEFINE
      agents == [s \in Steps |-> IF new.tracker.agents[s] # None
                                 THEN new.tracker.agents[s] ELSE previous.tracker.agents[s]]
      m == [new EXCEPT !.agent = previous.agent, !.at = previous.at,
                       !.question = previous.question, !.tracker.agents = agents]
<1>1. CASE KeepsQuestion(previous, new)
  <2>1. previous \in Checkpoint
    BY <1>1 DEF KeepsQuestion
  <2>2. Merged(previous, new) = m
    BY <1>1 DEF Merged
  <2>3. previous.tracker \in Tracker /\ new.tracker \in Tracker
    BY <2>1, CheckpointFields
  <2>4. agents \in [Steps -> AgentCheckpoint \cup {None}]
    BY <2>3, TrackerFields
  <2> HIDE DEF agents
  <2>5. [new.tracker EXCEPT !.agents = agents] \in Tracker
    BY <2>3, <2>4 DEF Tracker
  <2>6. /\ m.next = new.next /\ m.cur = new.cur /\ m.question = previous.question
        /\ m.agent = previous.agent /\ m.at = previous.at
        /\ m.tracker = [new.tracker EXCEPT !.agents = agents]
    BY DEF Checkpoint
  <2>7. m \in Checkpoint
    BY <2>1, <2>5 DEF Checkpoint
  <2>8. /\ m.tracker.loops = new.tracker.loops /\ m.tracker.branches = new.tracker.branches
        /\ m.tracker.completed = new.tracker.completed
    BY <2>3, <2>6 DEF Tracker
  <2> QED
    BY <1>1, <2>1, <2>2, <2>6, <2>7, <2>8
<1>2. CASE ~KeepsQuestion(previous, new)
  BY <1>2 DEF Merged
<1> QED
  BY <1>1, <1>2

-----------------------------------------------------------------------------
(* The base of the invariant *)

Open == turn \in {"position", "node"}

Saving == {"snapshot", "register", "read", "write", "emit"}

Running(n) == pc[n] \notin {"idle", "done", "failed"}

\* What Resume has not reached, and may still resume.
Unreached(n) == pc[n] = "idle" \/ (pc[n] = "called" /\ mode[n] = "resume")

\* A node that runs is below the current top-level node, and those above it wait.
RunInv ==
    /\ turn = "node" => next <= Len(top)
    /\ \A n \in Nodes : Running(n) =>
          /\ up /\ turn = "node" /\ Below(top[next], n)
          /\ \A m \in Nodes : Above(m, n) => pc[m] = "inside"

KindOf(n) ==
    /\ pc[n] \in {"working", "tool", "asked", "ended", "register"} => n \in Steps
    /\ pc[n] = "inside" => n \notin Steps
    /\ pc[n] = "complete" => \E p \in Parallels : IsChild(n, p)
    /\ pc[n] \in Saving =>
          /\ save[n].to \in Goals \ {"idle"}
          /\ save[n].to # "done" => n \in Steps
          /\ save[n].to = "done" => \E p \in Parallels : IsChild(n, p)
    /\ pc[n] = "register" => save[n].to # "done"
    /\ pc[n] \in Saving \ {"snapshot"} => save[n].draft # None

KindInv == \A n \in Nodes : KindOf(n)

AgentOf(s) ==
    /\ pc[s] \in Saving /\ save[s].to # "done" => (agent[s].pending = "ask" <=> save[s].to = "asked")
    /\ pc[s] \in {"working", "ended"} => agent[s].pending = "none"
    /\ pc[s] \in Saving /\ save[s].to \in {"working", "ended"} => agent[s].pending = "none"

AgentInv == \A s \in Steps : AgentOf(s)

\* What a node waits for.
ControlInv ==
    /\ \A n \in Conditions : pc[n] = "inside" =>
        /\ tracker.branches[n] # None
        /\ Child(n, tracker.branches[n]) \in Nodes
        /\ \A c \in Nodes : IsChild(c, n) /\ Running(c) => c = Child(n, tracker.branches[n])
    /\ \A n \in Loops : pc[n] = "inside" => tracker.loops[n] # None

\* Where nodes run side by side, there is a parallel node above them.
SharedInv ==
    \A n, m \in Nodes : Running(n) /\ Running(m) =>
        Below(n, m) \/ Below(m, n) \/ \E p \in Parallels : Above(p, n) /\ Above(p, m)

IdleInv ==
    /\ \A n, m \in Nodes : Above(n, m) /\ Unreached(n) => pc[m] = "idle"
    /\ ~up => \A n \in Nodes : pc[n] = "idle"

\* What Resume has not reached is as in its checkpoint.
FromInv ==
    /\ resumed => from # None /\ from.question # None
    /\ up /\ Open /\ resumed => Valid(from)
    /\ \A n \in Nodes : mode[n] = "resume" => resumed
    /\ \A n \in Nodes : pc[n] = "called" /\ mode[n] = "resume" => Below(n, from.at)
    /\ \A n \in Nodes : up /\ Open /\ resumed /\ Unreached(n) =>
            /\ n \in Conditions => tracker.branches[n] = from.tracker.branches[n]
            /\ n \in Loops => tracker.loops[n] = from.tracker.loops[n]

\* A checkpoint is at a place of the workflow, and its question is at its end.
Placed(cp) == cp # None =>
    /\ cp.next <= Len(top) + 1
    /\ cp.question # None => /\ cp.at = cp.question
                             /\ cp.agent # None /\ cp.agent.of = cp.question
                             /\ cp.agent.state.pending = "ask"

PlaceInv ==
    /\ Placed(current) /\ Placed(stored) /\ Placed(from)
    /\ \A n \in Nodes : Placed(save[n].draft) /\ Placed(save[n].previous)

Base == TypeOK /\ RunInv /\ KindInv /\ AgentInv /\ ControlInv /\ SharedInv /\ IdleInv /\ FromInv /\ PlaceInv

LEMMA Shape ==
  /\ \A n \in Nodes : n \in Steps \/ n \in Conditions \/ n \in Loops \/ n \in Parallels
  /\ \A n \in Steps : n \in Nodes /\ n \notin Conditions /\ n \notin Loops /\ n \notin Parallels
  /\ \A n \in Conditions : n \in Nodes /\ n \notin Loops /\ n \notin Parallels
  /\ \A n \in Loops : n \in Nodes /\ n \notin Parallels
  /\ \A n \in Parallels : n \in Nodes
BY WorkflowAssumption DEF ValidTaskMode, Steps, Conditions, Loops, Parallels

LEMMA ChildrenShape ==
  /\ \A n \in Conditions, b \in BOOLEAN :
        /\ Child(n, b) \in Nodes \cup {None}
        /\ Child(n, b) \in Nodes => IsChild(Child(n, b), n)
  /\ \A n \in Loops : Body(n) \in Nodes /\ \A c \in Nodes : IsChild(c, n) <=> c = Body(n)
  /\ \A n \in Parallels : \A i \in DOMAIN Children[n] :
        Children[n][i] \in Nodes /\ IsChild(Children[n][i], n)
  /\ None \notin Nodes
<1>1. ValidTaskMode
  BY WorkflowAssumption
<1>2. \A n \in Nodes : Children[n] \in Seq(Nodes \cup {None})
  BY <1>1 DEF ValidTaskMode
<1>3. ASSUME NEW n \in Conditions, NEW b \in BOOLEAN
      PROVE  /\ Child(n, b) \in Nodes \cup {None}
             /\ Child(n, b) \in Nodes => IsChild(Child(n, b), n)
  <2>1. Len(Children[n]) = 2 /\ n \in Nodes
    BY <1>1 DEF ValidTaskMode, Conditions
  <2>2. 1 \in DOMAIN Children[n] /\ 2 \in DOMAIN Children[n]
    BY <2>1, <1>2
  <2> QED
    BY <1>2, <2>1, <2>2 DEF Child, IsChild
<1>4. ASSUME NEW n \in Loops
      PROVE  Body(n) \in Nodes /\ \A c \in Nodes : IsChild(c, n) <=> c = Body(n)
  <2>1. Len(Children[n]) = 1 /\ n \in Nodes /\ Children[n][1] # None
    BY <1>1 DEF ValidTaskMode, Loops
  <2>2. DOMAIN Children[n] = {1}
    BY <2>1, <1>2
  <2> QED
    BY <1>2, <2>1, <2>2 DEF Body, IsChild
<1>5. ASSUME NEW n \in Parallels, NEW i \in DOMAIN Children[n]
      PROVE  Children[n][i] \in Nodes /\ IsChild(Children[n][i], n)
  <2>1. n \in Nodes /\ None \notin ToSet(Children[n])
    BY <1>1 DEF ValidTaskMode, Parallels
  <2>2. Children[n][i] # None
    BY <2>1 DEF ToSet
  <2> QED
    BY <1>2, <2>1, <2>2 DEF IsChild
<1>6. None \notin Nodes
  BY <1>1 DEF ValidTaskMode
<1> QED
  BY <1>3, <1>4, <1>5, <1>6

LEMMA DraftFields ==
  ASSUME TypeOK, NEW n \in Nodes, OfAgent(n) => n \in Steps
  PROVE  /\ Draft(n) \in Checkpoint
         /\ Draft(n).next = next /\ Draft(n).at = n /\ Draft(n).cur = in[n]
         /\ Draft(n).tracker = tracker
         /\ OfAgent(n) => Draft(n).agent = [of |-> n, state |-> agent[n]]
         /\ ~OfAgent(n) => Draft(n).agent = None
         /\ Draft(n).question = IF OfAgent(n) /\ agent[n].pending = "ask" THEN n ELSE None
<1> DEFINE a == IF OfAgent(n) THEN [of |-> n, state |-> agent[n]] ELSE None
           q == IF OfAgent(n) /\ agent[n].pending = "ask" THEN n ELSE None
<1>1. next \in Nat \ {0} /\ in[n] \in Texts /\ tracker \in Tracker
  <2>1. top \in Seq(Nodes)
    BY WorkflowAssumption DEF TypeOK, ValidTaskMode
  <2> QED
    BY <2>1 DEF TypeOK
<1>2. a \in [of : Steps, state : AgentCheckpoint] \cup {None} /\ q \in Steps \cup {None}
  BY DEF TypeOK
<1>3. Draft(n) = [next |-> next, at |-> n, cur |-> in[n], tracker |-> tracker, agent |-> a, question |-> q]
  BY DEF Draft
<1> HIDE DEF a, q
<1>4. Draft(n) \in Checkpoint
  BY <1>1, <1>2, <1>3 DEF Checkpoint
<1> QED
  BY <1>3, <1>4 DEF a, q

LEMMA PositionFields ==
  ASSUME TypeOK
  PROVE  /\ PositionAt(next) \in Checkpoint
         /\ PositionAt(next).next = next /\ PositionAt(next).cur = cur
         /\ PositionAt(next).tracker = NewTracker
         /\ PositionAt(next).agent = None /\ PositionAt(next).question = None
<1>1. top \in Seq(Nodes) /\ Len(top) \in Nat
  BY WorkflowAssumption DEF TypeOK, ValidTaskMode
<1>2. next \in Nat \ {0} /\ (next <= Len(top) => top[next] \in Nodes) /\ cur \in Texts
  BY <1>1 DEF TypeOK
<1> QED
  BY <1>2, NewTyped DEF PositionAt, Checkpoint


LEMMA TopShape ==
  ASSUME TypeOK
  PROVE  /\ top \in Seq(Nodes) /\ Len(top) \in Nat
         /\ \A i \in 1..Len(top) : i \in DOMAIN top /\ top[i] \in Nodes
<1>1. top \in Workflows
  BY DEF TypeOK
<1>2. top \in Seq(Nodes)
  BY <1>1, WorkflowAssumption DEF ValidTaskMode
<1> QED
  BY <1>2

Save == [to : Goals, draft : Checkpoint \cup {None}, previous : Checkpoint \cup {None}]

LEMMA SavesTyped ==
  ASSUME TypeOK, NEW s \in Steps, NEW a \in AgentCheckpoint, NEW to \in Goals, Saves(s, a, to)
  PROVE  /\ pc' \in [Nodes -> PCs] /\ agent' \in [Steps -> AgentCheckpoint]
         /\ save' \in [Nodes -> Save]
  <1>1. /\ pc \in [Nodes -> PCs] /\ agent \in [Steps -> AgentCheckpoint]
        /\ save \in [Nodes -> Save]
    BY DEF TypeOK, PCs, Save, Goals
  <1>2. [NoSave EXCEPT !.to = to] \in Save
    BY DEF NoSave, Save
  <1> QED
    BY <1>1, <1>2 DEF Saves, PCs

LEMMA ReturnsTyped ==
  ASSUME TypeOK, NEW n \in Nodes, NEW text \in Texts, Returns(n, text)
  PROVE  pc' \in [Nodes -> PCs] /\ out' \in [Nodes -> Texts]
BY DEF TypeOK, Returns, PCs

LEMMA CallsTyped ==
  ASSUME TypeOK, NEW n \in Nodes, NEW cs, NEW m \in {"run", "resume"}, NEW text \in Texts,
         Calls(n, cs, m, text)
  PROVE  /\ pc' \in [Nodes -> PCs] /\ mode' \in [Nodes -> {"run", "resume"}]
         /\ in' \in [Nodes -> Texts] /\ out' \in [Nodes -> Texts]
BY DEF TypeOK, Calls, PCs

LEMMA FailsTyped ==
  ASSUME TypeOK, NEW n \in Nodes, Fails(n)
  PROVE  /\ pc' \in [Nodes -> PCs] /\ mode' \in [Nodes -> {"run", "resume"}]
         /\ in' \in [Nodes -> Texts] /\ out' \in [Nodes -> Texts]
BY DEF TypeOK, Fails, PCs

LEMMA IterateTyped ==
  ASSUME TypeOK, NEW n \in Loops, NEW i \in Nat, NEW text \in Texts, Iterate(n, i, text)
  PROVE  /\ pc' \in [Nodes -> PCs] /\ mode' \in [Nodes -> {"run", "resume"}]
         /\ in' \in [Nodes -> Texts] /\ out' \in [Nodes -> Texts]
         /\ iter' \in [Loops -> 0..MaxIter] /\ tracker' \in Tracker
         /\ turns' \in [Loops -> Nat]
<1>1. /\ MaxIter \in Nat /\ n \in Nodes
      /\ i < MaxIter => i \in 0..MaxIter /\ i \in 0..(MaxIter - 1)
  BY WorkflowAssumption, Shape
<1>2. /\ pc \in [Nodes -> PCs] /\ mode \in [Nodes -> {"run", "resume"}]
      /\ in \in [Nodes -> Texts] /\ out \in [Nodes -> Texts]
      /\ iter \in [Loops -> 0..MaxIter] /\ tracker \in Tracker /\ turns \in [Loops -> Nat]
  BY DEF TypeOK, PCs
<1>3. CASE Returns(n, text) /\ UNCHANGED <<mode, in, iter, tracker, turns>>
  BY <1>1, <1>2, <1>3, ReturnsTyped
<1>4. CASE Fails(n) /\ UNCHANGED <<iter, tracker, turns>>
  BY <1>1, <1>2, <1>4, FailsTyped
<1>5. CASE /\ i < MaxIter
           /\ Calls(n, {Body(n)}, "run", text)
           /\ iter' = [iter EXCEPT ![n] = i]
           /\ tracker' = IF mode[n] = "run" THEN [tracker EXCEPT !.loops[n] = i] ELSE tracker
           /\ turns' = [turns EXCEPT ![n] = (IF mode[n] = "run" /\ i = 0 THEN 0 ELSE @) + 1]
  <2>1. tracker' \in Tracker
    BY <1>1, <1>2, <1>5, TrackerTakes
  <2>2. turns' \in [Loops -> Nat]
    BY <1>2, <1>5
  <2>3. iter' \in [Loops -> 0..MaxIter]
    BY <1>1, <1>2, <1>5
  <2> QED
    BY <1>1, <1>5, <2>1, <2>2, <2>3, CallsTyped
<1> QED
  BY <1>3, <1>4, <1>5 DEF Iterate

LEMMA SavingTyped ==
  ASSUME TypeOK, UNCHANGED <<position, mode, in, out, iter, agent, history>>,
         pc' \in [Nodes -> PCs], tracker' \in Tracker, save' \in [Nodes -> Save],
         current' \in Checkpoint \cup {None}, stored' \in Checkpoint \cup {None}
  PROVE  TypeOK'
<1>1. /\ top' \in Workflows /\ up' \in BOOLEAN /\ resumed' \in BOOLEAN
      /\ turn' \in {"position", "node", "completed", "failed", "interrupted"}
      /\ from' \in Checkpoint \cup {None}
      /\ next' \in 1..(Len(top') + 1) /\ cur' \in Texts /\ crashes' \in 0..MaxCrashes[top']
  BY DEF TypeOK, position
<1>2. /\ mode' \in [Nodes -> {"run", "resume"}] /\ in' \in [Nodes -> Texts]
      /\ out' \in [Nodes -> Texts] /\ iter' \in [Loops -> 0..MaxIter]
      /\ agent' \in [Steps -> AgentCheckpoint]
      /\ spent' \in SUBSET Steps /\ turns' \in [Loops -> Nat] /\ given' \in [Nodes -> Texts]
  BY DEF TypeOK, history
<1> QED
  BY <1>1, <1>2 DEF TypeOK, PCs, Save, Goals

LEMMA TypeSaving ==
  ASSUME Base, NEW n \in Nodes, Snapshot(n) \/ Register(n) \/ Read(n) \/ Write(n) \/ Emit(n)
  PROVE  TypeOK'
<1>0. /\ TypeOK /\ KindOf(n) /\ pc \in [Nodes -> PCs] /\ save \in [Nodes -> Save]
      /\ current \in Checkpoint \cup {None} /\ stored \in Checkpoint \cup {None}
      /\ tracker \in Tracker /\ agent \in [Steps -> AgentCheckpoint]
  BY DEF Base, KindInv, TypeOK, PCs, Save, Goals
<1>1. UNCHANGED <<position, mode, in, out, iter, agent, history>>
  BY DEF Snapshot, Register, Read, Write, Emit
<1>2. CASE Snapshot(n)
  <2>1. OfAgent(n) => n \in Steps
    BY <1>0, <1>2 DEF KindOf, OfAgent, Saving, Snapshot
  <2>2. Draft(n) \in Checkpoint
    BY <1>0, <2>1, DraftFields
  <2>3. /\ pc' \in [Nodes -> PCs] /\ save' \in [Nodes -> Save]
        /\ tracker' = tracker /\ current' = current /\ stored' = stored
    BY <1>0, <1>2, <2>2 DEF Snapshot, PCs, Save
  <2> QED
    BY <1>0, <1>1, <2>3, SavingTyped
<1>3. CASE Register(n)
  <2>1. n \in Steps /\ save[n].draft \in Checkpoint
    BY <1>0, <1>3 DEF Register, KindOf, Saving, Save
  <2>2. /\ WithAgent(save[n].draft, n, agent[n]) \in Checkpoint
        /\ [tracker EXCEPT !.agents[n] = agent[n]] \in Tracker
    BY <1>0, <2>1, WithAgentTyped, TrackerTakes
  <2>3. save' = [save EXCEPT ![n] = [@ EXCEPT !.draft = WithAgent(save[n].draft, n, agent[n])]]
    BY <1>3 DEF Register, WithAgent
  <2>4. save' \in [Nodes -> Save]
    BY <1>0, <2>2, <2>3 DEF Save
  <2>5. pc' \in [Nodes -> PCs] /\ tracker' \in Tracker /\ current' = current /\ stored' = stored
    BY <1>0, <1>3, <2>2 DEF Register, PCs
  <2> QED
    BY <1>0, <1>1, <2>4, <2>5, SavingTyped
<1>4. CASE Read(n)
  <2>1. /\ pc' \in [Nodes -> PCs] /\ save' \in [Nodes -> Save]
        /\ tracker' = tracker /\ current' = current /\ stored' = stored
    BY <1>0, <1>4 DEF Read, PCs, Save
  <2> QED
    BY <1>0, <1>1, <2>1, SavingTyped
<1>5. CASE Write(n)
  <2>1. save[n].draft \in Checkpoint /\ save[n].previous \in Checkpoint \cup {None}
    BY <1>0, <1>5 DEF Write, KindOf, Saving, Save
  <2>2. Merged(save[n].previous, save[n].draft) \in Checkpoint
    BY <2>1, MergedFields
  <2>3. current' \in Checkpoint /\ tracker' = tracker /\ stored' = stored
    BY <1>5, <2>2 DEF Write
  <2>4. save' \in [Nodes -> Save]
    BY <1>0, <1>5, <2>2 DEF Write, Save
  <2>5. pc' \in [Nodes -> PCs]
    BY <1>0, <1>5 DEF Write, PCs
  <2> QED
    BY <1>0, <1>1, <2>3, <2>4, <2>5, SavingTyped
<1>6. CASE Emit(n)
  <2>1. NoSave \in Save /\ save[n].to \in Goals /\ save[n].draft \in Checkpoint \cup {None}
    BY <1>0 DEF NoSave, Save, Goals
  <2>2. save' \in [Nodes -> Save] /\ stored' \in Checkpoint \cup {None}
    BY <1>0, <1>6, <2>1 DEF Emit
  <2>3. pc' \in [Nodes -> PCs] /\ tracker' = tracker /\ current' = current
    BY <1>0, <1>6, <2>1 DEF Emit, PCs, Goals
  <2> QED
    BY <1>0, <1>1, <2>2, <2>3, SavingTyped
<1> QED
  BY <1>2, <1>3, <1>4, <1>5, <1>6

LEMMA TypeStep ==
  ASSUME Base, [Next]_vars
  PROVE  TypeOK'
<1> USE DEF TypeOK, position, node, saved, history, Base
<1>0. CASE UNCHANGED vars
  BY <1>0 DEF vars
<1>1. ASSUME NEW n \in Nodes,
             Snapshot(n) \/ Register(n) \/ Read(n) \/ Write(n) \/ Emit(n)
      PROVE  TypeOK'
  BY <1>1, TypeSaving
<1>6. ASSUME NEW n \in Nodes, Begin(n) \/ ToolReturns(n) \/ Answered(n) \/ Finish(n)
      PROVE  TypeOK'
  <2>1. CASE Begin(n)
    <3>1. n \in Steps /\ Saves(n, NewAgent, "working") /\ "working" \in Goals
      BY <2>1 DEF Begin, Goals
    <3>2. /\ pc' \in [Nodes -> PCs] /\ agent' \in [Steps -> AgentCheckpoint] /\ save' \in [Nodes -> Save]
      BY <3>1, NewTyped, SavesTyped
    <3> QED
      BY <2>1, <3>2 DEF Begin, PCs, Save, Goals
  <2>2. CASE ToolReturns(n) \/ Answered(n) \/ Finish(n)
    <3>1. n \in Steps
      BY <2>2 DEF ToolReturns, Answered, Finish
    <3>2. agent[n] \in AgentCheckpoint /\ [agent[n] EXCEPT !.pending = "none"] \in AgentCheckpoint
      BY <3>1, AgentFields
    <3>3. \/ Saves(n, [agent[n] EXCEPT !.pending = "none"], "working")
          \/ Saves(n, agent[n], "ended")
      BY <2>2 DEF ToolReturns, Answered, Finish
    <3>4. /\ pc' \in [Nodes -> PCs] /\ agent' \in [Steps -> AgentCheckpoint] /\ save' \in [Nodes -> Save]
      <4> HIDE DEF TypeOK
      <4> QED
        BY <3>1, <3>2, <3>3, SavesTyped DEF Goals
    <3> QED
      BY <2>2, <3>1, <3>4 DEF ToolReturns, Answered, Finish, PCs, Save, Goals
  <2> QED
    BY <1>6, <2>1, <2>2
<1>7. ASSUME NEW n \in Nodes, ResumeStep(n)
      PROVE  TypeOK'
  <2>1. from \in Checkpoint /\ n \in Steps
    BY <1>7 DEF ResumeStep, FromInv
  <2>2. SavedAgent(from, n) \in AgentCheckpoint
    BY <2>1, SavedAgentTyped
  <2>3. [SavedAgent(from, n) EXCEPT !.pending = "none"] \in AgentCheckpoint
    BY <2>2, AgentFields
  <2>4. CASE Saves(n, [SavedAgent(from, n) EXCEPT !.pending = "none"], "working")
    <3>1. /\ pc' \in [Nodes -> PCs] /\ agent' \in [Steps -> AgentCheckpoint] /\ save' \in [Nodes -> Save]
      <4> HIDE DEF TypeOK
      <4> QED
        BY <2>1, <2>3, <2>4, SavesTyped DEF Goals
    <3> QED
      BY <1>7, <3>1 DEF ResumeStep, PCs, Save, Goals
  <2>5. CASE pc' = [pc EXCEPT ![n] = "failed"] /\ UNCHANGED <<agent, save>>
    BY <1>7, <2>5 DEF ResumeStep
  <2> QED
    BY <1>7, <2>4, <2>5 DEF ResumeStep
<1>8. ASSUME NEW n \in Nodes, NEW kind \in {"tool", "ask"}, Work(n, kind)
      PROVE  TypeOK'
  <2>1. [work |-> agent[n].work + 1, pending |-> kind] \in AgentCheckpoint
    BY <1>8 DEF Work, AgentCheckpoint
  <2> QED
    BY <1>8, <2>1 DEF Work, Saves, NoSave
<1>9. ASSUME NEW n \in Nodes, Complete(n)
      PROVE  TypeOK'
  BY <1>9, TrackerTakes DEF Complete, NoSave
<1>10. ASSUME NEW n \in Nodes, StepReturns(n) \/ StepFails(n)
       PROVE  TypeOK'
  <2>1. CASE StepReturns(n)
    <3>1. {n} \in Texts /\ Returns(n, {n})
      BY <2>1 DEF StepReturns, Texts
    <3> QED
      BY <2>1, <3>1, ReturnsTyped DEF StepReturns, PCs
  <2>2. CASE StepFails(n)
    BY <2>2 DEF StepFails
  <2> QED
    BY <1>10, <2>1, <2>2
<1>11. ASSUME NEW n \in Nodes, Decide(n)
       PROVE  TypeOK'
  <2>1. n \in Conditions /\ in[n] \in Texts
    BY <1>11 DEF Decide
  <2>2. /\ pc' \in [Nodes -> PCs] /\ mode' \in [Nodes -> {"run", "resume"}]
        /\ in' \in [Nodes -> Texts] /\ out' \in [Nodes -> Texts]
    BY <1>11, <2>1, ReturnsTyped, CallsTyped, FailsTyped DEF Decide
  <2>3. tracker' \in Tracker
    <3>1. tracker \in Tracker /\ (tracker' = tracker \/ \E branch \in BOOLEAN : tracker' = [tracker EXCEPT !.branches[n] = branch])
      BY <1>11 DEF Decide
    <3> HIDE DEF TypeOK, Base
    <3> QED
      BY <2>1, <3>1, TrackerTakes
  <2> QED
    BY <1>11, <2>2, <2>3 DEF Decide, Entered, PCs
<1>12. ASSUME NEW n \in Nodes, ResumeBranch(n)
       PROVE  TypeOK'
  <2>1. /\ pc' \in [Nodes -> PCs] /\ mode' \in [Nodes -> {"run", "resume"}]
        /\ in' \in [Nodes -> Texts] /\ out' \in [Nodes -> Texts]
    BY <1>12, ReturnsTyped, CallsTyped, FailsTyped DEF ResumeBranch
  <2> QED
    BY <1>12, <2>1 DEF ResumeBranch, PCs
<1>13. ASSUME NEW n \in Nodes, BranchReturns(n)
       PROVE  TypeOK'
  <2>1. Child(n, tracker.branches[n]) \in Nodes
    BY <1>13 DEF BranchReturns, ControlInv
  <2>2. pc' \in [Nodes -> PCs] /\ out' \in [Nodes -> Texts]
    BY <1>13, <2>1, ReturnsTyped DEF BranchReturns, PCs
  <2> QED
    BY <1>13, <2>2 DEF BranchReturns, PCs
<1>15. ASSUME NEW n \in Nodes, EnterLoop(n)
       PROVE  TypeOK'
  <2>1. Iterate(n, 0, in[n]) /\ n \in Loops
    BY <1>15 DEF EnterLoop
  <2> QED
    BY <1>15, <2>1, IterateTyped DEF EnterLoop, Entered, PCs
<1>16. ASSUME NEW n \in Nodes, BodyReturns(n)
       PROVE  TypeOK'
  <2>1. n \in Loops /\ iter[n] \in 0..MaxIter
    BY <1>16 DEF BodyReturns
  <2>4. Body(n) \in Nodes /\ iter[n] + 1 \in Nat
    BY <2>1, ChildrenShape
  <2>2. CASE Iterate(n, iter[n] + 1, out[Body(n)])
    BY <1>16, <2>1, <2>2, <2>4, IterateTyped DEF BodyReturns, PCs
  <2>3. CASE Fails(n) /\ UNCHANGED <<iter, tracker, turns>>
    BY <1>16, <2>3 DEF BodyReturns, Fails
  <2> QED
    BY <1>16, <2>2, <2>3 DEF BodyReturns
<1>17. ASSUME NEW n \in Nodes, ResumeLoop(n)
       PROVE  TypeOK'
  <2>1. from \in Checkpoint /\ n \in Loops
    BY <1>17 DEF ResumeLoop, FromInv
  <2>2. from.tracker.loops[n] # None => from.tracker.loops[n] \in 0..MaxIter
    <3>1. from.tracker.loops \in [Loops -> 0..(MaxIter - 1) \cup {None}]
      BY <2>1, CheckpointFields, TrackerFields
    <3>2. from.tracker.loops[n] \in 0..(MaxIter - 1) \cup {None}
      BY <2>1, <3>1
    <3> QED
      <4>1. MaxIter \in Nat
        BY WorkflowAssumption
      <4> HIDE DEF TypeOK, Base
      <4> QED
        BY <3>2, <4>1
  <2>3. /\ pc' \in [Nodes -> PCs] /\ mode' \in [Nodes -> {"run", "resume"}]
        /\ in' \in [Nodes -> Texts] /\ out' \in [Nodes -> Texts]
    BY <1>17, CallsTyped, FailsTyped DEF ResumeLoop
  <2> QED
    BY <1>17, <2>1, <2>2, <2>3 DEF ResumeLoop, ResumedAt, PCs
<1>18. ASSUME NEW n \in Nodes, Fork(n)
       PROVE  TypeOK'
  BY <1>18 DEF Fork, Calls, Entered
<1>19. ASSUME NEW n \in Nodes, ResumeParallel(n)
       PROVE  TypeOK'
  <2>1. from \in Checkpoint
    BY <1>19 DEF ResumeParallel, FromInv
  <2>2. from.tracker.completed \in [Nodes -> Texts \cup {None}]
    BY <2>1, CheckpointFields, TrackerFields
  <2> QED
    <3>1. n \in Parallels
      BY <1>19 DEF ResumeParallel
    <3>2. PICK i \in DOMAIN Children[n] :
             LET c == Children[n][i] IN
             IF WasCompleted(c)
             THEN /\ pc' = [pc EXCEPT ![n] = "inside", ![c] = "done"]
                  /\ out' = [out EXCEPT ![c] = from.tracker.completed[c]]
                  /\ UNCHANGED <<mode, in>>
             ELSE Calls(n, {c}, IF Below(c, from.at) THEN "resume" ELSE "run", in[n])
      BY <1>19 DEF ResumeParallel
    <3> DEFINE c == Children[n][i]
    <3>3. c \in Nodes
      BY <3>1, ChildrenShape
    <3>4. CASE WasCompleted(c)
      BY <1>19, <2>2, <3>2, <3>3, <3>4 DEF ResumeParallel, WasCompleted
    <3>5. CASE ~WasCompleted(c)
      <4>1. /\ pc' \in [Nodes -> PCs] /\ mode' \in [Nodes -> {"run", "resume"}]
            /\ in' \in [Nodes -> Texts] /\ out' \in [Nodes -> Texts]
        BY <3>2, <3>5, CallsTyped
      <4> QED
        BY <1>19, <4>1 DEF ResumeParallel, PCs
    <3> QED
      BY <3>4, <3>5
<1>20. ASSUME NEW n \in Nodes, Join(n)
       PROVE  TypeOK'
  <2>1. Joined(n) \in Texts
    BY DEF Joined, Texts, ChildrenOf
  <2> QED
    BY <1>20, <2>1 DEF Join, Returns
<1>21. CASE SavePosition
  <2>1. Merged(current, PositionAt(next)) \in Checkpoint
    BY PositionFields, MergedFields
  <2> QED
    BY <1>21, <2>1, TopShape DEF SavePosition, Calls
<1>22. CASE ResumeCompletes \/ Interrupt
  BY <1>22 DEF ResumeCompletes, Interrupt
<1>23. CASE NodeReturns
  BY <1>23, TopShape DEF NodeReturns, RunInv
<1>24. CASE Crash
  <2>1. crashes + 1 \in 0..MaxCrashes[top]
    BY <1>24, WorkflowAssumption DEF Crash
  <2> QED
    <3>1. 0 \in 0..MaxIter /\ {} \in Texts
      BY WorkflowAssumption DEF Texts
    <3> QED
      BY <1>24, <2>1, <3>1, NewTyped DEF Crash, NoSave
<1>25. CASE Resume
  <2>1. stored \in Checkpoint
    BY <1>25 DEF Resume, QuestionOf
  <2>2. stored.next \in 1..(Len(top) + 1) /\ stored.cur \in Texts /\ stored.tracker \in Tracker
    <3>1. stored.next <= Len(top) + 1
      BY <2>1, CheckpointFields DEF PlaceInv, Placed
    <3>2. Len(top) \in Nat
      BY TopShape
    <3>3. stored.next \in Nat \ {0} /\ stored.cur \in Texts /\ stored.tracker \in Tracker
      BY <2>1, CheckpointFields
    <3> HIDE DEF TypeOK, Base
    <3> QED
      BY <3>1, <3>2, <3>3
  <2>3. CASE Valid(stored)
    <3>1. /\ turn' = "node" /\ tracker' = stored.tracker
          /\ Calls(top[stored.next], {top[stored.next]}, "resume", stored.cur)
      BY <1>25, <2>3 DEF Resume
    <3>2. /\ pc' \in [Nodes -> PCs] /\ mode' \in [Nodes -> {"run", "resume"}]
          /\ in' \in [Nodes -> Texts] /\ out' \in [Nodes -> Texts]
      BY <3>1, <2>2 DEF Calls, PCs
    <3>3. /\ up' \in BOOLEAN /\ resumed' \in BOOLEAN /\ from' \in Checkpoint \cup {None}
          /\ next' \in 1..(Len(top) + 1) /\ cur' \in Texts
          /\ tracker' \in Tracker /\ current' \in Checkpoint \cup {None}
      BY <1>25, <2>1, <2>2, <3>1 DEF Resume
    <3>4. UNCHANGED <<top, crashes, iter, agent, save, stored, history>>
      BY <1>25 DEF Resume
    <3> QED
      BY <3>1, <3>2, <3>3, <3>4 DEF history, PCs
  <2>4. CASE ~Valid(stored)
    <3>1. /\ turn' = "failed" /\ up' \in BOOLEAN /\ resumed' \in BOOLEAN /\ from' \in Checkpoint \cup {None}
          /\ next' \in 1..(Len(top) + 1) /\ cur' \in Texts /\ current' \in Checkpoint \cup {None}
      BY <1>25, <2>1, <2>2, <2>4 DEF Resume
    <3>2. UNCHANGED <<tracker, pc, mode, in, out, top, crashes, iter, agent, save, stored, history>>
      BY <1>25, <2>4 DEF Resume
    <3> QED
      BY <3>1, <3>2 DEF history
  <2> QED
    BY <2>3, <2>4
<1> QED
  BY <1>0, <1>1, <1>6, <1>7, <1>8, <1>9, <1>10, <1>11, <1>12, <1>13, <1>15,
     <1>16, <1>17, <1>18, <1>19, <1>20, <1>21, <1>22, <1>23, <1>24, <1>25
  DEF Next, Run, Step, Control

-----------------------------------------------------------------------------
(* The forms of a step of a node *)

\* Nothing runs below node n.
Quiet(n) == \A m \in Nodes : Above(n, m) => ~Running(m)

\* Node n goes on, returns or fails.
Goes(n) ==
    /\ up /\ Running(n) /\ Quiet(n)
    /\ \E x \in PCs \ {"idle", "called", "inside"} : pc' = [pc EXCEPT ![n] = x]
    /\ UNCHANGED <<position, mode, in>>

\* Node n calls children below which nothing runs.
Calling(n, cs, m) ==
    /\ up /\ pc[n] \in {"called", "inside"} /\ n \notin Steps
    /\ \E text : Calls(n, cs, m, text)
    /\ \A c \in cs : IsChild(c, n)
    /\ \A c \in cs : \A k \in Nodes : Below(c, k) => ~Running(k)
    /\ n \in Parallels \/ (Quiet(n) /\ \E c \in Nodes : cs = {c})
    /\ m = "resume" => /\ resumed /\ mode[n] = "resume"
                       /\ \A c \in cs : pc[c] = "idle" /\ Below(c, from.at)
    /\ UNCHANGED position

\* Resume takes over a completed child.
Skips(n, c) ==
    /\ up /\ pc[n] \in {"called", "inside"} /\ n \in Parallels /\ mode[n] = "resume"
    /\ IsChild(c, n) /\ pc[c] = "idle" /\ WasCompleted(c)
    /\ pc' = [pc EXCEPT ![n] = "inside", ![c] = "done"]
    /\ out' = [out EXCEPT ![c] = from.tracker.completed[c]]
    /\ UNCHANGED <<position, mode, in, iter, tracker, agent, saved, history>>

NodeStep(n) == Step(n) \/ Answered(n) \/ StepFails(n) \/ Control(n)

Forms(n) ==
    \/ Goes(n)
    \/ \E cs \in SUBSET Nodes, m \in {"run", "resume"} : Calling(n, cs, m)
    \/ \E c \in Nodes : Skips(n, c)

LEMMA QuietCases ==
  ASSUME RunInv, ControlInv, NEW n \in Nodes,
         \/ pc[n] # "inside"
         \/ n \in Conditions /\ ~Running(Child(n, tracker.branches[n]))
         \/ n \in Loops /\ ~Running(Body(n))
         \/ n \in Parallels /\ \A c \in ChildrenOf(n) : ~Running(c)
  PROVE  Quiet(n)
<1> SUFFICES ASSUME NEW m \in Nodes, Above(n, m), Running(m)
             PROVE  FALSE
  BY DEF Quiet
<1>1. pc[n] = "inside"
  BY DEF RunInv
<1>2. PICK c \in Nodes : IsChild(c, n) /\ Below(c, m)
  BY ChildTowards
<1>3. Running(c)
  <2>1. c = m \/ pc[c] = "inside"
    BY <1>2 DEF RunInv, Above
  <2> QED
    BY <2>1 DEF Running
<1>4. CASE n \in Conditions
  BY <1>1, <1>2, <1>3, <1>4, Shape DEF ControlInv
<1>5. CASE n \in Loops
  BY <1>1, <1>2, <1>3, <1>5, Shape, ChildrenShape
<1>6. CASE n \in Parallels
  BY <1>1, <1>2, <1>3, <1>6, Shape DEF ChildrenOf
<1> QED
  BY <1>1, <1>4, <1>5, <1>6

\* Nothing runs below a child of a node below which nothing runs, or that does
\* not wait.
LEMMA QuietBelow ==
  ASSUME RunInv, NEW n \in Nodes, Quiet(n), NEW c \in Nodes, IsChild(c, n)
  PROVE  \A k \in Nodes : Below(c, k) => ~Running(k)
<1> SUFFICES ASSUME NEW k \in Nodes, Below(c, k), Running(k) PROVE FALSE
  OBVIOUS
<1>1. Below(n, c) /\ n # c
  BY ChildAbove DEF Above
<1>2. Below(n, k)
  BY <1>1, BelowTransitive
<1>3. n # k
  BY <1>1, Antisymmetric
<1> QED
  BY <1>2, <1>3 DEF Quiet, Above

LEMMA GoesLocally ==
  ASSUME Base, NEW n \in Nodes,
         Snapshot(n) \/ Register(n) \/ Read(n) \/ Write(n) \/ Emit(n) \/ Complete(n) \/ Begin(n)
           \/ ResumeStep(n) \/ ToolReturns(n) \/ Finish(n) \/ StepReturns(n) \/ Answered(n) \/ StepFails(n)
           \/ \E kind \in {"tool", "ask"} : Work(n, kind)
  PROVE  Goes(n)
<1>1. up /\ Running(n) /\ pc[n] # "inside"
  BY DEF Snapshot, Register, Read, Write, Emit, Complete, Begin, ResumeStep, ToolReturns, Finish,
         StepReturns, Answered, StepFails, Work, Running
<1>2. Quiet(n)
  BY <1>1, QuietCases DEF Base
<1>3. \E x \in PCs \ {"idle", "called", "inside"} : pc' = [pc EXCEPT ![n] = x]
  <2>1. CASE Emit(n)
    BY <2>1 DEF Emit, KindInv, KindOf, Goals, Base, Saving, PCs
  <2>2. CASE Snapshot(n) \/ Register(n) \/ Read(n) \/ Write(n) \/ Complete(n)
    BY <2>2 DEF Snapshot, Register, Read, Write, Complete, PCs
  <2>3. CASE StepReturns(n) \/ StepFails(n)
    BY <2>3 DEF StepReturns, StepFails, Returns, PCs
  <2>4. CASE Begin(n) \/ ResumeStep(n) \/ ToolReturns(n) \/ Finish(n) \/ Answered(n)
    BY <2>4 DEF Begin, ResumeStep, ToolReturns, Finish, Answered, Saves, PCs
  <2>5. CASE \E kind \in {"tool", "ask"} : Work(n, kind)
    BY <2>5 DEF Work, Saves, PCs
  <2> QED
    BY <2>1, <2>2, <2>3, <2>4, <2>5
<1>4. UNCHANGED <<position, mode, in>>
  BY DEF Snapshot, Register, Read, Write, Emit, Complete, Begin, ResumeStep, ToolReturns, Finish,
         StepReturns, Answered, StepFails, Work
<1> QED
  BY <1>1, <1>2, <1>3, <1>4 DEF Goes

LEMMA CallsQuietly ==
  ASSUME Base, NEW n \in Nodes, NEW cs \in SUBSET Nodes, NEW m \in {"run", "resume"}, NEW text,
         up, pc[n] \in {"called", "inside"}, n \notin Steps, Quiet(n), Calls(n, cs, m, text),
         \A c \in cs : IsChild(c, n), n \in Parallels \/ \E c \in Nodes : cs = {c},
         m = "resume" => pc[n] = "called" /\ mode[n] = "resume" /\ \A c \in cs : Below(c, from.at),
         UNCHANGED position
  PROVE  Calling(n, cs, m)
<1>1. \A c \in cs : \A k \in Nodes : Below(c, k) => ~Running(k)
  BY QuietBelow DEF Base
<1>2. m = "resume" => resumed /\ \A c \in cs : pc[c] = "idle"
  BY ChildAbove DEF Base, FromInv, IdleInv, Unreached
<1> QED
  BY <1>1, <1>2 DEF Calling

LEMMA ReturnsGoes ==
  ASSUME NEW n, NEW text, Returns(n, text), UNCHANGED <<position, mode, in>>, up, Running(n), Quiet(n)
  PROVE  Goes(n)
<1>1. pc' = [pc EXCEPT ![n] = "complete"] \/ pc' = [pc EXCEPT ![n] = "done"]
  BY DEF Returns
<1> QED
  BY <1>1 DEF Goes, PCs

LEMMA IterateForms ==
  ASSUME Base, NEW n \in Loops, NEW i, NEW text, Iterate(n, i, text), UNCHANGED position,
         up, pc[n] \in {"called", "inside"}, Quiet(n)
  PROVE  Goes(n) \/ Calling(n, {Body(n)}, "run")
<1>1. n \in Nodes /\ n \notin Steps /\ Body(n) \in Nodes /\ IsChild(Body(n), n) /\ Running(n)
  BY Shape, ChildrenShape DEF Running
<1>2. CASE Returns(n, text) /\ UNCHANGED <<mode, in>>
  BY <1>1, <1>2, ReturnsGoes
<1>3. CASE Fails(n)
  BY <1>1, <1>3 DEF Fails, Goes, PCs
<1>4. CASE Calls(n, {Body(n)}, "run", text)
  BY <1>1, <1>4, CallsQuietly
<1> QED
  BY <1>2, <1>3, <1>4 DEF Iterate

\* The child of a node that is resumed by which Resume goes on.
LEMMA OnTheWay ==
  ASSUME Base, NEW n \in Nodes, pc[n] = "called", mode[n] = "resume", n \notin Steps
  PROVE  /\ Above(n, from.at) /\ from.at \in Steps
         /\ \E c \in Nodes : IsChild(c, n) /\ Below(c, from.at)
<1>1. resumed /\ from \in Checkpoint /\ from.question # None /\ Below(n, from.at)
  BY DEF Base, FromInv, TypeOK
<1>2. from.at \in Steps
  BY <1>1, CheckpointFields DEF Base, PlaceInv, Placed
<1> QED
  BY <1>1, <1>2, Shape, ChildTowards DEF Above

LEMMA NodeForms ==
  ASSUME Base, NEW n \in Nodes, NodeStep(n)
  PROVE  Forms(n)
<1>1. CASE Step(n) \/ Answered(n) \/ StepFails(n)
  BY <1>1, GoesLocally DEF Step, Forms
<1>2. CASE Decide(n)
  <2>1. up /\ n \in Conditions /\ n \notin Steps /\ pc[n] = "called" /\ Running(n)
    BY <1>2, Shape DEF Decide, Running
  <2>2. Quiet(n) /\ UNCHANGED position
    BY <1>2, <2>1, QuietCases DEF Base, Decide
  <2>3. CASE Fails(n) \/ (Returns(n, in[n]) /\ UNCHANGED <<mode, in>>)
    BY <2>1, <2>2, <2>3 DEF Fails, Returns, Forms, Goes, PCs
  <2>4. ASSUME NEW branch \in BOOLEAN, Child(n, branch) # None, Calls(n, {Child(n, branch)}, "run", in[n])
        PROVE  Forms(n)
    <3>1. Child(n, branch) \in Nodes /\ IsChild(Child(n, branch), n)
      BY <2>1, <2>4, ChildrenShape
    <3>2. Calling(n, {Child(n, branch)}, "run")
      BY <2>1, <2>2, <2>4, <3>1, CallsQuietly
    <3> QED
      BY <3>1, <3>2 DEF Forms
  <2> QED
    BY <1>2, <2>3, <2>4 DEF Decide
<1>3. CASE ResumeBranch(n)
  <2>1. up /\ n \in Conditions /\ n \notin Steps /\ pc[n] = "called" /\ mode[n] = "resume" /\ Running(n)
    BY <1>3, Shape DEF ResumeBranch, Running
  <2>2. Quiet(n) /\ UNCHANGED position
    BY <1>3, <2>1, QuietCases DEF Base, ResumeBranch
  <2>3. CASE Fails(n) \/ (Returns(n, in[n]) /\ UNCHANGED <<mode, in>>)
    BY <2>1, <2>2, <2>3 DEF Fails, Returns, Forms, Goes, PCs
  <2> DEFINE c == Child(n, from.tracker.branches[n])
  <2>4. CASE from.tracker.branches[n] # None /\ c # None /\ Below(c, from.at) /\ Calls(n, {c}, "resume", in[n])
    <3>1. c \in Nodes /\ IsChild(c, n)
      <4>1. from \in Checkpoint
        BY <2>1 DEF Base, FromInv, TypeOK
      <4>3. from.tracker.branches \in [Conditions -> BOOLEAN \cup {None}]
        BY <4>1, CheckpointFields, TrackerFields
      <4>2. from.tracker.branches[n] \in BOOLEAN
        BY <2>1, <2>4, <4>3
      <4> QED
        BY <2>1, <2>4, <4>2, ChildrenShape
    <3>2. Calling(n, {c}, "resume")
      BY <2>1, <2>2, <2>4, <3>1, CallsQuietly
    <3> QED
      BY <3>1, <3>2 DEF Forms
  <2> QED
    BY <1>3, <2>3, <2>4 DEF ResumeBranch
<1>4. CASE BranchReturns(n)
  <2>1. up /\ n \in Conditions /\ pc[n] = "inside" /\ Running(n) /\ UNCHANGED <<position, mode, in>>
    BY <1>4 DEF BranchReturns, Running
  <2>2. ~Running(Child(n, tracker.branches[n]))
    BY <1>4 DEF BranchReturns, Running
  <2>3. Quiet(n)
    BY <2>1, <2>2, QuietCases DEF Base
  <2> QED
    BY <1>4, <2>1, <2>3 DEF BranchReturns, Returns, Forms, Goes, PCs
<1>5. CASE EnterLoop(n) \/ BodyReturns(n)
  <2>1. up /\ n \in Loops /\ pc[n] \in {"called", "inside"} /\ UNCHANGED position
    BY <1>5 DEF EnterLoop, BodyReturns
  <2>2. Quiet(n)
    BY <1>5, QuietCases DEF Base, EnterLoop, BodyReturns, Running
  <2>3. CASE Fails(n)
    BY <2>1, <2>2, <2>3 DEF Fails, Forms, Goes, PCs, Running
  <2>4. CASE \E i, text : Iterate(n, i, text)
    <3>1. Goes(n) \/ Calling(n, {Body(n)}, "run")
      BY <2>1, <2>2, <2>4, IterateForms
    <3> QED
      BY <2>1, <3>1, ChildrenShape DEF Forms
  <2> QED
    BY <1>5, <2>3, <2>4 DEF EnterLoop, BodyReturns
<1>6. CASE ResumeLoop(n)
  <2>1. up /\ n \in Loops /\ n \notin Steps /\ pc[n] = "called" /\ mode[n] = "resume" /\ UNCHANGED position
    BY <1>6, Shape DEF ResumeLoop
  <2>2. Quiet(n)
    BY <2>1, QuietCases DEF Base
  <2>3. CASE Fails(n)
    BY <2>1, <2>2, <2>3 DEF Fails, Forms, Goes, PCs, Running
  <2>4. CASE Calls(n, {Body(n)}, "resume", in[n])
    <3>1. Body(n) \in Nodes /\ IsChild(Body(n), n) /\ Below(Body(n), from.at)
      BY <2>1, OnTheWay, ChildrenShape
    <3>2. Calling(n, {Body(n)}, "resume")
      BY <2>1, <2>2, <2>4, <3>1, CallsQuietly
    <3> QED
      BY <3>1, <3>2 DEF Forms
  <2> QED
    BY <1>6, <2>3, <2>4 DEF ResumeLoop
<1>7. CASE Fork(n)
  <2>1. up /\ n \in Parallels /\ n \notin Steps /\ pc[n] = "called" /\ UNCHANGED position
    BY <1>7, Shape DEF Fork
  <2>2. Quiet(n)
    BY <2>1, QuietCases DEF Base
  <2>3. Calls(n, ChildrenOf(n), "run", in[n])
    BY <1>7 DEF Fork
  <2>4. ChildrenOf(n) \in SUBSET Nodes /\ \A c \in ChildrenOf(n) : IsChild(c, n)
    BY DEF ChildrenOf
  <2>5. Calling(n, ChildrenOf(n), "run")
    BY <2>1, <2>2, <2>3, <2>4, CallsQuietly
  <2> QED
    BY <2>4, <2>5 DEF Forms
<1>8. CASE ResumeParallel(n)
  <2>1. up /\ n \in Parallels /\ n \notin Steps /\ pc[n] \in {"called", "inside"} /\ mode[n] = "resume"
        /\ UNCHANGED position
    BY <1>8, Shape DEF ResumeParallel
  <2>2. PICK i \in DOMAIN Children[n] :
           LET c == Children[n][i] IN
           /\ pc[c] = "idle"
           /\ IF WasCompleted(c)
              THEN /\ pc' = [pc EXCEPT ![n] = "inside", ![c] = "done"]
                   /\ out' = [out EXCEPT ![c] = from.tracker.completed[c]]
                   /\ UNCHANGED <<mode, in>>
              ELSE Calls(n, {c}, IF Below(c, from.at) THEN "resume" ELSE "run", in[n])
    BY <1>8 DEF ResumeParallel
  <2> DEFINE c == Children[n][i]
  <2>3. c \in Nodes /\ IsChild(c, n) /\ pc[c] = "idle"
    BY <2>1, <2>2, ChildrenShape
  <2>4. CASE WasCompleted(c)
    BY <1>8, <2>1, <2>2, <2>3, <2>4 DEF ResumeParallel, Forms, Skips
  <2>5. CASE ~WasCompleted(c)
    <3>1. \A k \in Nodes : Below(c, k) => ~Running(k)
      BY <2>3 DEF Base, IdleInv, Unreached, Running, Above
    <3>2. resumed
      BY <2>1 DEF Base, FromInv
    <3> DEFINE m == IF Below(c, from.at) THEN "resume" ELSE "run"
    <3>3. Calls(n, {c}, m, in[n])
      BY <2>2, <2>5
    <3>4. Calling(n, {c}, m)
      BY <2>1, <2>3, <3>1, <3>2, <3>3 DEF Calling
    <3> QED
      BY <2>3, <3>4 DEF Forms
  <2> QED
    BY <2>4, <2>5
<1>9. CASE Join(n)
  <2>1. up /\ n \in Parallels /\ pc[n] = "inside" /\ Running(n) /\ UNCHANGED <<position, mode, in>>
    BY <1>9 DEF Join, Running
  <2>2. Quiet(n)
    BY <1>9, <2>1, QuietCases DEF Base, Join, Returned, Running
  <2> QED
    BY <1>9, <2>1, <2>2, ReturnsGoes DEF Join, Forms
<1> QED
  BY <1>1, <1>2, <1>3, <1>4, <1>5, <1>6, <1>7, <1>8, <1>9 DEF NodeStep, Control

-----------------------------------------------------------------------------
(* The structure is kept *)

Between == SavePosition \/ ResumeCompletes \/ NodeReturns \/ Crash \/ Interrupt \/ Resume

LEMMA NextForms ==
  ASSUME [Next]_vars
  PROVE  UNCHANGED vars \/ (\E n \in Nodes : NodeStep(n)) \/ Between
BY DEF Next, Run, NodeStep, Between

LEMMA TopAlone ==
  ASSUME TypeOK, NEW i \in 1..Len(top), NEW m \in Nodes
  PROVE  ~Above(m, top[i])
<1>1. Path[top[i]] = <<top[i]>> /\ top[i] \in Nodes
  BY TopShape, WorkflowAssumption DEF TypeOK
<1> QED
  BY <1>1 DEF Above, Below

\* Run or Resume calls a top-level node while nothing runs.
CallsTop(i, m) ==
    /\ i \in 1..Len(top) /\ i = next' /\ up' /\ turn' = "node"
    /\ \E text : Calls(top[i], {top[i]}, m, text)
    /\ \A n \in Nodes : ~Running(n)

LEMMA NothingRuns ==
  ASSUME RunInv, ~up \/ turn # "node"
  PROVE  \A n \in Nodes : ~Running(n)
BY DEF RunInv

LEMMA BetweenForms ==
  ASSUME Base, Between
  PROVE  \/ UNCHANGED <<pc, mode, in>> /\ \A n \in Nodes : ~Running(n)
         \/ Crash
         \/ CallsTop(next', "run") /\ SavePosition
         \/ CallsTop(next', "resume") /\ Resume /\ Valid(stored) /\ stored \in Checkpoint
              /\ stored.question # None /\ \A n \in Nodes : pc[n] \notin {"called", "inside"}
<1> USE DEF Base
<1>1. CASE SavePosition
  <2>1. next \in 1..(Len(top) + 1) /\ Len(top) \in Nat
    BY TopShape DEF TypeOK
  <2>2. \A n \in Nodes : ~Running(n)
    BY <1>1, NothingRuns DEF SavePosition
  <2> QED
    BY <1>1, <2>1, <2>2 DEF SavePosition, CallsTop
<1>2. CASE ResumeCompletes \/ Interrupt
  <2>1. \A n \in Nodes : ~Running(n)
    BY <1>2, NothingRuns DEF ResumeCompletes, Interrupt
  <2> QED
    BY <1>2, <2>1 DEF ResumeCompletes, Interrupt, node
<1>3. CASE NodeReturns
  <2>1. top[next] \in Nodes /\ Returned(top[next])
    BY <1>3, TopShape DEF NodeReturns, RunInv, TypeOK
  <2>2. \A n \in Nodes : ~Running(n)
    <3> SUFFICES ASSUME NEW n \in Nodes, Running(n) PROVE FALSE
      OBVIOUS
    <3>1. Below(top[next], n) /\ top[next] # n
      BY <2>1 DEF RunInv, Running, Returned
    <3>2. pc[top[next]] = "inside"
      BY <2>1, <3>1 DEF RunInv, Above
    <3> QED
      BY <2>1, <3>2 DEF Returned
  <2> QED
    BY <1>3, <2>2 DEF NodeReturns, node
<1>4. CASE Resume
  <2>1. \A n \in Nodes : ~Running(n)
    BY <1>4, NothingRuns DEF Resume
  <2>2. stored \in Checkpoint /\ stored.question # None
    BY <1>4 DEF Resume, QuestionOf, TypeOK
  <2>3. CASE Valid(stored)
    <3>1. stored.next \in 1..Len(top)
      <4>1. stored.next \in Nat \ {0} /\ stored.next <= Len(top) /\ Len(top) \in Nat
        BY <2>2, <2>3, CheckpointFields, TopShape DEF Valid
      <4> QED
        BY <4>1
    <3> QED
      BY <1>4, <2>1, <2>2, <2>3, <3>1 DEF Resume, CallsTop, Running
  <2>4. CASE ~Valid(stored)
    BY <1>4, <2>1, <2>4 DEF Resume
  <2> QED
    BY <2>3, <2>4
<1> QED
  BY <1>1, <1>2, <1>3, <1>4 DEF Between

LEMMA RunStep ==
  ASSUME Base, [Next]_vars, TypeOK'
  PROVE  RunInv'
<1> USE DEF Base
<1>1. CASE UNCHANGED vars
  BY <1>1 DEF vars, position, node, RunInv, Running
<1>2. ASSUME NEW n \in Nodes, Goes(n)
      PROVE  RunInv'
  <2>1. PICK x \in PCs \ {"idle", "called", "inside"} : pc' = [pc EXCEPT ![n] = x]
    BY <1>2 DEF Goes
  <2>2. pc \in [Nodes -> PCs]
    BY DEF TypeOK, PCs
  <2> QED
    BY <1>2, <2>1, <2>2 DEF Goes, Quiet, RunInv, Running, position
<1>3. ASSUME NEW n \in Nodes, NEW cs \in SUBSET Nodes, NEW m \in {"run", "resume"}, Calling(n, cs, m)
      PROVE  RunInv'
  <2>1. pc' = [x \in Nodes |-> IF x \in cs THEN "called" ELSE IF x = n THEN "inside" ELSE pc[x]]
    BY <1>3 DEF Calling, Calls
  <2>2. Running(n) /\ UNCHANGED position /\ up /\ turn = "node" /\ Below(top[next], n) /\ top[next] \in Nodes
    BY <1>3, TopShape DEF Calling, Running, RunInv, TypeOK
  <2>3. \A k \in Nodes : Below(k, n) => pc'[k] = "inside"
    <3> SUFFICES ASSUME NEW k \in Nodes, Below(k, n) PROVE pc'[k] = "inside"
      OBVIOUS
    <3>1. k \notin cs
      BY <1>3, ChildAbove, Antisymmetric DEF Calling, Above
    <3>2. k = n \/ pc[k] = "inside"
      BY <2>2 DEF RunInv, Above
    <3> QED
      BY <2>1, <3>1, <3>2
  <2>4. ASSUME NEW c \in cs
        PROVE  Below(top[next], c) /\ \A k \in Nodes : Above(k, c) => pc'[k] = "inside"
    <3>1. IsChild(c, n) /\ Below(n, c)
      BY <1>3, ChildAbove DEF Calling, Above
    <3> QED
      BY <2>2, <2>3, <3>1, BelowTransitive, AboveChild
  <2>5. ASSUME NEW k \in Nodes, k \notin cs, k # n, Running(k)'
        PROVE  Below(top[next], k) /\ \A l \in Nodes : Above(l, k) => pc'[l] = "inside"
    <3>1. Running(k)
      BY <2>1, <2>5 DEF Running
    <3>2. \A l \in Nodes : Above(l, k) => l \notin cs
      BY <1>3, <3>1 DEF Calling, Above
    <3> QED
      BY <2>1, <3>1, <3>2 DEF RunInv
  <2> QED
    BY <2>2, <2>3, <2>4, <2>5 DEF RunInv, position, Above
<1>4. ASSUME NEW n \in Nodes, NEW c \in Nodes, Skips(n, c)
      PROVE  RunInv'
  <2>1. pc' = [pc EXCEPT ![n] = "inside", ![c] = "done"] /\ pc[c] = "idle" /\ UNCHANGED position
        /\ n # c /\ Running(n)
    BY <1>4 DEF Skips, Running
  <2>2. pc \in [Nodes -> PCs]
    BY DEF TypeOK, PCs
  <2> QED
    BY <2>1, <2>2 DEF RunInv, Running, position
<1>5. CASE Between
  <2>1. CASE UNCHANGED <<pc, mode, in>> /\ \A n \in Nodes : ~Running(n)
    <3>1. turn' = "node" => next' <= Len(top')
      BY <1>5, <2>1, TopShape DEF Between, SavePosition, ResumeCompletes, NodeReturns, Crash, Interrupt, Resume,
         Valid, RunInv, TypeOK
    <3> QED
      BY <2>1, <3>1 DEF RunInv, Running
  <2>2. CASE Crash
    BY <2>2 DEF Crash, RunInv, Running
  <2>3. ASSUME NEW m \in {"run", "resume"}, CallsTop(next', m)
        PROVE  RunInv'
    <3>1. pc' = [x \in Nodes |-> IF x = top[next'] THEN "called" ELSE pc[x]]
      BY <2>3 DEF CallsTop, Calls
    <3>4. top' = top
      BY <1>5 DEF Between, SavePosition, ResumeCompletes, NodeReturns, Crash, Interrupt, Resume
    <3>2. top' = top /\ next' <= Len(top) /\ next' \in 1..Len(top) /\ up' /\ turn' = "node"
          /\ top[next'] \in Nodes
      BY <2>3, <3>4, TopShape DEF CallsTop
    <3>3. \A k \in Nodes : Running(k)' => k = top[next']
      BY <2>3, <3>1 DEF CallsTop, Running
    <3> QED
      BY <3>2, <3>3, TopAlone, BelowSelf DEF RunInv
  <2> QED
    BY <1>5, <2>1, <2>2, <2>3, BetweenForms
<1> QED
  BY <1>1, <1>2, <1>3, <1>4, <1>5, NextForms, NodeForms DEF Forms

LEMMA SharedStep ==
  ASSUME Base, [Next]_vars, TypeOK'
  PROVE  SharedInv'
<1> USE DEF Base
<1>1. CASE UNCHANGED vars
  BY <1>1 DEF vars, node, SharedInv, Running
<1>2. ASSUME NEW n \in Nodes, Goes(n)
      PROVE  SharedInv'
  <2>1. PICK x \in PCs \ {"idle", "called", "inside"} : pc' = [pc EXCEPT ![n] = x]
    BY <1>2 DEF Goes
  <2>2. \A k \in Nodes : Running(k)' => Running(k)
    BY <1>2, <2>1 DEF Goes, Running, TypeOK
  <2> QED
    BY <2>2 DEF SharedInv
<1>3. ASSUME NEW n \in Nodes, NEW cs \in SUBSET Nodes, NEW m \in {"run", "resume"}, Calling(n, cs, m)
      PROVE  SharedInv'
  <2>1. pc' = [x \in Nodes |-> IF x \in cs THEN "called" ELSE IF x = n THEN "inside" ELSE pc[x]]
    BY <1>3 DEF Calling, Calls
  <2>2. Running(n)
    BY <1>3 DEF Calling, Running
  <2>3. \A k \in Nodes : Running(k)' => Running(k) \/ k \in cs
    BY <2>1, <2>2 DEF Running
  <2> DEFINE Shares(a, b) == Below(a, b) \/ Below(b, a) \/ \E p \in Parallels : Above(p, a) /\ Above(p, b)
  <2>4. ASSUME NEW c \in cs, NEW k \in Nodes, Running(k)
        PROVE  Shares(c, k)
    <3>1. Above(n, c)
      BY <1>3, ChildAbove DEF Calling
    <3>2. CASE Below(k, n)
      BY <3>1, <3>2, BelowTransitive DEF Above
    <3>3. CASE Above(n, k)
      BY <1>3, <2>4, <3>1, <3>3 DEF Calling, Quiet
    <3>4. CASE \E p \in Parallels : Above(p, n) /\ Above(p, k)
      <4>1. PICK p \in Parallels : Above(p, n) /\ Above(p, k)
        BY <3>4
      <4>2. Above(p, c)
        BY <3>1, <4>1, Shape, BelowTransitive, Antisymmetric DEF Above
      <4> QED
        BY <4>1, <4>2
    <3> QED
      BY <2>2, <2>4, <3>2, <3>3, <3>4, BelowSelf DEF SharedInv, Above
  <2>5. ASSUME NEW c \in cs, NEW d \in cs
        PROVE  Shares(c, d)
    <3>1. Above(n, c) /\ Above(n, d)
      BY <1>3, ChildAbove DEF Calling
    <3>2. CASE n \in Parallels
      BY <3>1, <3>2
    <3>3. CASE n \notin Parallels
      <4>1. c = d
        BY <1>3, <3>3 DEF Calling
      <4> QED
        BY <4>1, BelowSelf
    <3> QED
      BY <3>2, <3>3
  <2> QED
    BY <2>3, <2>4, <2>5 DEF SharedInv
<1>4. ASSUME NEW n \in Nodes, NEW c \in Nodes, Skips(n, c)
      PROVE  SharedInv'
  <2>1. pc' = [pc EXCEPT ![n] = "inside", ![c] = "done"] /\ Running(n)
    BY <1>4 DEF Skips, Running
  <2>2. \A k \in Nodes : Running(k)' => Running(k)
    BY <2>1 DEF Running, TypeOK
  <2> QED
    BY <2>2 DEF SharedInv
<1>5. CASE Between
  <2>1. ASSUME NEW k \in Nodes, NEW l \in Nodes, Running(k)', Running(l)'
        PROVE  k = l
    <3>1. CASE UNCHANGED pc /\ ~Running(k)
      BY <2>1, <3>1 DEF Running
    <3>2. CASE Crash
      BY <2>1, <3>2 DEF Crash, Running
    <3>3. CASE \E m : CallsTop(next', m)
      BY <2>1, <3>3 DEF CallsTop, Calls, Running
    <3> QED
      BY <1>5, <3>1, <3>2, <3>3, BetweenForms
  <2> QED
    BY <2>1, BelowSelf DEF SharedInv
<1> QED
  BY <1>1, <1>2, <1>3, <1>4, <1>5, NextForms, NodeForms DEF Forms

LEMMA IdleStep ==
  ASSUME Base, [Next]_vars, TypeOK'
  PROVE  IdleInv'
<1> USE DEF Base
<1>1. CASE UNCHANGED vars
  BY <1>1 DEF vars, position, node, IdleInv, Unreached
<1>2. ASSUME NEW n \in Nodes, Goes(n)
      PROVE  IdleInv'
  <2>1. PICK x \in PCs \ {"idle", "called", "inside"} : pc' = [pc EXCEPT ![n] = x]
    BY <1>2 DEF Goes
  <2>2. pc \in [Nodes -> PCs] /\ UNCHANGED mode /\ up' /\ pc[n] # "idle"
    BY <1>2 DEF TypeOK, PCs, Goes, position, Running
  <2> QED
    BY <2>1, <2>2 DEF IdleInv, Unreached
<1>3. ASSUME NEW n \in Nodes, NEW cs \in SUBSET Nodes, NEW m \in {"run", "resume"}, Calling(n, cs, m)
      PROVE  IdleInv'
  <2>1. /\ pc' = [x \in Nodes |-> IF x \in cs THEN "called" ELSE IF x = n THEN "inside" ELSE pc[x]]
        /\ mode' = [x \in Nodes |-> IF x \in cs THEN m ELSE mode[x]]
        /\ up' /\ pc[n] # "idle"
    BY <1>3 DEF Calling, Calls, position
  <2>2. ASSUME NEW k \in Nodes, Unreached(k)'
        PROVE  Unreached(k) /\ k # n
    <3>1. k \in cs => m = "resume"
      BY <2>1, <2>2 DEF Unreached
    <3>2. n \notin cs
      BY <1>3, ChildAbove DEF Calling, Above
    <3> QED
      BY <1>3, <2>1, <2>2, <3>1, <3>2 DEF Calling, Unreached
  <2>3. ASSUME NEW k \in Nodes, NEW l \in Nodes, Above(k, l), Unreached(k)'
        PROVE  pc'[l] = "idle"
    <3>1. Unreached(k) /\ k # n /\ pc[l] = "idle" /\ l # n
      BY <2>1, <2>2, <2>3 DEF IdleInv
    <3>2. l \notin cs
      <4> SUFFICES ASSUME l \in cs PROVE FALSE
        OBVIOUS
      <4>1. Above(k, n)
        BY <1>3, <2>3, <3>1, AboveChild DEF Calling, Above
      <4> QED
        BY <2>1, <3>1, <4>1 DEF IdleInv
    <3> QED
      BY <2>1, <3>1, <3>2
  <2> QED
    BY <2>1, <2>3 DEF IdleInv
<1>4. ASSUME NEW n \in Nodes, NEW c \in Nodes, Skips(n, c)
      PROVE  IdleInv'
  <2>1. pc' = [pc EXCEPT ![n] = "inside", ![c] = "done"] /\ UNCHANGED mode /\ up' /\ pc[n] # "idle"
        /\ IsChild(c, n)
    BY <1>4 DEF Skips, position
  <2>2. pc \in [Nodes -> PCs]
    BY DEF TypeOK, PCs
  <2>3. ASSUME NEW k \in Nodes, NEW l \in Nodes, Above(k, l), Unreached(k)'
        PROVE  pc'[l] = "idle"
    <3>1. Unreached(k) /\ k # n /\ pc[l] = "idle" /\ l # n
      BY <2>1, <2>2, <2>3 DEF IdleInv, Unreached
    <3>2. l # c
      BY <2>1, <2>3, <3>1, AboveChild DEF IdleInv, Above
    <3> QED
      BY <2>1, <2>2, <3>1, <3>2
  <2> QED
    BY <2>1, <2>3 DEF IdleInv
<1>5. CASE Between
  <2>1. CASE Crash
    BY <2>1 DEF Crash, IdleInv
  <2>2. CASE UNCHANGED <<pc, mode>> /\ ~Crash
    <3>1. ~up' => ~up
      BY <1>5, <2>2 DEF Between, SavePosition, ResumeCompletes, NodeReturns, Interrupt, Resume
    <3> QED
      BY <2>2, <3>1 DEF IdleInv, Unreached
  <2>3. ASSUME NEW m \in {"run", "resume"}, CallsTop(next', m), m = "run" \/ Resume
        PROVE  IdleInv'
    <3>1. /\ pc' = [x \in Nodes |-> IF x = top[next'] THEN "called" ELSE pc[x]]
          /\ mode' = [x \in Nodes |-> IF x = top[next'] THEN m ELSE mode[x]]
          /\ next' \in 1..Len(top) /\ up'
      BY <2>3 DEF CallsTop, Calls
    <3>2. ASSUME NEW k \in Nodes, NEW l \in Nodes, Above(k, l), Unreached(k)'
          PROVE  pc'[l] = "idle"
      <4>1. l # top[next']
        BY <3>1, <3>2, TopAlone
      <4>2. CASE k = top[next']
        <5>1. m = "resume"
          BY <3>1, <3>2, <4>2 DEF Unreached
        <5>2. ~up
          BY <2>3, <5>1 DEF Resume
        <5> QED
          BY <3>1, <4>1, <5>2 DEF IdleInv
      <4>3. CASE k # top[next']
        BY <3>1, <3>2, <4>1, <4>3 DEF IdleInv, Unreached
      <4> QED
        BY <4>2, <4>3
    <3> QED
      BY <3>1, <3>2 DEF IdleInv
  <2> QED
    BY <1>5, <2>1, <2>2, <2>3, BetweenForms
<1> QED
  BY <1>1, <1>2, <1>3, <1>4, <1>5, NextForms, NodeForms DEF Forms

\* A step of an agent or of a checkpoint.
LocalStep(n) ==
    \/ Snapshot(n) \/ Register(n) \/ Read(n) \/ Write(n) \/ Emit(n) \/ Complete(n)
    \/ Begin(n) \/ ResumeStep(n) \/ ToolReturns(n) \/ Finish(n) \/ StepReturns(n)
    \/ Answered(n) \/ StepFails(n) \/ \E kind \in {"tool", "ask"} : Work(n, kind)

LEMMA LocalFrame ==
  ASSUME TypeOK, NEW n \in Nodes, LocalStep(n)
  PROVE  /\ \A k \in Nodes \ {n} : pc'[k] = pc[k] /\ save'[k] = save[k] /\ out'[k] = out[k]
         /\ \A k \in Steps \ {n} : agent'[k] = agent[k]
         /\ UNCHANGED <<position, mode, in, iter, turns>>
<1> USE DEF TypeOK, history, saved
<1>1. CASE Snapshot(n) \/ Register(n) \/ Read(n) \/ Write(n) \/ Emit(n)
  BY <1>1 DEF Snapshot, Register, Read, Write, Emit
<1>2. CASE Complete(n) \/ StepReturns(n) \/ StepFails(n)
  BY <1>2 DEF Complete, StepReturns, StepFails, Returns
<1>3. CASE Begin(n) \/ ToolReturns(n) \/ Finish(n) \/ Answered(n)
  BY <1>3 DEF Begin, ToolReturns, Finish, Answered, Saves
<1>4. CASE ResumeStep(n)
  BY <1>4 DEF ResumeStep, Saves
<1>5. CASE \E kind \in {"tool", "ask"} : Work(n, kind)
  BY <1>5 DEF Work, Saves
<1> QED
  BY <1>1, <1>2, <1>3, <1>4, <1>5 DEF LocalStep

LEMMA ControlFrame ==
  ASSUME NEW n \in Nodes, Control(n)
  PROVE  UNCHANGED <<position, agent, saved, spent>> /\ up
BY DEF Control, Decide, ResumeBranch, BranchReturns, EnterLoop, ResumeLoop, BodyReturns, Fork,
       ResumeParallel, Join, history

LEMMA StepCases ==
  ASSUME [Next]_vars
  PROVE  \/ UNCHANGED vars \/ Between
         \/ \E n \in Nodes : LocalStep(n)
         \/ \E n \in Nodes : Control(n)
BY DEF Next, Run, Step, LocalStep, Between

LEMMA CallsPlaces ==
  ASSUME TypeOK, NEW n \in Nodes, NEW cs, NEW m, NEW text, Calls(n, cs, m, text), NEW k \in Nodes
  PROVE  \/ pc'[k] = pc[k] \/ pc'[k] = "called"
         \/ pc'[k] = "inside" /\ k = n
BY DEF Calls

LEMMA FormPlaces ==
  ASSUME Base, NEW n \in Nodes, Control(n), NEW k \in Nodes
  PROVE  \/ pc'[k] = pc[k] \/ pc'[k] \in {"called", "done", "failed"}
         \/ pc'[k] = "inside" /\ k = n /\ n \notin Steps
         \/ pc'[k] = "complete" /\ k = n /\ Recorded(n)
<1> USE DEF Base, TypeOK
<1>1. CASE Decide(n)
  <2>1. n \notin Steps
    BY <1>1, Shape DEF Decide
  <2>2. Fails(n) \/ Returns(n, in[n]) \/ \E b \in BOOLEAN : Calls(n, {Child(n, b)}, "run", in[n])
    BY <1>1 DEF Decide
  <2>3. CASE Fails(n) \/ Returns(n, in[n])
    BY <2>3 DEF Fails, Returns
  <2>4. ASSUME NEW b \in BOOLEAN, Calls(n, {Child(n, b)}, "run", in[n])
        PROVE  pc'[k] = pc[k] \/ pc'[k] = "called" \/ (pc'[k] = "inside" /\ k = n)
    BY <2>4, CallsPlaces
  <2> QED
    BY <2>1, <2>2, <2>3, <2>4
<1>2. CASE ResumeBranch(n)
  BY <1>2, Shape, CallsPlaces DEF ResumeBranch, Fails, Returns
<1>3. CASE BranchReturns(n)
  BY <1>3 DEF BranchReturns, Returns
<1>4. CASE EnterLoop(n)
  BY <1>4, Shape, CallsPlaces DEF EnterLoop, Iterate, Fails, Returns
<1>5. CASE ResumeLoop(n)
  BY <1>5, Shape, CallsPlaces DEF ResumeLoop, Fails
<1>6. CASE BodyReturns(n)
  BY <1>6, Shape, CallsPlaces DEF BodyReturns, Iterate, Fails, Returns
<1>7. CASE Fork(n)
  BY <1>7, Shape, CallsPlaces DEF Fork
<1>8. CASE ResumeParallel(n)
  <2>1. n \notin Steps
    BY <1>8, Shape DEF ResumeParallel
  <2>2. PICK i \in DOMAIN Children[n] :
           LET c == Children[n][i] IN
              \/ pc' = [pc EXCEPT ![n] = "inside", ![c] = "done"]
              \/ Calls(n, {c}, IF Below(c, from.at) THEN "resume" ELSE "run", in[n])
    BY <1>8 DEF ResumeParallel
  <2> QED
    BY <2>1, <2>2, CallsPlaces
<1>9. CASE Join(n)
  BY <1>9 DEF Join, Returns
<1> QED
  BY <1>1, <1>2, <1>3, <1>4, <1>5, <1>6, <1>7, <1>8, <1>9 DEF Control

LEMMA BetweenPlaces ==
  ASSUME Base, Between
  PROVE  /\ UNCHANGED <<agent, save>> \/ Crash
         /\ \A k \in Nodes : pc'[k] = pc[k] \/ pc'[k] \in {"called", "idle"}
<1>1. CASE SavePosition
  BY <1>1, CallsPlaces DEF SavePosition, Base, Calls
<1>2. CASE ResumeCompletes \/ NodeReturns \/ Interrupt
  BY <1>2 DEF ResumeCompletes, NodeReturns, Interrupt, node, saved
<1>3. CASE Crash
  BY <1>3 DEF Crash
<1>4. CASE Resume
  BY <1>4 DEF Resume, Calls
<1> QED
  BY <1>1, <1>2, <1>3, <1>4 DEF Between

LEMMA KindLocal ==
  ASSUME Base, NEW n \in Nodes, LocalStep(n)
  PROVE  KindOf(n)'
<1> USE DEF Base, TypeOK, KindInv, KindOf, Saving, Goals
<1>1. CASE Snapshot(n)
  <2>1. OfAgent(n) => n \in Steps
    BY <1>1 DEF OfAgent, Snapshot
  <2>2. Draft(n) # None
    BY <2>1, DraftFields, CheckpointFields
  <2>3. /\ pc' = [pc EXCEPT ![n] = IF OfAgent(n) THEN "register" ELSE "read"] /\ pc[n] = "snapshot"
        /\ save' = [save EXCEPT ![n] = [@ EXCEPT !.draft = Draft(n)]]
    BY <1>1 DEF Snapshot
  <2>4. save'[n].to = save[n].to /\ save'[n].draft = Draft(n)
    BY <2>3
  <2> QED
    BY <2>1, <2>2, <2>3, <2>4 DEF OfAgent
<1>2. CASE Register(n)
  <2>1. n \in Steps /\ save[n].draft \in Checkpoint
    BY <1>2 DEF Register
  <2>2. /\ pc' = [pc EXCEPT ![n] = "read"] /\ pc[n] = "register"
        /\ save' = [save EXCEPT ![n] = [@ EXCEPT !.draft = WithAgent(save[n].draft, n, agent[n])]]
    BY <1>2 DEF Register, WithAgent
  <2>3. WithAgent(save[n].draft, n, agent[n]) # None
    BY <2>1, WithAgentTyped, CheckpointFields
  <2>4. save'[n].to = save[n].to /\ save'[n].draft # None
    BY <2>2, <2>3
  <2> QED
    BY <2>2, <2>4
<1>3. CASE Read(n)
  <2>1. pc'[n] = "write" /\ pc[n] = "read" /\ save'[n].to = save[n].to /\ save'[n].draft = save[n].draft
    BY <1>3 DEF Read
  <2> QED
    BY <2>1
<1>4. CASE Write(n)
  <2>1. save[n].draft \in Checkpoint
    BY <1>4 DEF Write
  <2>2. Merged(save[n].previous, save[n].draft) # None
    BY <2>1, MergedFields, CheckpointFields
  <2>3. pc'[n] = "emit" /\ pc[n] = "write" /\ save'[n].to = save[n].to /\ save'[n].draft # None
    BY <1>4, <2>2 DEF Write
  <2> QED
    BY <2>3
<1>5. CASE Emit(n)
  <2>1. pc[n] = "emit" /\ (pc'[n] = save[n].to \/ pc'[n] \in {"done", "failed"})
    BY <1>5 DEF Emit
  <2> QED
    BY <2>1
<1>6. CASE Complete(n)
  <2>1. pc[n] = "complete" /\ pc'[n] = "snapshot" /\ save'[n].to = "done"
    BY <1>6 DEF Complete, NoSave
  <2> QED
    BY <2>1
<1>7. CASE StepReturns(n)
  <2>1. \/ pc'[n] = "done"
        \/ pc'[n] = "complete" /\ Recorded(n)
    BY <1>7 DEF StepReturns, Returns
  <2> QED
    BY <2>1 DEF Recorded
<1>8. CASE StepFails(n)
  BY <1>8 DEF StepFails
<1>9. CASE Begin(n) \/ ToolReturns(n) \/ Finish(n) \/ Answered(n) \/ \E kind \in {"tool", "ask"} : Work(n, kind)
  <2>1. n \in Steps /\ pc'[n] = "snapshot" /\ save'[n].to \in Goals \ {"idle", "done"}
    BY <1>9 DEF Begin, ToolReturns, Finish, Answered, Work, Saves, NoSave
  <2> QED
    BY <2>1
<1>10. CASE ResumeStep(n)
  <2>1. /\ n \in Steps
        /\ \/ pc'[n] = "failed"
           \/ pc'[n] = "snapshot" /\ save'[n].to = "working"
    BY <1>10 DEF ResumeStep, Saves, NoSave
  <2> QED
    BY <2>1
<1> QED
  BY <1>1, <1>2, <1>3, <1>4, <1>5, <1>6, <1>7, <1>8, <1>9, <1>10 DEF LocalStep

LEMMA KindStep ==
  ASSUME Base, [Next]_vars, TypeOK'
  PROVE  KindInv'
<1> SUFFICES ASSUME NEW k \in Nodes PROVE KindOf(k)'
  BY DEF KindInv
<1> USE DEF Base
<1>1. CASE UNCHANGED vars
  BY <1>1 DEF vars, node, saved, KindInv, KindOf
<1>2. ASSUME NEW n \in Nodes, LocalStep(n)
      PROVE  KindOf(k)'
  <2>1. CASE k = n
    BY <1>2, <2>1, KindLocal
  <2>2. CASE k # n
    BY <1>2, <2>2, LocalFrame DEF KindInv, KindOf
  <2> QED
    BY <2>1, <2>2
<1>3. ASSUME NEW n \in Nodes, Control(n)
      PROVE  KindOf(k)'
  <2>1. UNCHANGED save
    BY <1>3, ControlFrame DEF saved
  <2> QED
    BY <1>3, <2>1, FormPlaces DEF KindInv, KindOf, Recorded, Saving
<1>4. CASE Between
  <2>1. CASE Crash
    BY <2>1 DEF Crash, KindOf, Saving
  <2>2. CASE ~Crash
    BY <1>4, <2>2, BetweenPlaces DEF KindInv, KindOf, Saving
  <2> QED
    BY <2>1, <2>2
<1> QED
  BY <1>1, <1>2, <1>3, <1>4, StepCases

LEMMA AgentStep ==
  ASSUME Base, [Next]_vars, TypeOK'
  PROVE  AgentInv'
<1> SUFFICES ASSUME NEW s \in Steps PROVE AgentOf(s)'
  BY DEF AgentInv
<1>0. s \in Nodes
  BY Shape
<1> USE DEF Base
<1>1. CASE UNCHANGED vars
  BY <1>1 DEF vars, node, saved, AgentInv, AgentOf
<1>2. ASSUME NEW n \in Nodes, LocalStep(n)
      PROVE  AgentOf(s)'
  <2> USE DEF TypeOK, AgentInv, AgentOf, Saving
  <2>1. CASE s # n
    BY <1>0, <1>2, <2>1, LocalFrame
  <2>2. CASE s = n
    <3>1. CASE Snapshot(n) \/ Register(n) \/ Read(n) \/ Write(n)
      <4>1. save'[n].to = save[n].to /\ agent' = agent /\ pc[n] \in Saving /\ pc'[n] \in Saving
        BY <3>1 DEF Snapshot, Register, Read, Write
      <4> QED
        BY <2>2, <4>1
    <3>2. CASE Emit(n)
      <4>1. pc[n] \in Saving /\ agent' = agent /\ (pc'[n] = save[n].to \/ pc'[n] \in {"failed", "done"})
        BY <3>2 DEF Emit
      <4>2. save[n].to \in Goals \ {"idle"}
        BY <4>1 DEF KindInv, KindOf
      <4> QED
        BY <2>2, <4>1, <4>2 DEF Goals
    <3>3. CASE Complete(n)
      <4>1. pc'[n] = "snapshot" /\ save'[n].to = "done"
        BY <3>3 DEF Complete, NoSave
      <4> QED
        BY <2>2, <4>1
    <3>4. CASE StepReturns(n) \/ StepFails(n)
      <4>1. pc'[n] \in {"done", "complete", "failed"}
        BY <3>4 DEF StepReturns, StepFails, Returns
      <4> QED
        BY <2>2, <4>1
    <3>5. ASSUME NEW a \in AgentCheckpoint, NEW to, Saves(n, a, to), a.pending = "ask" <=> to = "asked",
                 to \in {"working", "ended"} => a.pending = "none"
          PROVE  AgentOf(s)'
      <4>1. pc'[n] = "snapshot" /\ save'[n].to = to /\ agent'[n] = a
        BY <1>0, <2>2, <3>5 DEF Saves, NoSave
      <4> QED
        BY <2>2, <3>5, <4>1
    <3>6. CASE Begin(n)
      BY <3>5, <3>6, NewTyped DEF Begin, NewAgent
    <3>7. CASE ToolReturns(n) \/ Answered(n)
      <4>1. [agent[n] EXCEPT !.pending = "none"] \in AgentCheckpoint
            /\ [agent[n] EXCEPT !.pending = "none"].pending = "none"
        BY <2>2, AgentFields
      <4> QED
        BY <3>5, <3>7, <4>1 DEF ToolReturns, Answered
    <3>8. CASE Finish(n)
      <4>1. agent[n] \in AgentCheckpoint /\ agent[n].pending = "none" /\ Saves(n, agent[n], "ended")
        BY <2>2, <3>8 DEF Finish
      <4> QED
        BY <3>5, <4>1
    <3>9. CASE \E kind \in {"tool", "ask"} : Work(n, kind)
      <4>1. PICK kind \in {"tool", "ask"} : Work(n, kind)
        BY <3>9
      <4> DEFINE a == [work |-> agent[n].work + 1, pending |-> kind]
      <4>2. a \in AgentCheckpoint /\ a.pending = kind
        BY <2>2 DEF AgentCheckpoint
      <4>3. Saves(n, a, IF kind = "tool" THEN "tool" ELSE "asked")
        BY <4>1 DEF Work
      <4> HIDE DEF a
      <4> QED
        BY <3>5, <4>2, <4>3
    <3>10. CASE ResumeStep(n)
      <4>1. CASE pc' = [pc EXCEPT ![n] = "failed"]
        BY <1>0, <2>2, <4>1
      <4>2. CASE Saves(n, [SavedAgent(from, n) EXCEPT !.pending = "none"], "working")
        <5>1. from \in Checkpoint
          BY <3>10 DEF ResumeStep, FromInv
        <5>2. SavedAgent(from, n) \in AgentCheckpoint
          BY <2>2, <5>1, SavedAgentTyped
        <5> QED
          BY <3>5, <4>2, <5>2, AgentFields
      <4> QED
        BY <3>10, <4>1, <4>2 DEF ResumeStep
    <3> QED
      BY <1>2, <3>1, <3>2, <3>3, <3>4, <3>6, <3>7, <3>8, <3>9, <3>10 DEF LocalStep
  <2> QED
    BY <2>1, <2>2
<1>3. ASSUME NEW n \in Nodes, Control(n)
      PROVE  AgentOf(s)'
  <2>1. UNCHANGED <<agent, save>>
    BY <1>3, ControlFrame DEF saved
  <2> QED
    BY <1>0, <1>3, <2>1, FormPlaces DEF AgentInv, AgentOf, Saving
<1>4. CASE Between
  <2>1. CASE Crash
    BY <1>0, <2>1 DEF Crash, AgentOf, Saving
  <2>2. CASE ~Crash
    BY <1>0, <1>4, <2>2, BetweenPlaces DEF AgentInv, AgentOf, Saving
  <2> QED
    BY <2>1, <2>2
<1> QED
  BY <1>1, <1>2, <1>3, <1>4, StepCases

\* What changes in the tracker.
LEMMA TrackerStep ==
  ASSUME Base, NEW n \in Nodes, NodeStep(n)
  PROVE  /\ \A k \in Conditions : tracker'.branches[k] = tracker.branches[k] \/ (k = n /\ Decide(n))
         /\ \A k \in Loops : \/ tracker'.loops[k] = tracker.loops[k]
                             \/ k = n /\ mode[n] = "run" /\ (EnterLoop(n) \/ BodyReturns(n))
         /\ \A k \in Nodes : tracker'.completed[k] = tracker.completed[k] \/ (k = n /\ Complete(n))
<1>1. tracker \in Tracker
  BY DEF Base, TypeOK
<1> USE <1>1 DEF Tracker
<1>2. CASE LocalStep(n) /\ ~Register(n) /\ ~Complete(n)
  <2>1. UNCHANGED tracker
    BY <1>2 DEF LocalStep, Snapshot, Read, Write, Emit, Begin, ResumeStep, ToolReturns, Finish,
                StepReturns, Answered, StepFails, Work
  <2> QED
    BY <2>1
<1>3. CASE Register(n)
  <2>1. tracker' = [tracker EXCEPT !.agents[n] = agent[n]]
    BY <1>3 DEF Register
  <2> QED
    BY <2>1
<1>4. CASE Complete(n)
  <2>1. tracker' = [tracker EXCEPT !.completed[n] = out[n]]
    BY <1>4 DEF Complete
  <2> QED
    BY <1>4, <2>1
<1>5. CASE Decide(n)
  <2>1. tracker' = tracker \/ \E b \in BOOLEAN : tracker' = [tracker EXCEPT !.branches[n] = b]
    BY <1>5 DEF Decide
  <2> QED
    BY <1>5, <2>1
<1>6. CASE EnterLoop(n) \/ BodyReturns(n)
  <2>1. \/ tracker' = tracker
        \/ mode[n] = "run" /\ \E i : tracker' = [tracker EXCEPT !.loops[n] = i]
    BY <1>6 DEF EnterLoop, BodyReturns, Iterate
  <2> QED
    BY <1>6, <2>1
<1>7. CASE ResumeBranch(n) \/ BranchReturns(n) \/ ResumeLoop(n) \/ Fork(n) \/ ResumeParallel(n) \/ Join(n)
  <2>1. UNCHANGED tracker
    BY <1>7 DEF ResumeBranch, BranchReturns, ResumeLoop, Fork, ResumeParallel, Join
  <2> QED
    BY <2>1
<1> QED
  BY <1>2, <1>3, <1>4, <1>5, <1>6, <1>7 DEF NodeStep, Step, Control, LocalStep

\* A step of a node takes no other node out of what Resume has not reached, and
\* makes only its children run.
LEMMA FormEffects ==
  ASSUME Base, NEW n \in Nodes, NodeStep(n)
  PROVE  /\ UNCHANGED position /\ up /\ turn = "node" /\ Running(n)
         /\ \A k \in Nodes : Unreached(k)' => Unreached(k)
         /\ \A k \in Nodes : mode'[k] = "resume" => resumed
         /\ \A k \in Nodes : pc'[k] = "called" /\ mode'[k] = "resume" => Below(k, from.at)
         /\ \A k \in Nodes : Running(k)' => Running(k) \/ IsChild(k, n)
         /\ \A k \in Nodes : k # n /\ pc'[k] = "inside" => pc[k] = "inside"
         /\ Quiet(n) \/ n \in Parallels
<1> USE DEF Base
<1>0. pc \in [Nodes -> PCs]
  BY DEF TypeOK, PCs
<1>1. CASE Goes(n)
  <2>1. PICK x \in PCs \ {"idle", "called", "inside"} : pc' = [pc EXCEPT ![n] = x]
    BY <1>1 DEF Goes
  <2> QED
    BY <1>0, <1>1, <2>1 DEF Goes, Running, Unreached, RunInv, FromInv
<1>2. ASSUME NEW cs \in SUBSET Nodes, NEW m \in {"run", "resume"}, Calling(n, cs, m)
      PROVE  /\ UNCHANGED position /\ up /\ turn = "node" /\ Running(n)
             /\ \A k \in Nodes : Unreached(k)' => Unreached(k)
             /\ \A k \in Nodes : mode'[k] = "resume" => resumed
             /\ \A k \in Nodes : pc'[k] = "called" /\ mode'[k] = "resume" => Below(k, from.at)
             /\ \A k \in Nodes : Running(k)' => Running(k) \/ IsChild(k, n)
             /\ \A k \in Nodes : k # n /\ pc'[k] = "inside" => pc[k] = "inside"
             /\ Quiet(n) \/ n \in Parallels
  <2>1. /\ pc' = [x \in Nodes |-> IF x \in cs THEN "called" ELSE IF x = n THEN "inside" ELSE pc[x]]
        /\ mode' = [x \in Nodes |-> IF x \in cs THEN m ELSE mode[x]]
    BY <1>2 DEF Calling, Calls
  <2> QED
    BY <1>2, <2>1 DEF Calling, Running, Unreached, RunInv, FromInv
<1>3. ASSUME NEW c \in Nodes, Skips(n, c)
      PROVE  /\ UNCHANGED position /\ up /\ turn = "node" /\ Running(n)
             /\ \A k \in Nodes : Unreached(k)' => Unreached(k)
             /\ \A k \in Nodes : mode'[k] = "resume" => resumed
             /\ \A k \in Nodes : pc'[k] = "called" /\ mode'[k] = "resume" => Below(k, from.at)
             /\ \A k \in Nodes : Running(k)' => Running(k) \/ IsChild(k, n)
             /\ \A k \in Nodes : k # n /\ pc'[k] = "inside" => pc[k] = "inside"
             /\ Quiet(n) \/ n \in Parallels
  BY <1>0, <1>3 DEF Skips, Running, Unreached, RunInv, FromInv
<1> QED
  BY <1>1, <1>2, <1>3, NodeForms DEF Forms

LEMMA ControlLocal ==
  ASSUME Base, TypeOK', NEW n \in Nodes, Control(n), pc'[n] = "inside"
  PROVE  /\ n \in Conditions =>
               /\ tracker'.branches[n] # None
               /\ Child(n, tracker'.branches[n]) \in Nodes
               /\ \A c \in Nodes : IsChild(c, n) /\ Running(c)' => c = Child(n, tracker'.branches[n])
         /\ n \in Loops => tracker'.loops[n] # None
<1> USE DEF Base
<1>0. pc \in [Nodes -> PCs] /\ tracker \in Tracker /\ tracker' \in Tracker
  BY DEF TypeOK, PCs
<1>1. ASSUME n \in Conditions, NEW b \in BOOLEAN, Child(n, b) # None, tracker'.branches[n] = b,
             NEW m, NEW text, Calls(n, {Child(n, b)}, m, text)
      PROVE  /\ tracker'.branches[n] # None
             /\ Child(n, tracker'.branches[n]) \in Nodes
             /\ \A c \in Nodes : IsChild(c, n) /\ Running(c)' => c = Child(n, tracker'.branches[n])
  <2>1. b # None /\ Child(n, b) \in Nodes
    BY <1>1, NoneAssumption, ChildrenShape
  <2>2. Quiet(n)
    BY <1>1, Shape, FormEffects DEF NodeStep
  <2>3. ASSUME NEW c \in Nodes, IsChild(c, n), Running(c)', c # Child(n, b)
        PROVE  FALSE
    <3>1. n # c /\ Above(n, c)
      BY <2>3, ChildAbove DEF Above
    <3>2. pc'[c] = pc[c]
      BY <1>1, <2>3, <3>1 DEF Calls
    <3> QED
      BY <2>2, <2>3, <3>1, <3>2 DEF Quiet, Running
  <2> QED
    BY <1>1, <2>1, <2>3
<1>2. CASE Decide(n)
  <2>1. n \in Conditions /\ n \notin Loops
    BY <1>2, Shape DEF Decide
  <2>2. PICK b \in BOOLEAN :
            /\ tracker' = [tracker EXCEPT !.branches[n] = b]
            /\ Child(n, b) # None /\ Calls(n, {Child(n, b)}, "run", in[n])
    BY <1>0, <1>2 DEF Decide, Fails, Returns
  <2>3. tracker'.branches[n] = b
    BY <1>0, <2>1, <2>2 DEF Tracker
  <2> QED
    BY <1>1, <2>1, <2>2, <2>3
<1>3. CASE ResumeBranch(n)
  <2>1. n \in Conditions /\ n \notin Loops /\ pc[n] = "called" /\ mode[n] = "resume" /\ UNCHANGED tracker
    BY <1>3, Shape DEF ResumeBranch
  <2>2. up /\ turn = "node" /\ Running(n) /\ resumed /\ from \in Checkpoint
    BY <1>3, <2>1, FormEffects DEF NodeStep, FromInv, TypeOK
  <2>3. tracker.branches[n] = from.tracker.branches[n]
    BY <2>1, <2>2 DEF FromInv, Unreached, Open
  <2> DEFINE b == from.tracker.branches[n]
  <2>4. b # None /\ Child(n, b) # None /\ Calls(n, {Child(n, b)}, "resume", in[n])
    BY <1>0, <1>3 DEF ResumeBranch, Fails, Returns
  <2>5. b \in BOOLEAN
    <3>1. from.tracker.branches \in [Conditions -> BOOLEAN \cup {None}]
      BY <2>2, CheckpointFields, TrackerFields
    <3> QED
      BY <2>1, <2>4, <3>1
  <2> QED
    BY <1>1, <2>1, <2>3, <2>4, <2>5
<1>4. CASE EnterLoop(n) \/ BodyReturns(n)
  <2>1. n \in Loops /\ n \notin Conditions
    BY <1>4, Shape DEF EnterLoop, BodyReturns
  <2>2. PICK i \in Nat : \/ tracker' = [tracker EXCEPT !.loops[n] = i]
                         \/ tracker' = tracker /\ pc[n] = "inside"
    <3>1. CASE EnterLoop(n)
      <4>1. mode[n] = "run" /\ tracker' = [tracker EXCEPT !.loops[n] = 0]
        BY <1>0, <3>1 DEF EnterLoop, Iterate, Returns, Fails
      <4> QED
        BY <4>1
    <3>2. CASE BodyReturns(n)
      <4>3. iter \in [Loops -> 0..MaxIter] /\ pc[n] = "inside"
        BY <3>2 DEF BodyReturns, TypeOK
      <4>1. iter[n] + 1 \in Nat /\ pc[n] = "inside"
        <5>1. MaxIter \in Nat
          BY WorkflowAssumption
        <5>2. iter[n] \in 0..MaxIter
          BY <2>1, <4>3
        <5> HIDE DEF TypeOK, Base
        <5> QED
          BY <4>3, <5>1, <5>2
      <4>2. tracker' = tracker \/ tracker' = [tracker EXCEPT !.loops[n] = iter[n] + 1]
        BY <3>2 DEF BodyReturns, Iterate
      <4> QED
        BY <4>1, <4>2
    <3> QED
      BY <1>4, <3>1, <3>2
  <2>3. tracker'.loops[n] # None
    <3>1. CASE tracker' = [tracker EXCEPT !.loops[n] = i]
      <4>1. tracker'.loops[n] = i
        BY <1>0, <2>1, <3>1 DEF Tracker
      <4> QED
        BY <4>1, NoneAssumption
    <3>2. CASE tracker' = tracker /\ pc[n] = "inside"
      BY <2>1, <3>2 DEF ControlInv
    <3> QED
      BY <2>2, <3>1, <3>2
  <2> QED
    BY <2>1, <2>3
<1>5. CASE ResumeLoop(n)
  <2>1. n \in Loops /\ n \notin Conditions /\ pc[n] = "called" /\ mode[n] = "resume" /\ UNCHANGED tracker
    BY <1>5, Shape DEF ResumeLoop
  <2>2. up /\ turn = "node" /\ Running(n) /\ resumed
    BY <1>5, <2>1, FormEffects DEF NodeStep, FromInv
  <2>3. tracker.loops[n] = from.tracker.loops[n]
    BY <2>1, <2>2 DEF FromInv, Unreached, Open
  <2>4. from.tracker.loops[n] # None
    BY <1>0, <1>5 DEF ResumeLoop, Fails
  <2> QED
    BY <2>1, <2>3, <2>4
<1>6. CASE BranchReturns(n)
  BY <1>0, <1>6 DEF BranchReturns, Returns
<1>7. CASE Fork(n) \/ ResumeParallel(n) \/ Join(n)
  BY <1>7, Shape DEF Fork, ResumeParallel, Join
<1> QED
  BY <1>2, <1>3, <1>4, <1>5, <1>6, <1>7 DEF Control

LEMMA ControlStep ==
  ASSUME Base, [Next]_vars, TypeOK'
  PROVE  ControlInv'
<1> USE DEF Base
<1>1. CASE UNCHANGED vars
  BY <1>1 DEF vars, node, ControlInv, Running
<1>2. ASSUME NEW n \in Nodes, NodeStep(n)
      PROVE  ControlInv'
  <2>1. ASSUME NEW k \in Conditions, pc'[k] = "inside"
        PROVE  /\ tracker'.branches[k] # None
               /\ Child(k, tracker'.branches[k]) \in Nodes
               /\ \A c \in Nodes : IsChild(c, k) /\ Running(c)' => c = Child(k, tracker'.branches[k])
    <3>1. CASE k = n
      <4>1. Control(n)
        <5> SUFFICES ASSUME LocalStep(n) PROVE FALSE
          BY <1>2 DEF NodeStep, LocalStep, Step
        <5>1. Goes(n)
          BY GoesLocally DEF LocalStep
        <5> QED
          BY <2>1, <3>1, <5>1 DEF Goes, TypeOK
      <4> QED
        BY <2>1, <3>1, <4>1, ControlLocal
    <3>2. CASE k # n
      <4>1. k \in Nodes /\ pc[k] = "inside" /\ tracker'.branches[k] = tracker.branches[k]
        BY <1>2, <2>1, <3>2, Shape, FormEffects, TrackerStep
      <4>2. ASSUME NEW c \in Nodes, IsChild(c, k), Running(c)'
            PROVE  Running(c)
        BY <1>2, <3>2, <4>1, <4>2, FormEffects, OneParent
      <4> QED
        BY <4>1, <4>2 DEF ControlInv
    <3> QED
      BY <3>1, <3>2
  <2>2. ASSUME NEW k \in Loops, pc'[k] = "inside"
        PROVE  tracker'.loops[k] # None
    <3>1. CASE k = n
      <4>1. Control(n)
        <5> SUFFICES ASSUME LocalStep(n) PROVE FALSE
          BY <1>2 DEF NodeStep, LocalStep, Step
        <5>1. Goes(n)
          BY GoesLocally DEF LocalStep
        <5> QED
          BY <2>2, <3>1, <5>1 DEF Goes, TypeOK
      <4> QED
        BY <2>2, <3>1, <4>1, ControlLocal
    <3>2. CASE k # n
      <4>1. k \in Nodes /\ pc[k] = "inside" /\ tracker'.loops[k] = tracker.loops[k]
        BY <1>2, <2>2, <3>2, Shape, FormEffects, TrackerStep
      <4> QED
        BY <4>1 DEF ControlInv
    <3> QED
      BY <3>1, <3>2
  <2> QED
    BY <2>1, <2>2 DEF ControlInv
<1>3. CASE Between
  <2>1. \A k \in Nodes : pc'[k] # "inside"
    <3>1. CASE Crash
      BY <3>1 DEF Crash
    <3>2. CASE ~Crash
      BY <1>3, <3>2, BetweenForms, BetweenPlaces DEF Running, CallsTop
    <3> QED
      BY <3>1, <3>2
  <2> QED
    BY <2>1, Shape DEF ControlInv
<1> QED
  BY <1>1, <1>2, <1>3, NextForms

LEMMA FromStep ==
  ASSUME Base, [Next]_vars, TypeOK'
  PROVE  FromInv'
<1> USE DEF Base
<1>1. CASE UNCHANGED vars
  BY <1>1 DEF vars, position, node, FromInv, Valid, Open, Unreached
<1>2. ASSUME NEW n \in Nodes, NodeStep(n)
      PROVE  FromInv'
  <2>1. UNCHANGED position /\ Running(n) /\ \A k \in Nodes : Unreached(k)' => Unreached(k)
    BY <1>2, FormEffects
  <2>2. ~Unreached(n) \/ (~Decide(n) /\ mode[n] # "run")
    BY <2>1 DEF Running, Unreached, Decide
  <2>3. ASSUME NEW k \in Nodes, up, Open, resumed, Unreached(k)'
        PROVE  /\ k \in Conditions => tracker'.branches[k] = from.tracker.branches[k]
               /\ k \in Loops => tracker'.loops[k] = from.tracker.loops[k]
    <3>1. Unreached(k)
      BY <2>1, <2>3
    <3>2. /\ k \in Conditions => tracker'.branches[k] = tracker.branches[k]
          /\ k \in Loops => tracker'.loops[k] = tracker.loops[k]
      BY <1>2, <2>2, <3>1, TrackerStep
    <3> QED
      BY <2>3, <3>1, <3>2 DEF FromInv
  <2>4. \A k \in Nodes : mode'[k] = "resume" => resumed
    BY <1>2, FormEffects
  <2>5. \A k \in Nodes : pc'[k] = "called" /\ mode'[k] = "resume" => Below(k, from.at)
    BY <1>2, FormEffects
  <2> QED
    BY <2>1, <2>3, <2>4, <2>5 DEF FromInv, position, Valid, Open
<1>3. CASE Between
  <2>1. CASE SavePosition
    <3>1. UNCHANGED <<top, up, resumed, from, tracker>> /\ up /\ Open
      BY <2>1 DEF SavePosition, Open
    <3>2. /\ \A k \in Nodes : Unreached(k)' => Unreached(k)
          /\ \A k \in Nodes : mode'[k] = "resume" => mode[k] = "resume"
          /\ \A k \in Nodes : pc'[k] = "called" /\ mode'[k] = "resume" => pc[k] = "called" /\ mode[k] = "resume"
      BY <2>1 DEF SavePosition, Calls, Unreached
    <3> QED
      BY <3>1, <3>2 DEF FromInv, Valid
  <2>2. CASE ResumeCompletes \/ NodeReturns
    <3>1. UNCHANGED <<top, up, resumed, from, tracker, pc, mode>> /\ (Open' => Open)
      BY <2>2 DEF ResumeCompletes, NodeReturns, Open, node
    <3> QED
      BY <3>1 DEF FromInv, Valid, Unreached
  <2>3. CASE Crash
    BY <2>3 DEF Crash, FromInv
  <2>4. CASE Interrupt
    BY <2>4 DEF Interrupt, FromInv, Open, node
  <2>5. CASE Resume
    <3>1. stored # None /\ stored.question # None /\ from' = stored /\ resumed' = TRUE /\ top' = top
      BY <2>5 DEF Resume, QuestionOf
    <3>2. CASE Valid(stored)
      <4>1. tracker' = stored.tracker
        BY <2>5, <3>2 DEF Resume
      <4>2. \A k \in Nodes : pc'[k] = "called" => k = top[stored.next]
        BY <2>5, <3>2 DEF Resume, Calls, IdleInv
      <4>3. Below(top[stored.next], stored.at)
        BY <3>2 DEF Valid
      <4>4. Valid(from)'
        BY <3>1, <3>2 DEF Valid
      <4> QED
        BY <3>1, <4>1, <4>2, <4>3, <4>4 DEF FromInv
    <3>3. CASE ~Valid(stored)
      <4>1. turn' = "failed" /\ UNCHANGED <<pc, mode>>
        BY <2>5, <3>3 DEF Resume
      <4>2. \A k \in Nodes : pc[k] = "idle"
        BY <2>5 DEF Resume, IdleInv
      <4> QED
        BY <3>1, <4>1, <4>2 DEF FromInv, Open
    <3> QED
      BY <3>2, <3>3
  <2> QED
    BY <1>3, <2>1, <2>2, <2>3, <2>4, <2>5 DEF Between
<1> QED
  BY <1>1, <1>2, <1>3, NextForms

LEMMA MergedPlaced ==
  ASSUME NEW previous \in Checkpoint \cup {None}, NEW new \in Checkpoint, Placed(previous), Placed(new)
  PROVE  Placed(Merged(previous, new))
<1>1. CASE KeepsQuestion(previous, new)
  <2>1. previous # None /\ previous.question # None
    BY <1>1 DEF KeepsQuestion
  <2>2. /\ Merged(previous, new).question = previous.question
        /\ Merged(previous, new).agent = previous.agent /\ Merged(previous, new).at = previous.at
        /\ Merged(previous, new).next = new.next /\ new # None
    BY <1>1, MergedFields, CheckpointFields
  <2> QED
    BY <2>1, <2>2 DEF Placed
<1>2. CASE ~KeepsQuestion(previous, new)
  BY <1>2, MergedFields
<1> QED
  BY <1>1, <1>2

PlacedSave(n) == Placed(save[n].draft) /\ Placed(save[n].previous)

LEMMA TopSame ==
  ASSUME [Next]_vars
  PROVE  top' = top
BY ZenonT(30) DEF Next, Run, Step, Control, vars, position, Snapshot, Register, Read, Write, Emit, Complete, Begin,
   ResumeStep, ToolReturns, Finish, StepReturns, Answered, StepFails, Work, Decide, ResumeBranch,
   BranchReturns, EnterLoop, ResumeLoop, BodyReturns, Fork, ResumeParallel, Join, SavePosition,
   ResumeCompletes, NodeReturns, Crash, Interrupt, Resume

LEMMA PlaceStep ==
  ASSUME Base, [Next]_vars, TypeOK'
  PROVE  PlaceInv'
<1> USE DEF Base
<1>0. top' = top
  BY TopSame
<1>1. CASE UNCHANGED <<saved, from>>
  BY <1>0, <1>1 DEF saved, PlaceInv, Placed
<1>2. ASSUME NEW n \in Nodes, LocalStep(n)
      PROVE  PlaceInv'
  <2> USE DEF TypeOK
  <2>0. from' = from /\ \A k \in Nodes \ {n} : save'[k] = save[k]
    BY <1>2, LocalFrame DEF position
  <2>1. SUFFICES Placed(current') /\ Placed(stored') /\ Placed(save'[n].draft) /\ Placed(save'[n].previous)
    <3> SUFFICES ASSUME NEW k \in Nodes PROVE (Placed(save[k].draft) /\ Placed(save[k].previous))'
      BY <1>0, <2>0, <2>1 DEF PlaceInv, Placed
    <3>1. CASE k = n
      BY <1>0, <2>1, <3>1 DEF Placed
    <3>2. CASE k # n
      <4>1. save'[k] = save[k] /\ Placed(save[k].draft) /\ Placed(save[k].previous)
        BY <2>0, <3>2 DEF PlaceInv
      <4> QED
        BY <1>0, <4>1 DEF Placed
    <3> QED
      BY <3>1, <3>2
  <2>2. Placed(None)
    BY DEF Placed
  <2>3. CASE Snapshot(n)
    <3>1. OfAgent(n) => n \in Steps
      BY <2>3 DEF Snapshot, OfAgent, KindInv, KindOf, Saving
    <3>2. Placed(Draft(n))
      <4>1. next <= Len(top) + 1
        BY TopShape
      <4>2. /\ Draft(n).next = next /\ Draft(n).at = n
            /\ OfAgent(n) => Draft(n).agent = [of |-> n, state |-> agent[n]]
            /\ Draft(n).question = IF OfAgent(n) /\ agent[n].pending = "ask" THEN n ELSE None
        BY <3>1, DraftFields
      <4>3. Draft(n).question # None => OfAgent(n) /\ agent[n].pending = "ask"
        BY <4>2
      <4>4. n # None /\ (OfAgent(n) => [of |-> n, state |-> agent[n]] # None)
        BY <3>1, NoneAssumption, ChildrenShape
      <4> HIDE DEF TypeOK
      <4> QED
        BY <4>1, <4>2, <4>3, <4>4 DEF Placed
    <3>3. save'[n].draft = Draft(n) /\ save'[n].previous = save[n].previous /\ UNCHANGED <<current, stored>>
      BY <2>3 DEF Snapshot
    <3> QED
      BY <3>2, <3>3 DEF PlaceInv
  <2>4. CASE Register(n)
    <3>1. n \in Steps /\ save[n].draft \in Checkpoint
      BY <2>4 DEF Register, KindInv, KindOf, Saving
    <3>2. save' = [save EXCEPT ![n] = [@ EXCEPT !.draft = WithAgent(save[n].draft, n, agent[n])]]
          /\ UNCHANGED <<current, stored>>
      BY <2>4 DEF Register, WithAgent
    <3>3. save'[n].draft = WithAgent(save[n].draft, n, agent[n]) /\ save'[n].previous = save[n].previous
      BY <3>2
    <3>4. agent[n] \in AgentCheckpoint /\ Placed(save[n].draft)
      BY <3>1 DEF PlaceInv
    <3> HIDE DEF TypeOK
    <3>5. Placed(WithAgent(save[n].draft, n, agent[n]))
      <4> DEFINE cp == save[n].draft
                 with == WithAgent(cp, n, agent[n])
      <4>1. with.next = cp.next /\ with.at = cp.at /\ with.agent = cp.agent /\ with.question = cp.question
        <5>1. cp \in Checkpoint /\ n \in Steps /\ agent[n] \in AgentCheckpoint
          BY <3>1, <3>4
        <5> HIDE DEF cp
        <5> QED
          BY <5>1, WithAgentTyped
      <4>2. cp # None
        BY <3>1, CheckpointFields
      <4> HIDE DEF cp, with
      <4>3. Placed(cp)
        BY <3>4 DEF cp
      <4>4. Placed(with)
        BY <4>1, <4>2, <4>3 DEF Placed
      <4> QED
        BY <4>4 DEF with, cp
    <3> QED
      BY <3>2, <3>3, <3>5 DEF PlaceInv
  <2>5. CASE Read(n)
    <3>1. save'[n].draft = save[n].draft /\ save'[n].previous = current /\ UNCHANGED <<current, stored>>
      BY <2>5 DEF Read
    <3> QED
      BY <3>1 DEF PlaceInv
  <2>6. CASE Write(n)
    <3>1. save[n].draft \in Checkpoint /\ save[n].previous \in Checkpoint \cup {None}
      BY <2>6 DEF Write, KindInv, KindOf, Saving
    <3>2. /\ current' = Merged(save[n].previous, save[n].draft) /\ UNCHANGED stored
          /\ save'[n].draft = Merged(save[n].previous, save[n].draft) /\ save'[n].previous = None
      BY <2>6 DEF Write
    <3>3. Placed(Merged(save[n].previous, save[n].draft))
      BY <3>1, MergedPlaced DEF PlaceInv
    <3> QED
      BY <2>2, <3>2, <3>3 DEF PlaceInv
  <2>7. CASE Emit(n)
    <3>1. save'[n] = NoSave /\ UNCHANGED current /\ (stored' = stored \/ stored' = save[n].draft)
      BY <2>7 DEF Emit
    <3> QED
      BY <2>2, <3>1 DEF PlaceInv, NoSave
  <2>8. CASE save'[n] = save[n] /\ UNCHANGED <<current, stored>>
    BY <2>8 DEF PlaceInv
  <2>9. CASE save'[n].draft = None /\ save'[n].previous = None /\ UNCHANGED <<current, stored>>
    BY <2>2, <2>9 DEF PlaceInv
  <2>10. CASE Complete(n) \/ StepReturns(n) \/ StepFails(n)
    BY <2>8, <2>9, <2>10 DEF Complete, StepReturns, StepFails, NoSave, saved
  <2>11. CASE Begin(n) \/ ResumeStep(n) \/ ToolReturns(n) \/ Finish(n) \/ Answered(n)
               \/ \E kind \in {"tool", "ask"} : Work(n, kind)
    BY <2>8, <2>9, <2>11 DEF Begin, ResumeStep, ToolReturns, Finish, Answered, Work, Saves, NoSave
  <2> QED
    BY <1>2, <2>3, <2>4, <2>5, <2>6, <2>7, <2>10, <2>11 DEF LocalStep
<1>3. ASSUME NEW n \in Nodes, Control(n)
      PROVE  PlaceInv'
  BY <1>1, <1>3, ControlFrame DEF position
<1>4. CASE Between
  <2>1. CASE SavePosition
    <3> DEFINE m == Merged(current, PositionAt(next))
    <3>1. Placed(PositionAt(next))
      <4>1. next <= Len(top) + 1
        BY TopShape DEF TypeOK
      <4> QED
        BY <4>1, PositionFields DEF Placed
    <3>2. Placed(m)
      BY <3>1, PositionFields, MergedPlaced DEF PlaceInv, TypeOK
    <3>3. current' = m /\ (stored' = m \/ stored' = stored) /\ UNCHANGED <<from, save>>
      BY <2>1 DEF SavePosition
    <3> HIDE DEF m
    <3> QED
      BY <1>0, <3>2, <3>3 DEF PlaceInv, Placed
  <2>2. CASE ResumeCompletes \/ NodeReturns \/ Interrupt
    BY <1>1, <2>2 DEF ResumeCompletes, NodeReturns, Interrupt
  <2>3. CASE Crash
    BY <1>0, <2>3 DEF Crash, NoSave, PlaceInv, Placed
  <2>4. CASE Resume
    <3>1. from' = stored /\ current' = stored /\ stored' = stored /\ save' = save
      BY <2>4 DEF Resume
    <3>2. Placed(stored) /\ \A n \in Nodes : Placed(save[n].draft) /\ Placed(save[n].previous)
      BY DEF PlaceInv
    <3> HIDE DEF TypeOK, Base
    <3> QED
      BY <1>0, <3>1, <3>2 DEF PlaceInv, Placed
  <2> QED
    BY <1>4, <2>1, <2>2, <2>3, <2>4 DEF Between
<1> QED
  BY <1>1, <1>2, <1>3, <1>4, StepCases DEF vars, position

LEMMA BaseInit == Init => Base
<1> SUFFICES ASSUME Init PROVE Base
  OBVIOUS
<1>1. top \in Workflows /\ top \in Seq(Nodes) /\ 0 \in 0..MaxIter /\ 0 \in 0..MaxCrashes[top] /\ {} \in Texts
  BY WorkflowAssumption DEF Init, ValidTaskMode, Texts
<1>2. next \in 1..(Len(top) + 1)
  BY <1>1 DEF Init
<1>3. TypeOK
  BY <1>1, <1>2, NewTyped DEF Init, TypeOK, NoSave
<1>4. RunInv /\ KindInv /\ AgentInv /\ ControlInv /\ SharedInv /\ IdleInv
  BY Shape DEF Init, RunInv, KindInv, KindOf, AgentInv, AgentOf, ControlInv, SharedInv, IdleInv, Running, Saving
<1>5. FromInv /\ PlaceInv
  BY DEF Init, FromInv, PlaceInv, Placed, NoSave
<1> QED
  BY <1>3, <1>4, <1>5 DEF Base

LEMMA BaseStep == Base /\ [Next]_vars => Base'
<1> SUFFICES ASSUME Base, [Next]_vars PROVE Base'
  OBVIOUS
<1>1. TypeOK'
  BY TypeStep
<1>2. RunInv' /\ KindInv' /\ AgentInv' /\ ControlInv'
  BY <1>1, RunStep, KindStep, AgentStep, ControlStep
<1>3. SharedInv' /\ IdleInv' /\ FromInv' /\ PlaceInv'
  BY <1>1, SharedStep, IdleStep, FromStep, PlaceStep
<1> QED
  BY <1>1, <1>2, <1>3 DEF Base


-----------------------------------------------------------------------------
(* The way to a step *)

\* Resume of cp leads to node s, unless it fails.
Led(cp, s) ==
    /\ cp # None /\ cp.next <= Len(top) /\ Below(top[cp.next], s)
    /\ \A n \in Conditions : Above(n, s) =>
          cp.tracker.branches[n] # None /\ Below(Child(n, cp.tracker.branches[n]), s)

Looped(cp, s) == \A n \in Loops : Above(n, s) => cp.tracker.loops[n] # None

\* A question outside of parallel nodes can be resumed.
Sound(cp) ==
    cp # None /\ cp.question # None /\ ~Inside(cp.question, {"parallel"}) =>
        /\ Led(cp, cp.question) /\ Looped(cp, cp.question)
        /\ cp.tracker.agents[cp.question] = cp.agent.state

\* All that runs is step s and what leads to it, which Resume may have called.
Held(s) ==
    /\ Below(top[next], s)
    /\ \A n \in Nodes : Running(n) => Below(n, s)
    /\ \A n \in Nodes : Above(n, s) => pc[n] \in {"idle", "called", "inside", "failed"}
    /\ pc[s] \notin {"done", "complete"}
    /\ \A n \in Nodes : Below(n, s) /\ pc[n] = "called" => mode[n] = "resume" /\ Led(from, s)
    /\ \A n \in Conditions : Above(n, s) /\ pc[n] = "inside" =>
          Below(Child(n, tracker.branches[n]), s)

LEMMA InParallel ==
  ASSUME NEW s \in Nodes
  PROVE  Inside(s, {"parallel"}) <=> \E p \in Parallels : Above(p, s)
BY DEF Inside, Parallels, Above

LEMMA StepsAreLeaves ==
  ASSUME NEW s \in Steps, NEW n \in Nodes
  PROVE  ~Above(s, n) /\ (Below(s, n) => s = n)
<1>1. Children[s] = <<>> /\ s \in Nodes
  BY WorkflowAssumption, Shape DEF ValidTaskMode
<1>2. ~Above(s, n)
  <2> SUFFICES ASSUME Above(s, n) PROVE FALSE
    OBVIOUS
  <2>1. \E c \in Nodes : IsChild(c, s)
    BY <1>1, ChildTowards
  <2> QED
    BY <1>1, <2>1 DEF IsChild
<1> QED
  BY <1>2 DEF Above

\* The branches and iterations of the tracker lead to what runs.
LEMMA LedNow ==
  ASSUME Base, NEW s \in Nodes, Running(s)
  PROVE  /\ next <= Len(top) /\ Below(top[next], s)
         /\ \A n \in Conditions : Above(n, s) =>
               tracker.branches[n] # None /\ Below(Child(n, tracker.branches[n]), s)
         /\ \A n \in Loops : Above(n, s) => tracker.loops[n] # None
<1>1. next <= Len(top) /\ Below(top[next], s) /\ \A n \in Nodes : Above(n, s) => pc[n] = "inside"
  BY DEF Base, RunInv
<1>2. ASSUME NEW n \in Conditions, Above(n, s)
      PROVE  tracker.branches[n] # None /\ Below(Child(n, tracker.branches[n]), s)
  <2>1. n \in Nodes /\ pc[n] = "inside"
    BY <1>1, <1>2, Shape
  <2>2. PICK c \in Nodes : IsChild(c, n) /\ Below(c, s)
    BY <1>2, <2>1, ChildTowards
  <2>3. Running(c)
    BY <1>1, <2>2 DEF Running, Above
  <2> QED
    BY <2>1, <2>2, <2>3 DEF Base, ControlInv
<1>3. \A n \in Loops : Above(n, s) => tracker.loops[n] # None
  BY <1>1, Shape DEF Base, ControlInv
<1> QED
  BY <1>1, <1>2, <1>3

LEMMA HeldStart ==
  ASSUME Base, NEW s \in Steps, ~Inside(s, {"parallel"}), Running(s), pc[s] # "called"
  PROVE  Held(s) /\ up /\ turn = "node"
<1>1. s \in Nodes
  BY Shape
<1>2. /\ up /\ turn = "node" /\ Below(top[next], s)
      /\ \A n \in Nodes : Above(n, s) => pc[n] = "inside"
  BY <1>1 DEF Base, RunInv
<1>3. \A n \in Nodes : Running(n) => Below(n, s)
  BY <1>1, StepsAreLeaves, InParallel DEF Base, SharedInv, Above
<1>4. pc[s] \notin {"done", "complete"}
  BY <1>1, InParallel, ChildAbove, Shape DEF Base, KindInv, KindOf, Running
<1>5. \A n \in Conditions : Above(n, s) => Below(Child(n, tracker.branches[n]), s)
  BY <1>1, LedNow
<1> QED
  BY <1>2, <1>3, <1>4, <1>5 DEF Held, Above

\* While step s is held, only s takes steps of an agent.
LEMMA HeldLocal ==
  ASSUME Base, NEW s \in Steps, Held(s), NEW n \in Nodes, LocalStep(n)
  PROVE  n = s
<1>1. s \in Nodes
  BY Shape
<1>2. Running(n) /\ Below(n, s)
  BY FormEffects DEF LocalStep, NodeStep, Step, Held
<1>3. n \in Steps => n = s
  BY <1>1, <1>2, StepsAreLeaves
<1>4. n \in Steps \/ pc[n] \notin {"idle", "called", "inside", "failed"}
  BY DEF LocalStep, Snapshot, Register, Read, Write, Emit, Complete, Begin, ResumeStep, ToolReturns,
         Finish, StepReturns, Answered, StepFails, Work
<1> QED
  BY <1>2, <1>3, <1>4 DEF Held, Above

LEMMA HeldControl ==
  ASSUME Base, TypeOK', NEW s \in Steps, ~Inside(s, {"parallel"}), Held(s), NEW n \in Nodes, Control(n)
  PROVE  Held(s)'
<1> USE DEF Base
<1>0. s \in Nodes /\ pc \in [Nodes -> PCs]
  BY Shape DEF TypeOK, PCs
<1>1. Running(n) /\ UNCHANGED position /\ up /\ turn = "node"
  BY FormEffects DEF NodeStep
<1>2. n \notin Steps /\ n \notin Parallels /\ Above(n, s)
  <2>1. n \notin Steps
    BY Shape DEF Control, Decide, ResumeBranch, BranchReturns, EnterLoop, ResumeLoop, BodyReturns, Fork,
                 ResumeParallel, Join
  <2>2. Below(n, s)
    BY <1>1 DEF Held
  <2> QED
    BY <1>0, <2>1, <2>2, InParallel DEF Above
<1>3. PICK c \in Nodes : IsChild(c, n) /\ Below(c, s)
  BY <1>0, <1>2, ChildTowards
<1>4. /\ pc[n] \in {"called", "inside"}
      /\ pc[n] = "called" => mode[n] = "resume" /\ resumed /\ Led(from, s) /\ Unreached(n)
  BY <1>1, <1>2 DEF Held, Above, Running, FromInv, Unreached
<1>5. pc[c] # "done"
  BY <1>3 DEF Held, Above
<1>6. ASSUME pc' = [pc EXCEPT ![n] = "failed"], mode' = mode, tracker' = tracker
      PROVE  Held(s)'
  BY <1>0, <1>1, <1>2, <1>6 DEF Held, Running, position, Above, Led
<1>7. ASSUME NEW text, Calls(n, {c}, "resume", text), tracker' = tracker, pc[n] = "called",
             n \in Conditions => c = Child(n, tracker.branches[n])
      PROVE  Held(s)'
  <2>1. /\ pc' = [x \in Nodes |-> IF x = c THEN "called" ELSE IF x = n THEN "inside" ELSE pc[x]]
        /\ mode' = [x \in Nodes |-> IF x = c THEN "resume" ELSE mode[x]]
    BY <1>7 DEF Calls
  <2>2. n # c /\ n \in Nodes /\ c \in Nodes
    BY <1>2, <1>3, ChildAbove DEF Above
  <2>3. \A k \in Nodes : Running(k)' => Below(k, s)
    BY <1>2, <1>3, <2>1 DEF Held, Running, Above
  <2>4. \A k \in Nodes : Above(k, s) => pc'[k] \in {"idle", "called", "inside", "failed"}
    BY <2>1 DEF Held
  <2>5. pc'[s] \notin {"done", "complete"}
    BY <1>0, <2>1 DEF Held
  <2>6. \A k \in Nodes : Below(k, s) /\ pc'[k] = "called" => mode'[k] = "resume" /\ Led(from, s)
    BY <1>4, <1>7, <2>1 DEF Held
  <2>7. ASSUME NEW k \in Conditions, Above(k, s), pc'[k] = "inside"
        PROVE  Below(Child(k, tracker.branches[k]), s)
    <3>1. k \in Nodes
      BY Shape
    <3>2. k = n \/ pc[k] = "inside"
      BY <2>1, <2>7, <3>1
    <3> QED
      BY <1>3, <1>7, <2>7, <3>2 DEF Held
  <2>8. UNCHANGED <<top, next, from>>
    BY <1>1 DEF position
  <2>9. Below(top[next], s)
    BY DEF Held
  <2> QED
    BY <1>7, <2>3, <2>4, <2>5, <2>6, <2>7, <2>8, <2>9 DEF Held, Led
<1>8. CASE ResumeBranch(n)
  <2>1. n \in Conditions /\ tracker' = tracker /\ pc[n] = "called"
    BY <1>8 DEF ResumeBranch
  <2> DEFINE b == from.tracker.branches[n]
  <2>2. b # None /\ Below(Child(n, b), s) /\ tracker.branches[n] = b
    BY <1>1, <1>2, <1>4, <2>1 DEF Led, FromInv, Open
  <2>3. Child(n, b) \in Nodes /\ Child(n, b) # None
    BY <1>0, <2>2, BelowNode, ChildrenShape
  <2>4. Child(n, b) = c
    <3>1. from \in Checkpoint
      BY <1>4, <2>1 DEF FromInv, TypeOK
    <3>2. from.tracker.branches \in [Conditions -> BOOLEAN \cup {None}]
      BY <3>1, CheckpointFields, TrackerFields
    <3>3. b \in BOOLEAN
      BY <2>1, <2>2, <3>2
    <3>4. IsChild(Child(n, b), n)
      BY <2>1, <2>3, <3>3, ChildrenShape
    <3> QED
      BY <1>0, <1>3, <2>2, <2>3, <3>4, OneChildTowards
  <2>5. Fails(n) \/ Calls(n, {c}, "resume", in[n])
    BY <1>8, <2>2, <2>3, <2>4 DEF ResumeBranch
  <2> QED
    BY <1>6, <1>7, <2>1, <2>2, <2>4, <2>5 DEF Fails
<1>9. CASE BranchReturns(n)
  <2>1. n \in Conditions /\ UNCHANGED <<tracker, mode>> /\ pc[n] = "inside"
    BY <1>9 DEF BranchReturns
  <2> DEFINE d == Child(n, tracker.branches[n])
  <2>2. d \in Nodes /\ Below(d, s)
    BY <1>2, <2>1 DEF ControlInv, Held
  <2>3. pc[d] # "done"
    BY <2>2 DEF Held, Above
  <2> QED
    BY <1>6, <1>9, <2>1, <2>3 DEF BranchReturns
<1>10. CASE ResumeLoop(n)
  <2>1. n \in Loops /\ n \notin Conditions /\ UNCHANGED tracker /\ pc[n] = "called" /\ Body(n) = c
    BY <1>3, <1>10, Shape, ChildrenShape DEF ResumeLoop
  <2> QED
    BY <1>6, <1>7, <1>10, <2>1 DEF ResumeLoop, Fails
<1>11. CASE BodyReturns(n)
  <2>1. Body(n) = c
    BY <1>3, <1>11, ChildrenShape DEF BodyReturns
  <2> QED
    BY <1>5, <1>6, <1>11, <2>1 DEF BodyReturns, Fails
<1>12. ~Decide(n) /\ ~EnterLoop(n) /\ ~Fork(n) /\ ~ResumeParallel(n) /\ ~Join(n)
  BY <1>2, <1>4 DEF Decide, EnterLoop, Fork, ResumeParallel, Join
<1> QED
  BY <1>8, <1>9, <1>10, <1>11, <1>12 DEF Control

\* While step s is held, it stays so, until it returns or the turn ends.
LEMMA HeldStep ==
  ASSUME Base, [Next]_vars, TypeOK', up, turn = "node",
         NEW s \in Steps, ~Inside(s, {"parallel"}), Held(s), ~StepReturns(s)
  PROVE  (up' /\ turn' = "node" /\ Held(s)') \/ (up' /\ ~Open') \/ Crash
<1> USE DEF Base
<1>0. s \in Nodes /\ pc \in [Nodes -> PCs]
  BY Shape DEF TypeOK, PCs
<1>1. CASE UNCHANGED vars
  BY <1>1 DEF vars, position, node, Held, Running, Led
<1>2. ASSUME NEW n \in Nodes, LocalStep(n)
      PROVE  up' /\ turn' = "node" /\ Held(s)'
  <2>1. n = s
    BY <1>2, HeldLocal
  <2>2. Goes(s)
    BY <1>2, <2>1, GoesLocally DEF LocalStep
  <2>3. PICK x \in PCs \ {"idle", "called", "inside"} : pc' = [pc EXCEPT ![s] = x]
    BY <2>2 DEF Goes
  <2>4. x \notin {"done", "complete"}
    <3>1. ~Complete(s)
      BY DEF Complete, Held
    <3>2. CASE Emit(s)
      <4>1. pc[s] = "emit" /\ OfAgent(s)
        BY <1>0, <3>2, InParallel, ChildAbove, Shape DEF Emit, OfAgent, KindInv, KindOf, Saving
      <4>2. pc' = [pc EXCEPT ![s] = save[s].to] \/ pc' = [pc EXCEPT ![s] = "failed"]
        BY <3>2, <4>1 DEF Emit
      <4>3. save[s].to \in Goals \ {"done"}
        BY <1>0, <4>1 DEF KindInv, KindOf, Saving, OfAgent
      <4> QED
        BY <1>0, <2>3, <4>2, <4>3 DEF Goals
    <3>3. CASE ~Emit(s)
      <4>1. pc'[s] \in {"snapshot", "register", "read", "write", "emit", "failed"}
        BY <1>0, <1>2, <2>1, <3>1, <3>3 DEF LocalStep, Snapshot, Register, Read, Write, Begin, ResumeStep,
           ToolReturns, Finish, Answered, StepFails, Work, Saves
      <4> QED
        BY <1>0, <2>3, <4>1
    <3> QED
      BY <3>2, <3>3
  <2>5. UNCHANGED position /\ UNCHANGED mode /\ \A k \in Conditions : tracker'.branches[k] = tracker.branches[k]
    BY <1>2, <2>1, <2>2, Shape, TrackerStep DEF Goes, NodeStep, LocalStep, Step, Decide
  <2> QED
    BY <1>0, <2>2, <2>3, <2>4, <2>5 DEF Held, Running, position, Above, Led, Goes
<1>3. ASSUME NEW n \in Nodes, Control(n)
      PROVE  up' /\ turn' = "node" /\ Held(s)'
  BY <1>3, HeldControl, ControlFrame DEF position
<1>4. CASE Between
  <2>1. CASE NodeReturns
    <3>1. pc[top[next]] # "done"
      <4>1. top[next] \in Nodes
        BY <1>0, BelowNode DEF Held
      <4> QED
        BY <4>1 DEF Held, Above
    <3> QED
      BY <2>1, <3>1 DEF NodeReturns, Open
  <2> QED
    BY <1>4, <2>1 DEF Between, SavePosition, ResumeCompletes, Interrupt, Resume
<1> QED
  BY <1>1, <1>2, <1>3, <1>4, StepCases


-----------------------------------------------------------------------------
(* Questions *)

\* The checkpoint sv that node n makes with agent a, where it stands at place.
SaveAs(n, place, sv, a) ==
    /\ Sound(sv.previous)
    /\ place \in Saving \ {"snapshot"} => Led(sv.draft, n) /\ Looped(sv.draft, n)
    /\ place = "register" =>
          /\ sv.draft.agent = [of |-> n, state |-> a]
          /\ sv.draft.question # None => sv.draft.question = n /\ sv.to = "asked"
    /\ place \in {"read", "write"} =>
          /\ sv.draft.question # None =>
                /\ sv.draft.question = n /\ sv.to = "asked"
                /\ sv.draft.tracker.agents[n] = sv.draft.agent.state
          /\ sv.to # "done" => sv.draft.agent # None /\ sv.draft.agent.of = n
    /\ place = "emit" =>
          /\ Sound(sv.draft)
          /\ sv.draft.question # None /\ ~Inside(sv.draft.question, {"parallel"}) =>
                sv.draft.question = n /\ sv.to = "asked"

SaveOf(n) == SaveAs(n, pc[n], save[n], agent[n])

GoodInv == Sound(stored) /\ Sound(current) /\ Sound(from) /\ \A n \in Nodes : SaveOf(n)

\* A copy of a checkpoint has the question of step q.
Asks(q) ==
    \/ QuestionOf(current) = q \/ QuestionOf(stored) = q
    \/ \E n \in Nodes : pc[n] = "write" /\ QuestionOf(save[n].previous) = q

\* Step q is where its question waits, or where it is answered.
Waits(q) ==
    /\ turn = "node" /\ Held(q) /\ pc[q] \notin {"working", "tool", "ended"}
    /\ pc[q] = "emit" /\ QuestionOf(current) = q => save[q].to = "asked"

AskInv == up /\ Open => \A q \in Steps : Asks(q) /\ ~Inside(q, {"parallel"}) => Waits(q)

\* A step that is about to execute a tool has stored the way to it.
LedInv ==
    \A s \in Steps : ~Inside(s, {"parallel"}) /\ pc[s] \in {"working", "tool", "asked", "ended"} =>
        Led(stored, s)

\* After a tool of it was executed, nothing but Resume leads to the step.
SpentInv ==
    \A s \in Steps : s \in spent /\ ~Inside(s, {"parallel"}) /\ Open =>
        Led(stored, s) /\ (up => turn = "node" /\ Held(s))

\* Only a turn that was open can be taken up.
DownInv == ~up => Open

Asking == Base /\ DownInv /\ GoodInv /\ AskInv /\ LedInv /\ SpentInv

LEMMA SoundNone == Sound(None)
BY DEF Sound

\* What is merged outside of parallel nodes is the checkpoint of the agent itself.
LEMMA MergedByAsker ==
  ASSUME Asking, NEW n \in Nodes, pc[n] = "write",
         KeepsQuestion(save[n].previous, save[n].draft)
  PROVE  /\ save[n].previous.question \in Steps
         /\ Inside(save[n].previous.question, {"parallel"})
<1> DEFINE q == save[n].previous.question
<1>1. save[n].previous \in Checkpoint /\ save[n].draft \in Checkpoint /\ q # None
  BY DEF KeepsQuestion, Asking, Base, TypeOK, KindInv, KindOf, Saving
<1>2. q \in Steps
  BY <1>1, CheckpointFields
<1>3. ASSUME ~Inside(q, {"parallel"})
      PROVE  FALSE
  <2>1. Running(n) /\ up /\ Open
    BY DEF Running, Open, Asking, Base, RunInv
  <2>2. Asks(q)
    BY <1>1, CheckpointFields DEF Asks, QuestionOf
  <2>3. Held(q)
    BY <1>2, <1>3, <2>1, <2>2 DEF Asking, AskInv, Waits
  <2>4. n = q
    BY <2>1, <2>3 DEF Held, Above
  <2>5. save[n].to # "done"
    BY <1>3, <2>4, InParallel, ChildAbove, Shape DEF Asking, Base, KindInv, KindOf, Saving
  <2>6. save[n].draft.agent # None /\ save[n].draft.agent.of = n
    BY <2>5 DEF Asking, GoodInv, SaveOf, SaveAs
  <2>7. save[n].previous.agent.of = q
    BY <1>1, CheckpointFields DEF Asking, Base, PlaceInv, Placed
  <2> QED
    BY <2>4, <2>6, <2>7 DEF KeepsQuestion
<1> QED
  BY <1>2, <1>3

LEMMA LedSame ==
  ASSUME NEW cp, NEW new, cp # None, new # None, new.next = cp.next, new.tracker.branches = cp.tracker.branches,
         new.tracker.loops = cp.tracker.loops, NEW s
  PROVE  (Led(cp, s) => Led(new, s)) /\ (Looped(cp, s) => Looped(new, s))
BY DEF Led, Looped

LEMMA SaveLocal ==
  ASSUME Asking, TypeOK', NEW n \in Nodes, LocalStep(n)
  PROVE  SaveAs(n, pc'[n], save'[n], agent'[n]) /\ Sound(current') /\ Sound(stored')
<1> USE DEF Asking, Base
<1>0. /\ save \in [Nodes -> Save] /\ pc \in [Nodes -> PCs]
      /\ SaveAs(n, pc[n], save[n], agent[n]) /\ Sound(current) /\ Sound(stored)
  BY DEF TypeOK, Save, Goals, PCs, GoodInv, SaveOf
<1>1. CASE Snapshot(n)
  <2>1. OfAgent(n) => n \in Steps
    BY <1>1 DEF Snapshot, OfAgent, KindInv, KindOf, Saving
  <2>2. Running(n)
    BY <1>1 DEF Snapshot, Running
  <2> DEFINE d == Draft(n)
  <2>3. /\ d # None /\ d.next = next /\ d.tracker = tracker
        /\ OfAgent(n) => d.agent = [of |-> n, state |-> agent[n]]
        /\ d.question = IF OfAgent(n) /\ agent[n].pending = "ask" THEN n ELSE None
    BY <2>1, DraftFields, CheckpointFields
  <2>4. /\ pc'[n] = IF OfAgent(n) THEN "register" ELSE "read"
        /\ save'[n] = [save[n] EXCEPT !.draft = d] /\ agent' = agent
        /\ current' = current /\ stored' = stored /\ pc[n] = "snapshot"
    BY <1>0, <1>1 DEF Snapshot
  <2>5. save'[n].draft = d /\ save'[n].previous = save[n].previous /\ save'[n].to = save[n].to
    BY <1>0, <2>4 DEF Save
  <2>6. d.question # None => d.question = n /\ save[n].to = "asked" /\ OfAgent(n)
    BY <2>1, <2>3, <2>4 DEF AgentInv, AgentOf, OfAgent, Saving
  <2> HIDE DEF d
  <2>7. Led(d, n) /\ Looped(d, n)
    BY <2>2, <2>3, LedNow DEF Led, Looped
  <2> QED
    BY <1>0, <2>3, <2>4, <2>5, <2>6, <2>7 DEF SaveAs, OfAgent
<1>2. CASE Register(n)
  <2> DEFINE d == save[n].draft
             w == WithAgent(d, n, agent[n])
  <2>1. n \in Steps /\ d \in Checkpoint /\ pc[n] = "register"
    BY <1>2 DEF Register, KindInv, KindOf, Saving, TypeOK
  <2>2. /\ pc'[n] = "read" /\ save'[n] = [save[n] EXCEPT !.draft = w] /\ agent' = agent
        /\ current' = current /\ stored' = stored
    BY <1>0, <1>2 DEF Register, WithAgent
  <2>3. save'[n].draft = w /\ save'[n].previous = save[n].previous /\ save'[n].to = save[n].to
    BY <1>0, <2>2 DEF Save
  <2>4. agent[n] \in AgentCheckpoint
    BY <2>1 DEF TypeOK
  <2>5. /\ w # None /\ d # None /\ w.next = d.next /\ w.agent = d.agent /\ w.question = d.question
        /\ w.tracker.agents[n] = agent[n]
        /\ w.tracker.loops = d.tracker.loops /\ w.tracker.branches = d.tracker.branches
    <3>1. d \in Checkpoint /\ n \in Steps /\ agent[n] \in AgentCheckpoint
      BY <2>1, <2>4
    <3> HIDE DEF d, Asking, Base
    <3> HIDE DEF w
    <3>2. w = WithAgent(d, n, agent[n])
      BY DEF w
    <3>4. w.next = d.next /\ w.agent = d.agent /\ w.question = d.question
      BY <3>1, <3>2, WithAgentTyped
    <3>5. w \in Checkpoint /\ w.tracker.agents[n] = agent[n]
      BY <3>1, <3>2, WithAgentTyped
    <3>6. w.tracker.loops = d.tracker.loops /\ w.tracker.branches = d.tracker.branches
      BY <3>1, <3>2, WithAgentTyped
    <3>3. w # None /\ d # None
      BY <3>1, <3>5, NoneAssumption
    <3> QED
      BY <3>3, <3>4, <3>5, <3>6
  <2>6. /\ Led(d, n) /\ Looped(d, n) /\ d.agent = [of |-> n, state |-> agent[n]]
        /\ d.question # None => d.question = n /\ save[n].to = "asked"
    BY <1>0, <2>1 DEF SaveAs, Saving
  <2>8. d.agent # None /\ d.agent.of = n /\ d.agent.state = agent[n]
    BY <2>1, <2>4, <2>6, NoneAssumption
  <2> HIDE DEF d, w
  <2>7. Led(w, n) /\ Looped(w, n)
    BY <2>5, <2>6, LedSame
  <2> QED
    BY <1>0, <2>2, <2>3, <2>5, <2>6, <2>7, <2>8 DEF SaveAs
<1>3. CASE Read(n)
  <2>1. /\ pc'[n] = "write" /\ pc[n] = "read" /\ save'[n] = [save[n] EXCEPT !.previous = current] /\ agent' = agent
        /\ current' = current /\ stored' = stored
    BY <1>0, <1>3 DEF Read
  <2>2. save'[n].draft = save[n].draft /\ save'[n].previous = current /\ save'[n].to = save[n].to
    BY <1>0, <2>1 DEF Save
  <2> QED
    BY <1>0, <2>1, <2>2 DEF SaveAs, Saving
<1>4. CASE Write(n)
  <2> DEFINE d == save[n].draft
             p == save[n].previous
             m == Merged(p, d)
  <2>1. d \in Checkpoint /\ p \in Checkpoint \cup {None} /\ pc[n] = "write"
    BY <1>4 DEF Write, KindInv, KindOf, Saving, TypeOK
  <2>2. /\ pc'[n] = "emit" /\ save'[n] = [save[n] EXCEPT !.draft = m, !.previous = None]
        /\ current' = m /\ stored' = stored
    BY <1>0, <1>4 DEF Write
  <2>3. save'[n].draft = m /\ save'[n].previous = None /\ save'[n].to = save[n].to
    BY <1>0, <2>2 DEF Save
  <2>4. /\ m # None /\ d # None /\ m.next = d.next
        /\ m.tracker.loops = d.tracker.loops /\ m.tracker.branches = d.tracker.branches
        /\ ~KeepsQuestion(p, d) => m = d
        /\ KeepsQuestion(p, d) => m.question = p.question
    <3>1. d \in Checkpoint /\ p \in Checkpoint \cup {None}
      BY <2>1
    <3>2. m = Merged(p, d)
      BY DEF m
    <3> HIDE DEF d, p, m, Asking, Base
    <3>3. m \in Checkpoint /\ m # None /\ d # None
      BY <3>1, <3>2, MergedFields, NoneAssumption
    <3> QED
      BY <3>1, <3>2, <3>3, MergedFields
  <2>5. KeepsQuestion(p, d) => Inside(p.question, {"parallel"})
    BY <2>1, MergedByAsker
  <2>6. /\ Led(d, n) /\ Looped(d, n)
        /\ d.question # None => /\ d.question = n /\ save[n].to = "asked"
                                /\ d.tracker.agents[n] = d.agent.state
    BY <1>0, <2>1 DEF SaveAs, Saving
  <2> HIDE DEF d, m, p
  <2>7. Led(m, n) /\ Looped(m, n)
    BY <2>4, <2>6, LedSame
  <2>8. Sound(m)
    BY <2>4, <2>5, <2>6 DEF Sound
  <2>9. m.question # None /\ ~Inside(m.question, {"parallel"}) => m.question = n /\ save[n].to = "asked"
    BY <2>4, <2>5, <2>6
  <2> QED
    BY <1>0, <2>2, <2>3, <2>7, <2>8, <2>9, SoundNone DEF SaveAs
<1>5. CASE Emit(n)
  <2>1. /\ save'[n] = NoSave /\ current' = current /\ stored' \in {stored, save[n].draft}
        /\ pc'[n] \in {save[n].to, "failed", "done"} /\ pc[n] = "emit"
    BY <1>0, <1>5 DEF Emit
  <2>2. pc'[n] \notin Saving
    BY <1>0, <2>1 DEF Save, Goals, Saving
  <2>3. Sound(save[n].draft)
    BY <1>0, <2>1 DEF SaveAs
  <2>4. save'[n].previous = None
    BY <2>1 DEF NoSave
  <2> QED
    BY <1>0, <2>1, <2>2, <2>3, <2>4, SoundNone DEF SaveAs, Saving
<1>6. CASE Complete(n) \/ Begin(n) \/ ResumeStep(n) \/ ToolReturns(n) \/ Finish(n) \/ Answered(n)
           \/ StepReturns(n) \/ StepFails(n) \/ \E kind \in {"tool", "ask"} : Work(n, kind)
  <2>1. /\ current' = current /\ stored' = stored
        /\ pc'[n] \in PCs \ {"register", "read", "write", "emit"}
        /\ save'[n].previous \in {save[n].previous, None}
    <3>1. CASE Complete(n) \/ StepReturns(n) \/ StepFails(n)
      BY <1>0, <3>1 DEF Complete, StepReturns, StepFails, Returns, NoSave, saved, PCs
    <3>2. CASE Begin(n) \/ ToolReturns(n) \/ Finish(n) \/ Answered(n)
      BY <1>0, <3>2 DEF Begin, ToolReturns, Finish, Answered, Saves, NoSave, PCs
    <3>3. CASE ResumeStep(n)
      BY <1>0, <3>3 DEF ResumeStep, Saves, NoSave, PCs
    <3>4. CASE \E kind \in {"tool", "ask"} : Work(n, kind)
      BY <1>0, <3>4 DEF Work, Saves, NoSave, PCs
    <3> QED
      BY <1>6, <3>1, <3>2, <3>3, <3>4
  <2> QED
    BY <1>0, <2>1, SoundNone DEF SaveAs, Saving
<1> QED
  BY <1>1, <1>2, <1>3, <1>4, <1>5, <1>6 DEF LocalStep

LEMMA GoodStep ==
  ASSUME Asking, [Next]_vars, TypeOK'
  PROVE  GoodInv'
<1> USE DEF Asking, Base
<1>0. top' = top
  BY TopSame
<1>1. SUFFICES /\ Sound(stored') /\ Sound(current') /\ Sound(from')
               /\ \A n \in Nodes : SaveAs(n, pc'[n], save'[n], agent'[n])
  <2> HIDE DEF Asking, Base
  <2>1. \A cp, s : Led(cp, s)' <=> Led(cp, s)
    BY <1>0 DEF Led
  <2>2. \A cp : Sound(cp)' <=> Sound(cp)
    BY <2>1 DEF Sound, Looped
  <2>3. \A n, place, sv, a : SaveAs(n, place, sv, a)' <=> SaveAs(n, place, sv, a)
    BY <2>1, <2>2 DEF SaveAs, Looped
  <2> QED
    BY <2>2, <2>3 DEF GoodInv, SaveOf
<1>2. /\ Sound(stored) /\ Sound(current) /\ Sound(from)
      /\ \A n \in Nodes : SaveAs(n, pc[n], save[n], agent[n])
  BY DEF GoodInv, SaveOf
<1>3. CASE UNCHANGED vars
  BY <1>2, <1>3 DEF vars, saved, node, position
<1>4. ASSUME NEW n \in Nodes, LocalStep(n)
      PROVE  /\ Sound(stored') /\ Sound(current') /\ Sound(from')
             /\ \A k \in Nodes : SaveAs(k, pc'[k], save'[k], agent'[k])
  <2>1. from' = from
    BY <1>4, LocalFrame DEF position
  <2>2. ASSUME NEW k \in Nodes, k # n
        PROVE  SaveAs(k, pc'[k], save'[k], agent'[k])
    <3>1. pc'[k] = pc[k] /\ save'[k] = save[k] /\ (k \in Steps => agent'[k] = agent[k])
      BY <1>4, <2>2, LocalFrame
    <3>2. pc[k] = "register" => k \in Steps
      BY DEF KindInv, KindOf
    <3>3. SaveAs(k, pc[k], save[k], agent[k])
      BY <1>2
    <3> QED
      BY <3>1, <3>2, <3>3 DEF SaveAs
  <2> QED
    BY <1>2, <1>4, <2>1, <2>2, SaveLocal
<1>5. ASSUME NEW n \in Nodes, Control(n)
      PROVE  /\ Sound(stored') /\ Sound(current') /\ Sound(from')
             /\ \A k \in Nodes : SaveAs(k, pc'[k], save'[k], agent'[k])
  <2>1. UNCHANGED <<from, agent, save, current, stored>>
    BY <1>5, ControlFrame DEF saved, position
  <2>2. \A k \in Nodes : pc'[k] = pc[k] \/ pc'[k] \notin Saving
    BY <1>5, FormPlaces DEF Saving
  <2>3. ASSUME NEW k \in Nodes
        PROVE  SaveAs(k, pc'[k], save'[k], agent'[k])
    <3>1. SaveAs(k, pc[k], save[k], agent[k])
      BY <1>2
    <3> QED
      BY <2>1, <2>2, <3>1 DEF SaveAs, Saving
  <2> QED
    BY <1>2, <2>1, <2>3
<1>6. CASE Between
  <2>1. \A k \in Nodes : SaveAs(k, pc'[k], save'[k], agent'[k])
    <3>1. CASE Crash
      BY <3>1, SoundNone DEF Crash, SaveAs, NoSave, Saving
    <3>2. CASE ~Crash
      <4>1. UNCHANGED <<agent, save>> /\ \A k \in Nodes : pc'[k] = pc[k] \/ pc'[k] \notin Saving
        BY <1>6, <3>2, BetweenPlaces DEF Saving
      <4> SUFFICES ASSUME NEW k \in Nodes PROVE SaveAs(k, pc'[k], save'[k], agent'[k])
        OBVIOUS
      <4>2. SaveAs(k, pc[k], save[k], agent[k])
        BY <1>2
      <4> QED
        BY <4>1, <4>2 DEF SaveAs, Saving
    <3> QED
      BY <3>1, <3>2
  <2>2. CASE SavePosition
    <3> DEFINE p == PositionAt(next)
               m == Merged(current, p)
    <3>1. p \in Checkpoint /\ p.agent = None /\ p.question = None /\ current \in Checkpoint \cup {None}
      BY PositionFields DEF TypeOK
    <3>2. Sound(m)
      <4>1. CASE KeepsQuestion(current, p)
        <5>1. current \in Checkpoint /\ m.question = current.question /\ current.question # None
          <6> HIDE DEF p
          <6> QED
            BY <3>1, <4>1, MergedFields DEF KeepsQuestion
        <5>2. current.question \in Steps
          BY <5>1, CheckpointFields
        <5>3. Asks(current.question)
          BY <5>1, CheckpointFields DEF Asks, QuestionOf
        <5>4. Inside(current.question, {"parallel"})
          BY <2>2, <5>2, <5>3 DEF SavePosition, AskInv, Waits, Open
        <5> QED
          BY <5>1, <5>4 DEF Sound
      <4>2. CASE ~KeepsQuestion(current, p)
        <5>1. m.question = None
          BY <3>1, <4>2 DEF Merged
        <5> QED
          BY <5>1 DEF Sound
      <4> QED
        BY <4>1, <4>2
    <3>3. current' = m /\ stored' \in {stored, m} /\ from' = from
      BY <2>2 DEF SavePosition
    <3> HIDE DEF m
    <3> QED
      BY <1>2, <2>1, <3>2, <3>3
  <2>3. CASE ResumeCompletes \/ NodeReturns \/ Interrupt \/ Crash
    <3>1. UNCHANGED <<current, stored, from>>
      BY <2>3 DEF ResumeCompletes, NodeReturns, Interrupt, Crash, saved
    <3> QED
      BY <1>2, <2>1, <3>1
  <2>4. CASE Resume
    <3>1. stored' = stored /\ current' = stored /\ from' = stored
      BY <2>4 DEF Resume
    <3> QED
      BY <1>2, <2>1, <3>1
  <2> QED
    BY <1>6, <2>2, <2>3, <2>4 DEF Between
<1> QED
  BY <1>3, <1>4, <1>5, <1>6, StepCases

LEMMA AskLocal ==
  ASSUME Asking, [Next]_vars, TypeOK', NEW n \in Nodes, LocalStep(n),
         NEW q \in Steps, ~Inside(q, {"parallel"}), Asks(q)'
  PROVE  Waits(q)'
<1> USE DEF Asking, Base
<1>0. /\ q \in Nodes /\ q # None /\ up /\ turn = "node" /\ up' /\ turn' = "node" /\ Running(n) /\ Open /\ Open'
      /\ pc \in [Nodes -> PCs] /\ save \in [Nodes -> Save]
  <2>1. UNCHANGED position /\ up /\ turn = "node" /\ Running(n)
    BY FormEffects DEF LocalStep, NodeStep, Step
  <2> QED
    BY <2>1, Shape, ChildrenShape DEF position, Open, TypeOK, PCs, Save, Goals
<1>1. \A k \in Nodes \ {n} : pc'[k] = pc[k] /\ save'[k] = save[k]
  BY LocalFrame
<1>2. SaveAs(n, pc'[n], save'[n], agent'[n]) /\ SaveAs(n, pc[n], save[n], agent[n])
  BY SaveLocal DEF GoodInv, SaveOf
<1>3. CASE Write(n)
  <2>1. /\ pc[n] = "write" /\ pc'[n] = "emit" /\ stored' = stored /\ save'[n].to = save[n].to
        /\ save'[n].draft = current' /\ save'[n].previous = None
    BY <1>0, <1>3 DEF Write, Save
  <2>2. current' # None => (current'.question = q => q = n /\ save'[n].to = "asked")
    BY <1>0, <1>2, <2>1 DEF SaveAs, Saving
  <2>3. Held(q) /\ ~StepReturns(q)
    <3>1. CASE Asks(q)
      BY <1>0, <3>1 DEF AskInv, Waits, StepReturns
    <3>2. CASE ~Asks(q)
      <4>1. QuestionOf(current') = q
        BY <1>1, <2>1, <3>2 DEF Asks
      <4>2. q = n
        BY <1>0, <2>2, <4>1 DEF QuestionOf
      <4> QED
        BY <1>0, <2>1, <4>2, HeldStart DEF StepReturns
    <3> QED
      BY <3>1, <3>2
  <2>4. Held(q)' /\ n = q
    BY <1>0, <2>3, HeldStep, HeldLocal DEF Crash
  <2> QED
    BY <1>0, <2>1, <2>2, <2>4 DEF Waits, QuestionOf
<1>4. CASE Emit(n)
  <2>1. /\ pc[n] = "emit" /\ current' = current
        /\ \/ stored' = save[n].draft /\ pc'[n] = save[n].to
           \/ stored' \in {stored, save[n].draft} /\ pc'[n] \in {"failed", "done"}
    BY <1>0, <1>4 DEF Emit
  <2>2. save[n].draft # None /\ (save[n].draft.question = q => q = n /\ save[n].to = "asked")
    BY <1>0, <1>2, <2>1 DEF SaveAs, KindInv, KindOf, Saving
  <2>3. Held(q) /\ ~StepReturns(q)
    <3>1. CASE Asks(q)
      BY <1>0, <3>1 DEF AskInv, Waits, StepReturns
    <3>2. CASE ~Asks(q)
      <4>1. QuestionOf(stored') = q /\ stored' # stored
        BY <1>0, <1>1, <2>1, <3>2 DEF Asks, Save, Goals
      <4>2. q = n
        BY <2>1, <2>2, <4>1 DEF QuestionOf
      <4> QED
        BY <1>0, <2>1, <4>2, HeldStart DEF StepReturns
    <3> QED
      BY <3>1, <3>2
  <2>4. Held(q)' /\ n = q
    BY <1>0, <2>3, HeldStep, HeldLocal DEF Crash
  <2>5. pc'[q] \notin {"working", "tool", "ended"}
    <3>1. CASE save[n].to = "asked"
      BY <2>1, <2>4, <3>1
    <3>2. CASE save[n].to # "asked" /\ pc'[n] = save[n].to
      <4>1. stored' = save[n].draft \/ pc'[n] \in {"failed", "done"}
        BY <2>1
      <4>2. ASSUME stored' = save[n].draft, pc'[n] \notin {"failed", "done"}
            PROVE  FALSE
        <5>1. QuestionOf(stored') # q
          BY <2>2, <3>2, <4>2 DEF QuestionOf
        <5>2. QuestionOf(current) = q \/ \E k \in Nodes : pc'[k] = "write"
          BY <2>1, <5>1 DEF Asks
        <5>3. ASSUME NEW k \in Nodes, pc'[k] = "write"
              PROVE  FALSE
          <6>1. Below(k, q)
            BY <2>4, <5>3 DEF Held, Running
          <6>2. k = q
            BY <2>4, <5>3, <6>1 DEF Held, Above
          <6> QED
            BY <1>0, <2>4, <3>2, <5>3, <6>2 DEF Save, Goals
        <5>4. QuestionOf(current) = q
          BY <5>2, <5>3
        <5>5. Asks(q)
          BY <5>4 DEF Asks
        <5> QED
          BY <1>0, <2>1, <2>4, <3>2, <5>4, <5>5 DEF AskInv, Waits
      <4> QED
        BY <2>4, <4>1, <4>2
    <3>3. CASE pc'[n] # save[n].to
      BY <2>1, <2>4, <3>3
    <3> QED
      BY <3>1, <3>2, <3>3
  <2>6. pc'[q] # "emit"
    BY <1>0, <2>1, <2>4 DEF Save, Goals
  <2> QED
    BY <1>0, <2>4, <2>5, <2>6 DEF Waits
<1>5. CASE ~Write(n) /\ ~Emit(n)
  <2>1. /\ current' = current /\ stored' = stored
        /\ pc'[n] = "write" => Read(n) /\ save'[n].previous = current
        /\ pc'[n] \in PCs \ {"emit", "working", "tool", "ended"}
    <3>1. CASE Snapshot(n) \/ Register(n) \/ Read(n)
      BY <1>0, <3>1 DEF Snapshot, Register, Read, Save, PCs
    <3>2. CASE Complete(n) \/ StepReturns(n) \/ StepFails(n)
      BY <1>0, <3>2 DEF Complete, StepReturns, StepFails, Returns, saved, PCs
    <3>3. CASE Begin(n) \/ ToolReturns(n) \/ Finish(n) \/ Answered(n) \/ ResumeStep(n)
                 \/ \E kind \in {"tool", "ask"} : Work(n, kind)
      BY <1>0, <3>3 DEF Begin, ToolReturns, Finish, Answered, ResumeStep, Work, Saves, PCs
    <3> QED
      BY <1>5, <3>1, <3>2, <3>3 DEF LocalStep
  <2>2. Asks(q)
    BY <1>1, <2>1 DEF Asks
  <2>3. Held(q) /\ ~StepReturns(q)
    BY <1>0, <2>2 DEF AskInv, Waits, StepReturns
  <2>4. Held(q)' /\ n = q
    BY <1>0, <2>3, HeldStep, HeldLocal DEF Crash
  <2> QED
    BY <1>0, <2>1, <2>4 DEF Waits
<1> QED
  BY <1>3, <1>4, <1>5

\* Resume holds the step whose question it takes up.
LEMMA ResumeHolds ==
  ASSUME Asking, [Next]_vars, TypeOK', Resume, Valid(stored),
         NEW q \in Steps, Led(stored, q)
  PROVE  /\ turn' = "node" /\ Held(q)' /\ pc'[q] \in {"idle", "called"}
         /\ \A k \in Nodes : pc'[k] \in {"idle", "called"}
<1> USE DEF Asking, Base
<1>1. /\ q \in Nodes /\ ~up /\ \A n \in Nodes : pc[n] = "idle"
  BY Shape DEF Resume, IdleInv
<1> DEFINE t == top[stored.next]
<1>2. /\ turn' = "node" /\ top' = top /\ next' = stored.next /\ from' = stored
      /\ Calls(t, {t}, "resume", stored.cur)
  BY TopSame DEF Resume
<1>3. Below(t, q)
  BY DEF Led
<1> HIDE DEF t
<1>4. /\ \A k \in Nodes : pc'[k] = IF k = t THEN "called" ELSE "idle"
      /\ \A k \in Nodes : k = t => mode'[k] = "resume"
  BY <1>1, <1>2 DEF Calls
<1>5. Below(top'[next'], q)
  BY <1>2, <1>3 DEF t
<1>6. \A n \in Nodes : Running(n)' => Below(n, q)
  BY <1>3, <1>4 DEF Running
<1>7. \A n \in Nodes : pc'[n] \in {"idle", "called"}
  BY <1>4
<1>8. \A n \in Nodes : pc'[n] = "called" => mode'[n] = "resume" /\ Led(from, q)'
  BY <1>2, <1>4 DEF Led
<1>9. \A n \in Conditions : pc'[n] # "inside"
  BY <1>7, Shape
<1> QED
  BY <1>1, <1>2, <1>5, <1>6, <1>7, <1>8, <1>9 DEF Held

LEMMA AskStep ==
  ASSUME Asking, [Next]_vars, TypeOK'
  PROVE  AskInv'
<1> USE DEF Asking, Base
<1> SUFFICES ASSUME up', Open', NEW q \in Steps, Asks(q)', ~Inside(q, {"parallel"})
             PROVE  Waits(q)'
  BY DEF AskInv
<1>0. q \in Nodes /\ pc \in [Nodes -> PCs]
  BY Shape DEF TypeOK, PCs
<1>1. CASE UNCHANGED vars
  BY <1>1 DEF vars, position, node, saved, Asks, AskInv, Waits, Open, Held, Running, Led
<1>2. CASE \E n \in Nodes : LocalStep(n)
  BY <1>2, AskLocal
<1>3. ASSUME NEW n \in Nodes, Control(n)
      PROVE  Waits(q)'
  <2>1. UNCHANGED <<position, current, stored, save>>
    BY <1>3, ControlFrame DEF saved
  <2>2. \A k \in Nodes : pc'[k] = pc[k] \/ pc'[k] \in {"called", "done", "failed", "inside", "complete"}
    BY <1>3, FormPlaces
  <2>3. Asks(q) /\ up /\ Open
    BY <2>1, <2>2 DEF Asks, position, Open
  <2>4. Waits(q)
    BY <2>3 DEF AskInv
  <2>5. Held(q)'
    BY <1>3, <2>4, HeldControl DEF Waits
  <2> QED
    BY <1>0, <2>1, <2>2, <2>4, <2>5 DEF Waits, position
<1>4. CASE NodeReturns
  <2>1. Asks(q) /\ up /\ turn = "node" /\ turn' # "node"
    BY <1>4 DEF NodeReturns, Asks, node, saved
  <2>2. Held(q) /\ ~StepReturns(q)
    BY <2>1 DEF AskInv, Waits, StepReturns, Open
  <2> QED
    BY <1>4, <2>1, <2>2, HeldStep DEF Crash
<1>5. CASE SavePosition
  <2> DEFINE p == PositionAt(next)
             m == Merged(current, p)
  <2>1. /\ current' = m /\ stored' \in {stored, m} /\ save' = save /\ up /\ turn = "position"
    BY <1>5 DEF SavePosition
  <2>2. QuestionOf(m) \in {None, QuestionOf(current)}
    <3>1. p \in Checkpoint /\ p.question = None /\ current \in Checkpoint \cup {None}
      BY PositionFields DEF TypeOK
    <3> HIDE DEF p
    <3> QED
      BY <3>1, MergedFields DEF QuestionOf, KeepsQuestion
  <2>3. \A k \in Nodes : pc'[k] = "write" => pc[k] = "write"
    BY <1>0, <1>5, BetweenPlaces DEF Between
  <2> HIDE DEF m
  <2>4. Asks(q)
    BY <1>0, <2>1, <2>2, <2>3, ChildrenShape DEF Asks, QuestionOf
  <2> QED
    BY <2>1, <2>4 DEF AskInv, Waits, Open
<1>6. CASE Resume
  <2>1. current' = stored /\ stored' = stored /\ Valid(stored)
    BY <1>6 DEF Resume, Open
  <2>2. stored \in Checkpoint /\ QuestionOf(stored) # None
    BY <1>6 DEF Resume, TypeOK, QuestionOf
  <2>3. stored.question \in Steps /\ ~Inside(stored.question, {"parallel"}) => Led(stored, stored.question)
    BY <2>2, CheckpointFields DEF GoodInv, Sound, QuestionOf
  <2>4. stored.question = q
    <3>1. Led(stored, stored.question) \/ Inside(stored.question, {"parallel"})
      BY <2>2, <2>3, CheckpointFields DEF QuestionOf
    <3>2. \A k \in Nodes : pc'[k] # "write"
      <4>1. \A k \in Nodes : pc[k] = "idle"
        BY <1>6 DEF Resume, IdleInv
      <4> QED
        BY <1>6, <4>1, BetweenPlaces DEF Between
    <3> QED
      BY <2>1, <2>2, <3>2, CheckpointFields DEF Asks, QuestionOf
  <2>5. turn' = "node" /\ Held(q)' /\ pc'[q] \in {"idle", "called"}
    BY <1>6, <2>1, <2>3, <2>4, ResumeHolds
  <2> QED
    BY <2>5 DEF Waits
<1>7. ~ResumeCompletes /\ ~Interrupt /\ ~Crash
  BY DEF ResumeCompletes, Interrupt, Crash, Open
<1> QED
  BY <1>1, <1>2, <1>3, <1>4, <1>5, <1>6, <1>7, StepCases DEF Between

LEMMA LedStep ==
  ASSUME Asking, [Next]_vars, TypeOK'
  PROVE  LedInv'
<1> USE DEF Asking, Base
<1> SUFFICES ASSUME NEW s \in Steps, ~Inside(s, {"parallel"}), pc'[s] \in {"working", "tool", "asked", "ended"}
             PROVE  Led(stored', s)
  BY TopSame DEF LedInv, Led
<1>0. s \in Nodes /\ pc \in [Nodes -> PCs] /\ save \in [Nodes -> Save]
  BY Shape DEF TypeOK, PCs, Save, Goals
<1>1. CASE UNCHANGED vars
  BY <1>1 DEF vars, node, saved, LedInv
<1>2. ASSUME NEW n \in Nodes, LocalStep(n)
      PROVE  Led(stored', s)
  <2>1. CASE Emit(n)
    <3>1. /\ pc[n] = "emit"
          /\ \/ stored' = save[n].draft /\ pc'[n] = save[n].to
             \/ pc'[n] \in {"failed", "done"}
      BY <1>0, <2>1 DEF Emit
    <3>2. SaveAs(n, pc[n], save[n], agent[n])
      BY DEF GoodInv, SaveOf
    <3>3. CASE n = s
      BY <3>1, <3>2, <3>3 DEF SaveAs, Saving
    <3>4. CASE n # s
      <4>1. pc'[s] = pc[s]
        BY <1>0, <1>2, <3>4, LocalFrame
      <4>2. Held(s)
        BY <1>0, <4>1, HeldStart DEF Running
      <4> QED
        BY <1>2, <3>4, <4>2, HeldLocal
    <3> QED
      BY <3>3, <3>4
  <2>2. CASE ~Emit(n)
    <3>1. stored' = stored
      BY <1>2, <2>2 DEF LocalStep, Snapshot, Register, Read, Write, Complete, Begin, ResumeStep, ToolReturns,
         Finish, StepReturns, Answered, StepFails, Work, saved
    <3>2. pc'[n] \in {pc[n]} \cup (PCs \ {"working", "tool", "asked", "ended"})
      BY <1>0, <1>2, <2>2 DEF LocalStep, Snapshot, Register, Read, Write, Complete, Begin, ResumeStep, ToolReturns,
         Finish, StepReturns, Returns, Answered, StepFails, Work, Saves, PCs
    <3>3. pc'[s] = pc[s]
      BY <1>0, <1>2, <3>2, LocalFrame
    <3> QED
      BY <3>1, <3>3 DEF LedInv
  <2> QED
    BY <2>1, <2>2
<1>3. ASSUME NEW n \in Nodes, Control(n)
      PROVE  Led(stored', s)
  <2>1. stored' = stored
    BY <1>3, ControlFrame DEF saved
  <2>2. pc'[s] = pc[s]
    BY <1>0, <1>3, FormPlaces
  <2> QED
    BY <2>1, <2>2 DEF LedInv
<1>4. CASE Between
  <2>1. pc'[s] = pc[s] /\ Running(s)
    BY <1>0, <1>4, BetweenPlaces DEF Running
  <2>2. stored' = stored
    <3>1. up /\ turn = "node"
      BY <1>0, <2>1 DEF RunInv
    <3> QED
      BY <1>4, <3>1 DEF Between, SavePosition, ResumeCompletes, NodeReturns, Interrupt, Crash, Resume, saved
  <2> QED
    BY <2>1, <2>2 DEF LedInv
<1> QED
  BY <1>1, <1>2, <1>3, <1>4, StepCases

LEMMA SpentStep ==
  ASSUME Asking, [Next]_vars, TypeOK'
  PROVE  SpentInv'
<1> USE DEF Asking, Base
<1> SUFFICES ASSUME NEW s \in Steps, s \in spent', ~Inside(s, {"parallel"}), Open'
             PROVE  Led(stored', s) /\ (up' => turn' = "node" /\ Held(s)')
  BY TopSame DEF SpentInv, Led
<1>0. s \in Nodes /\ pc \in [Nodes -> PCs]
  BY Shape DEF TypeOK, PCs
<1>1. CASE UNCHANGED vars
  BY <1>1 DEF vars, position, node, saved, history, SpentInv, Open, Held, Running, Led
<1>2. ASSUME NEW n \in Nodes, LocalStep(n)
      PROVE  Led(stored', s) /\ (up' => turn' = "node" /\ Held(s)')
  <2>1. UNCHANGED position /\ up /\ turn = "node" /\ Running(n)
    BY <1>2, FormEffects DEF LocalStep, NodeStep, Step
  <2>2. s \in spent \/ ToolReturns(s)
    BY <1>2 DEF LocalStep, Snapshot, Register, Read, Write, Emit, Complete, Begin, ResumeStep, ToolReturns,
       Finish, StepReturns, Answered, StepFails, Work, history
  <2>3. ~StepReturns(s)
    BY DEF StepReturns
  <2>4. Led(stored, s) /\ Held(s)
    <3>1. CASE s \in spent
      BY <2>1, <3>1 DEF SpentInv, Open
    <3>2. CASE ToolReturns(s)
      BY <1>0, <3>2, HeldStart DEF ToolReturns, LedInv, Running
    <3> QED
      BY <2>2, <3>1, <3>2
  <2>5. n = s
    BY <1>2, <2>4, HeldLocal
  <2>6. up' /\ turn' = "node" /\ Held(s)'
    BY <2>1, <2>3, <2>4, HeldStep DEF position, Crash, Open
  <2>7. Led(stored', s)
    <3>1. CASE stored' = stored
      BY <2>4, <3>1
    <3>2. CASE stored' # stored
      <4>1. Emit(s)
        BY <1>2, <2>5, <3>2 DEF LocalStep, Snapshot, Register, Read, Write, Complete, Begin, ResumeStep,
           ToolReturns, Finish, StepReturns, Answered, StepFails, Work, saved
      <4>2. stored' = save[s].draft /\ pc[s] = "emit"
        BY <3>2, <4>1 DEF Emit
      <4>3. SaveAs(s, pc[s], save[s], agent[s])
        BY <1>0 DEF GoodInv, SaveOf
      <4> QED
        BY <4>2, <4>3 DEF SaveAs, Saving
    <3> QED
      BY <3>1, <3>2
  <2> QED
    BY <2>6, <2>7
<1>3. ASSUME NEW n \in Nodes, Control(n)
      PROVE  Led(stored', s) /\ (up' => turn' = "node" /\ Held(s)')
  <2>1. UNCHANGED <<position, stored, spent>> /\ up
    BY <1>3, ControlFrame DEF saved
  <2>2. Led(stored, s) /\ turn = "node" /\ Held(s)
    BY <2>1 DEF SpentInv, position, Open
  <2> QED
    BY <1>3, <2>1, <2>2, HeldControl DEF position
<1>4. CASE Between
  <2>1. s \in spent
    BY <1>4 DEF Between, SavePosition, ResumeCompletes, NodeReturns, Interrupt, Crash, Resume, history
  <2>2. CASE Crash
    BY <2>1, <2>2 DEF Crash, SpentInv, Open
  <2>3. CASE Resume
    <3>1. stored' = stored /\ Valid(stored) /\ Open
      <4>1. stored' = stored /\ Valid(stored)
        BY <2>3 DEF Resume, Open
      <4> QED
        BY <2>3, <4>1 DEF Resume, DownInv
    <3>2. Led(stored, s)
      BY <2>1, <3>1 DEF SpentInv
    <3> QED
      BY <2>3, <3>1, <3>2, ResumeHolds
  <2>4. CASE SavePosition \/ ResumeCompletes
    BY <2>1, <2>4 DEF SavePosition, ResumeCompletes, SpentInv, Open
  <2>5. CASE NodeReturns
    <3>1. up /\ turn = "node" /\ turn' # "node" /\ Held(s) /\ ~StepReturns(s)
      BY <2>1, <2>5 DEF NodeReturns, SpentInv, Open, StepReturns
    <3> QED
      BY <2>5, <3>1, HeldStep DEF Crash
  <2>6. ~Interrupt
    BY DEF Interrupt, Open
  <2> QED
    BY <1>4, <2>2, <2>3, <2>4, <2>5, <2>6 DEF Between
<1> QED
  BY <1>1, <1>2, <1>3, <1>4, StepCases

LEMMA DownStep == DownInv /\ [Next]_vars => DownInv'
<1> SUFFICES ASSUME DownInv, [Next]_vars PROVE DownInv'
  OBVIOUS
<1>1. CASE ~up
  BY <1>1, ZenonT(30) DEF DownInv, Open, Next, Run, Step, Control, vars, position, Snapshot, Register, Read, Write, Emit,
     Complete, Begin, ResumeStep, ToolReturns, Finish, StepReturns, Answered, StepFails, Work, Decide, ResumeBranch,
     BranchReturns, EnterLoop, ResumeLoop, BodyReturns, Fork, ResumeParallel, Join, SavePosition, ResumeCompletes,
     NodeReturns, Crash, Interrupt, Resume
<1>2. CASE up
  BY <1>2, ZenonT(30) DEF DownInv, Open, Next, Run, Step, Control, vars, position, Snapshot, Register, Read, Write, Emit,
     Complete, Begin, ResumeStep, ToolReturns, Finish, StepReturns, Answered, StepFails, Work, Decide, ResumeBranch,
     BranchReturns, EnterLoop, ResumeLoop, BodyReturns, Fork, ResumeParallel, Join, SavePosition, ResumeCompletes,
     NodeReturns, Crash, Interrupt, Resume
<1> QED
  BY <1>1, <1>2

LEMMA AskingInit == Init => Asking
<1> SUFFICES ASSUME Init PROVE Asking
  OBVIOUS
<1>1. Base
  BY BaseInit
<1>2. GoodInv
  BY SoundNone DEF Init, GoodInv, SaveOf, SaveAs, NoSave, Saving
<1>3. AskInv /\ LedInv /\ SpentInv /\ DownInv
  BY Shape, ChildrenShape DEF Init, AskInv, Asks, QuestionOf, LedInv, SpentInv, DownInv
<1> QED
  BY <1>1, <1>2, <1>3 DEF Asking

LEMMA AskingStep == Asking /\ [Next]_vars => Asking'
<1> SUFFICES ASSUME Asking, [Next]_vars PROVE Asking'
  OBVIOUS
<1>1. Base'
  BY BaseStep DEF Asking
<1>2. TypeOK'
  BY <1>1 DEF Base
<1>3. GoodInv' /\ AskInv' /\ LedInv' /\ SpentInv'
  BY <1>2, GoodStep, AskStep, LedStep, SpentStep
<1>4. DownInv'
  BY DownStep DEF Asking
<1> QED
  BY <1>1, <1>3, <1>4 DEF Asking

\* A sound question can be resumed: the children towards the step are those of
\* its path.
LEMMA SoundResumable ==
  ASSUME TypeOK, NEW cp \in Checkpoint, Sound(cp), Placed(cp), cp.question # None,
         ~Inside(cp.question, {"parallel"})
  PROVE  Resumable(cp)
<1> DEFINE s == cp.question
<1>1. /\ s \in Steps /\ s \in Nodes /\ cp.at = s /\ cp.agent # None /\ cp.agent.of = s
      /\ cp.agent.state.pending = "ask" /\ cp.agent = [of |-> s, state |-> cp.agent.state]
      /\ cp.tracker.agents[s] = cp.agent.state /\ cp.agent.state \in AgentCheckpoint
  BY CheckpointFields, Shape DEF Placed, Sound
<1>2. Led(cp, s) /\ Looped(cp, s)
  BY CheckpointFields DEF Sound
<1>3. Valid(cp)
  BY <1>1, <1>2, Shape, ChildrenShape DEF Valid, Led
<1>4. SavedAgent(cp, s) = cp.agent.state
  BY <1>1, AgentFields DEF SavedAgent
<1>5. cp.tracker.branches \in [Conditions -> BOOLEAN \cup {None}]
  BY CheckpointFields, TrackerFields
<1> HIDE DEF s
<1>6. ASSUME NEW i \in 1..(Len(Path[s]) - 1)
      PROVE  LET n == Path[s][i] IN
             /\ n \in Loops => cp.tracker.loops[n] # None
             /\ n \in Conditions => /\ cp.tracker.branches[n] # None
                                    /\ Child(n, cp.tracker.branches[n]) = Path[s][i + 1]
             /\ n \in Parallels => cp.tracker.completed[Path[s][i + 1]] = None
  <2> DEFINE n == Path[s][i]
             c == Path[s][i + 1]
  <2>1. /\ n \in Nodes /\ c \in Nodes /\ Below(n, s) /\ Below(c, s) /\ IsChild(c, n)
    <3>1. i \in DOMAIN Path[s] /\ i + 1 \in DOMAIN Path[s] /\ n \in Nodes /\ c \in Nodes
      BY <1>1, PathNodes
    <3>2. \E j \in DOMAIN Children[n] : Children[n][j] = c
      BY <1>1, WorkflowAssumption
    <3> QED
      BY <3>1, <3>2 DEF Below, IsChild
  <2>2. Above(n, s)
    <3>1. Above(n, c)
      BY <2>1, ChildAbove
    <3> QED
      BY <1>1, <2>1, <3>1, Antisymmetric DEF Above
  <2> HIDE DEF n, c
  <2>3. n \notin Parallels
    BY <1>1, <2>2, InParallel DEF s
  <2>4. ASSUME n \in Conditions
        PROVE  cp.tracker.branches[n] # None /\ Child(n, cp.tracker.branches[n]) = c
    <3> DEFINE b == cp.tracker.branches[n]
               d == Child(n, b)
    <3>1. b # None /\ Below(d, s)
      BY <1>2, <2>2, <2>4 DEF Led
    <3>2. b \in BOOLEAN
      BY <1>5, <2>4, <3>1
    <3>3. d \in Nodes /\ IsChild(d, n)
      BY <1>1, <2>4, <3>1, <3>2, BelowNode, ChildrenShape
    <3> QED
      BY <1>1, <2>1, <3>1, <3>3, OneChildTowards
  <2>5. n \in Loops => cp.tracker.loops[n] # None
    BY <1>2, <2>2 DEF Looped
  <2> QED
    BY <2>3, <2>4, <2>5 DEF n, c
<1> QED
  BY <1>1, <1>3, <1>4, <1>6 DEF Resumable, s

\* QuestionResumable: a stored question outside of parallel nodes can be
\* resumed, in every tree and however often the process has crashed.
THEOREM QuestionsResumable == Spec => []QuestionResumable
<1>1. Asking => QuestionResumable
  <2> SUFFICES ASSUME Asking, QuestionOf(stored) # None, ~Inside(stored.question, {"parallel"})
               PROVE  Resumable(stored)
    BY DEF QuestionResumable
  <2>1. stored \in Checkpoint /\ stored.question # None /\ TypeOK
    BY DEF QuestionOf, Asking, Base, TypeOK
  <2> QED
    BY <2>1, SoundResumable DEF Asking, GoodInv, Base, PlaceInv
<1> QED
  BY <1>1, AskingInit, AskingStep, PTL DEF Spec

\* EffectsNotRepeatedInSequence: outside of parallel nodes no step begins anew
\* while an unfinished run of it has executed a tool, since that step is held:
\* only Resume can have called it.
THEOREM EffectsOnce == Spec => EffectsNotRepeatedInSequence
<1>1. ASSUME Asking, [Next]_vars, NEW s \in Steps, Begins(s), ~Inside(s, {"parallel"})
      PROVE  s \notin spent
  <2>1. s \in Nodes /\ Running(s) /\ pc[s] = "called" /\ mode[s] = "run"
    BY <1>1, Shape DEF Begins, Running
  <2>2. up /\ turn = "node"
    BY <1>1, <2>1 DEF Asking, Base, RunInv
  <2>3. ~Held(s)
    BY <2>1, BelowSelf DEF Held
  <2> QED
    BY <1>1, <2>2, <2>3 DEF Asking, SpentInv, Open
<1>2. Asking /\ [Next]_vars => [\A s \in Steps : Begins(s) /\ ~Inside(s, {"parallel"}) => s \notin spent]_vars
  BY <1>1
<1> QED
  BY <1>2, AskingInit, AskingStep, PTL DEF Spec, EffectsNotRepeatedInSequence

-----------------------------------------------------------------------------
(* The iterations of loops *)

\* How often a loop may begin its body beyond MaxIter after k crashes.
Repeats(k) == IF k > 1 THEN (k - 1) * (MaxIter - 1) ELSE 0

\* A loop without parallel nodes above or below it.
Flat(n) == n \in Loops /\ ~Nested(n)

CrashInv ==
    /\ crashes = 0 => ~resumed /\ \A n \in Nodes : mode[n] = "run"
    /\ ~up => crashes > 0

\* A loop that is inside an iteration has begun no body but for this iteration
\* and those before it, and those that were begun before a crash.
InLoop(n) == pc[n] = "inside" =>
    /\ iter[n] < MaxIter /\ turns[n] <= iter[n] + 1 + Repeats(crashes)
    /\ mode[n] = "run" => turns[n] = iter[n] + 1 /\ tracker.loops[n] = iter[n]

\* So it is when Resume is to go on with it in the iteration of its checkpoint,
ToResume(n) ==
    up /\ Open /\ resumed /\ Below(n, from.at) /\ from.tracker.loops[n] # None /\ Unreached(n) =>
        turns[n] <= from.tracker.loops[n] + 1 + Repeats(crashes)

\* when the stored checkpoint asks for it, before it can be a repeated one,
ToStore(n) ==
    Open /\ (crashes = 0 \/ ~up) /\ QuestionOf(stored) # None
            /\ Below(n, stored.question) /\ stored.tracker.loops[n] # None =>
        turns[n] <= stored.tracker.loops[n] + 1 + Repeats(crashes)

\* and when a checkpoint that asks for it is about to be stored.
ToSave(n) == \A q \in Steps :
    crashes = 0 /\ pc[q] \in Saving \ {"snapshot"} /\ save[q].draft.question = q /\ Below(n, q) =>
        turns[n] <= save[q].draft.tracker.loops[n] + 1

TurnsInv == \A n \in Nodes : Flat(n) =>
    turns[n] <= MaxIter + Repeats(crashes) /\ InLoop(n) /\ ToResume(n) /\ ToStore(n) /\ ToSave(n)

Counting == Asking /\ CrashInv /\ TurnsInv

LEMMA RepeatsTyped ==
  ASSUME NEW k \in Nat
  PROVE  /\ Repeats(k) \in Nat
         /\ k <= 1 => Repeats(k) = 0
         /\ k > 0 => Repeats(k + 1) = Repeats(k) + MaxIter - 1
<1>1. MaxIter \in Nat \ {0}
  BY WorkflowAssumption
<1> DEFINE a == MaxIter - 1
<1>2. a \in Nat
  BY <1>1
<1>3. k > 1 => (k - 1) * a \in Nat
  BY <1>2
<1>4. k > 0 => (k + 1 - 1) * a = (k - 1) * a + a
  BY <1>2
<1>5. k = 1 => (k - 1) * a = 0
  BY <1>2
<1> QED
  BY <1>2, <1>3, <1>4, <1>5 DEF Repeats

LEMMA FlatAlone ==
  ASSUME NEW n \in Nodes, Flat(n), NEW q \in Nodes, Below(n, q)
  PROVE  ~Inside(q, {"parallel"})
<1> SUFFICES ASSUME NEW p \in Parallels, Above(p, q) PROVE FALSE
  BY InParallel
<1>1. p \in Nodes /\ n \in Loops
  BY Shape DEF Flat
<1>2. Below(n, p) \/ Below(p, n)
  BY <1>1, Comparable DEF Above
<1> QED
  BY <1>1, <1>2, BelowSelf DEF Flat, Nested

LEMMA TurnsFrame ==
  ASSUME Base, [Next]_vars, NEW n \in Loops
  PROVE  \/ turns'[n] = turns[n]
         \/ EnterLoop(n) \/ BodyReturns(n)
<1> USE DEF Base
<1>1. turns \in [Loops -> Nat]
  BY DEF TypeOK
<1>2. CASE UNCHANGED vars
  BY <1>2 DEF vars, history
<1>3. CASE \E k \in Nodes : LocalStep(k)
  BY <1>3, LocalFrame
<1>4. ASSUME NEW k \in Nodes, Control(k)
      PROVE  turns'[n] = turns[n] \/ EnterLoop(n) \/ BodyReturns(n)
  <2>1. CASE EnterLoop(k) \/ BodyReturns(k)
    BY <1>1, <2>1 DEF EnterLoop, BodyReturns, Iterate
  <2>2. CASE ~EnterLoop(k) /\ ~BodyReturns(k)
    BY <1>4, <2>2 DEF Control, Decide, ResumeBranch, BranchReturns, ResumeLoop, Fork, ResumeParallel, Join, history
  <2> QED
    BY <2>1, <2>2
<1>5. CASE Between
  BY <1>5 DEF Between, SavePosition, ResumeCompletes, NodeReturns, Crash, Interrupt, Resume, history
<1> QED
  BY <1>2, <1>3, <1>4, <1>5, StepCases

\* What an iteration changes.
LEMMA IterateEffect ==
  ASSUME Base, NEW n \in Loops, NEW i \in Nat, NEW text, Iterate(n, i, text)
  PROVE  \/ turns'[n] = turns[n] /\ pc'[n] # "inside"
         \/ /\ i < MaxIter /\ iter'[n] = i /\ mode'[n] = mode[n]
            /\ mode[n] = "run" => tracker'.loops[n] = i
            /\ turns'[n] = (IF mode[n] = "run" /\ i = 0 THEN 0 ELSE turns[n]) + 1
<1> USE DEF Base
<1>1. /\ n \in Nodes /\ pc \in [Nodes -> PCs] /\ mode \in [Nodes -> {"run", "resume"}]
      /\ iter \in [Loops -> 0..MaxIter] /\ turns \in [Loops -> Nat] /\ tracker \in Tracker
  BY Shape DEF TypeOK, PCs
<1>2. CASE Returns(n, text) /\ UNCHANGED <<mode, in, iter, tracker, turns>>
  BY <1>1, <1>2 DEF Returns
<1>3. CASE Fails(n) /\ UNCHANGED <<iter, tracker, turns>>
  BY <1>1, <1>3 DEF Fails
<1>4. CASE /\ i < MaxIter
           /\ Calls(n, {Body(n)}, "run", text)
           /\ iter' = [iter EXCEPT ![n] = i]
           /\ tracker' = IF mode[n] = "run" THEN [tracker EXCEPT !.loops[n] = i] ELSE tracker
           /\ turns' = [turns EXCEPT ![n] = (IF mode[n] = "run" /\ i = 0 THEN 0 ELSE @) + 1]
  <2>1. n # Body(n)
    BY <1>1, ChildrenShape, ChildAbove DEF Above
  <2>2. mode'[n] = mode[n]
    BY <1>1, <1>4, <2>1 DEF Calls
  <2>3. iter'[n] = i /\ turns'[n] = (IF mode[n] = "run" /\ i = 0 THEN 0 ELSE turns[n]) + 1
    BY <1>1, <1>4
  <2>4. mode[n] = "run" => tracker'.loops[n] = i
    BY <1>1, <1>4 DEF Tracker
  <2> QED
    BY <1>4, <2>2, <2>3, <2>4
<1> QED
  BY <1>2, <1>3, <1>4 DEF Iterate

\* A loop above a held step begins no body.
LEMMA HeldTurns ==
  ASSUME Base, NEW q \in Steps, Held(q), NEW n \in Loops, Above(n, q)
  PROVE  /\ ~EnterLoop(n)
         /\ BodyReturns(n) => turns' = turns
<1>1. q \in Nodes /\ n \in Nodes
  BY Shape
<1>2. ~EnterLoop(n)
  BY <1>1 DEF EnterLoop, Held, Above
<1>3. Body(n) \in Nodes /\ Below(Body(n), q)
  BY <1>1, ChildrenShape, ChildTowards
<1>4. pc[Body(n)] # "done"
  BY <1>3 DEF Held, Above
<1> QED
  BY <1>2, <1>4 DEF BodyReturns

\* A loop above a step that runs begins no body.
LEMMA RunningTurns ==
  ASSUME Base, NEW q \in Steps, Running(q), NEW n \in Loops, Above(n, q)
  PROVE  /\ ~EnterLoop(n)
         /\ BodyReturns(n) => pc'[n] # "inside" /\ turns' = turns
<1>1. q \in Nodes /\ n \in Nodes
  BY Shape
<1>2. \A m \in Nodes : Above(m, q) => pc[m] = "inside"
  BY <1>1 DEF Base, RunInv
<1>3. Body(n) \in Nodes /\ Below(Body(n), q)
  BY <1>1, ChildrenShape, ChildTowards
<1>4. Running(Body(n))
  BY <1>2, <1>3 DEF Above, Running
<1>5. pc \in [Nodes -> PCs]
  BY DEF Base, TypeOK, PCs
<1> QED
  BY <1>1, <1>2, <1>4, <1>5 DEF Running, EnterLoop, BodyReturns, Fails

LEMMA InsideFrame ==
  ASSUME Base, [Next]_vars, NEW n \in Loops, pc'[n] = "inside",
         ~EnterLoop(n), ~BodyReturns(n), ~ResumeLoop(n)
  PROVE  /\ pc[n] = "inside" /\ iter'[n] = iter[n] /\ mode'[n] = mode[n]
         /\ tracker'.loops[n] = tracker.loops[n] /\ crashes' = crashes
<1> USE DEF Base
<1>0. /\ n \in Nodes /\ n \notin Steps /\ n \notin Conditions /\ n \notin Parallels
      /\ pc \in [Nodes -> PCs] /\ iter \in [Loops -> 0..MaxIter] /\ mode \in [Nodes -> {"run", "resume"}]
  BY Shape DEF TypeOK, PCs
<1>1. CASE UNCHANGED vars
  BY <1>1 DEF vars, node, position
<1>2. ASSUME NEW k \in Nodes, NodeStep(k)
      PROVE  /\ pc[n] = "inside" /\ iter'[n] = iter[n] /\ mode'[n] = mode[n]
             /\ tracker'.loops[n] = tracker.loops[n] /\ crashes' = crashes
  <2>1. k # n
    <3> SUFFICES ASSUME k = n PROVE FALSE
      OBVIOUS
    <3>1. LocalStep(n)
      BY <1>0, <1>2 DEF NodeStep, Step, Control, LocalStep, Decide, ResumeBranch, BranchReturns, Fork,
                        ResumeParallel, Join
    <3>2. Goes(n)
      BY <3>1, <1>0, GoesLocally DEF LocalStep
    <3> QED
      BY <1>0, <3>2 DEF Goes
  <2>2. pc[n] = "inside" /\ UNCHANGED position
    BY <1>0, <1>2, <2>1, FormEffects
  <2>3. tracker'.loops[n] = tracker.loops[n]
    BY <1>2, <2>1, TrackerStep
  <2>4. mode'[n] = mode[n]
    <3>1. Forms(k)
      BY <1>2, NodeForms
    <3>2. ASSUME NEW cs \in SUBSET Nodes, NEW m \in {"run", "resume"}, Calling(k, cs, m)
          PROVE  mode'[n] = mode[n]
      <4>1. n \notin cs
        BY <1>0, <2>2, <3>2, BelowSelf DEF Calling, Running
      <4> QED
        BY <1>0, <3>2, <4>1 DEF Calling, Calls
    <3> QED
      BY <3>1, <3>2 DEF Forms, Goes, Skips
  <2>5. iter'[n] = iter[n]
    <3>1. CASE LocalStep(k)
      BY <3>1, LocalFrame
    <3>2. CASE Control(k)
      BY <1>0, <2>1, <3>2 DEF Control, Decide, ResumeBranch, BranchReturns, EnterLoop, ResumeLoop, BodyReturns,
                              Iterate, Fork, ResumeParallel, Join
    <3> QED
      BY <1>2, <3>1, <3>2 DEF NodeStep, Step, LocalStep
  <2> QED
    BY <2>2, <2>3, <2>4, <2>5 DEF position
<1>3. CASE Between
  <2>1. pc[n] = "inside" /\ up /\ turn = "node"
    <3>1. pc[n] = "inside"
      BY <1>0, <1>3, BetweenPlaces
    <3> QED
      BY <1>0, <3>1 DEF RunInv, Running
  <2>2. ~Crash
    BY <1>0 DEF Crash
  <2>3. NodeReturns
    BY <1>3, <2>1, <2>2 DEF Between, SavePosition, ResumeCompletes, Interrupt, Resume
  <2> QED
    BY <2>1, <2>3 DEF NodeReturns, node
<1> QED
  BY <1>1, <1>2, <1>3, NextForms

LEMMA InLoopStep ==
  ASSUME Counting, [Next]_vars, TypeOK', NEW n \in Nodes, Flat(n)
  PROVE  InLoop(n)'
<1> USE DEF Counting, Asking, Base
<1> SUFFICES ASSUME pc'[n] = "inside"
             PROVE  /\ iter'[n] < MaxIter /\ turns'[n] <= iter'[n] + 1 + Repeats(crashes')
                    /\ mode'[n] = "run" => turns'[n] = iter'[n] + 1 /\ tracker'.loops[n] = iter'[n]
  BY DEF InLoop
<1>0. /\ n \in Loops /\ turns[n] \in Nat /\ iter[n] \in Nat /\ crashes \in Nat /\ MaxIter \in Nat
      /\ Repeats(crashes) \in Nat /\ InLoop(n) /\ ToResume(n)
  <2>1. n \in Loops /\ InLoop(n) /\ ToResume(n)
    BY DEF Flat, TurnsInv
  <2>2. turns[n] \in Nat /\ iter[n] \in Nat /\ crashes \in Nat /\ MaxIter \in Nat
    BY <2>1, WorkflowAssumption DEF TypeOK
  <2> QED
    BY <2>1, <2>2, RepeatsTyped
<1>1. CASE EnterLoop(n)
  <2>1. Iterate(n, 0, in[n]) /\ mode[n] = "run" /\ crashes' = crashes
    BY <1>1 DEF EnterLoop, position
  <2>2. /\ 0 < MaxIter /\ iter'[n] = 0 /\ mode'[n] = mode[n] /\ tracker'.loops[n] = 0
        /\ turns'[n] = (IF mode[n] = "run" /\ 0 = 0 THEN 0 ELSE turns[n]) + 1
    BY <1>0, <2>1, IterateEffect
  <2> HIDE DEF Counting, Asking, Base
  <2> QED
    BY <1>0, <2>1, <2>2
<1>2. CASE BodyReturns(n)
  <2>1. crashes' = crashes /\ pc[n] = "inside" /\ Iterate(n, iter[n] + 1, out[Body(n)])
    <3>1. ~Fails(n)
      BY DEF Fails, TypeOK
    <3> QED
      BY <1>2, <3>1 DEF BodyReturns, position
  <2>2. /\ iter[n] + 1 < MaxIter /\ iter'[n] = iter[n] + 1 /\ mode'[n] = mode[n]
        /\ mode[n] = "run" => tracker'.loops[n] = iter[n] + 1
        /\ turns'[n] = turns[n] + 1
    <3>1. iter[n] + 1 \in Nat /\ iter[n] + 1 # 0
      BY <1>0
    <3> QED
      BY <1>0, <2>1, <3>1, IterateEffect
  <2>3. turns[n] <= iter[n] + 1 + Repeats(crashes) /\ (mode[n] = "run" => turns[n] = iter[n] + 1)
    BY <1>0, <2>1 DEF InLoop
  <2> HIDE DEF Counting, Asking, Base
  <2> QED
    BY <1>0, <2>1, <2>2, <2>3
<1>3. CASE ResumeLoop(n)
  <2>1. /\ pc[n] = "called" /\ mode[n] = "resume" /\ turns' = turns /\ crashes' = crashes
        /\ from.tracker.loops[n] # None
        /\ Calls(n, {Body(n)}, "resume", in[n])
        /\ iter' = [iter EXCEPT ![n] = from.tracker.loops[n]]
    <3>1. ~Fails(n)
      BY DEF Fails, TypeOK
    <3> QED
      BY <1>3, <3>1 DEF ResumeLoop, position, history, ResumedAt
  <2>2. up /\ Open /\ resumed /\ Below(n, from.at) /\ Unreached(n)
    BY <2>1 DEF RunInv, Running, Open, FromInv, Unreached
  <2>3. from.tracker.loops[n] \in 0..(MaxIter - 1)
    <3>1. from \in Checkpoint
      BY <2>2 DEF FromInv, TypeOK
    <3>2. from.tracker.loops \in [Loops -> 0..(MaxIter - 1) \cup {None}]
      BY <3>1, CheckpointFields, TrackerFields
    <3> QED
      BY <1>0, <2>1, <3>2
  <2>4. turns[n] <= from.tracker.loops[n] + 1 + Repeats(crashes)
    BY <1>0, <2>1, <2>2 DEF ToResume
  <2>5. iter'[n] = from.tracker.loops[n]
    BY <1>0, <2>1 DEF TypeOK
  <2>6. mode'[n] = "resume"
    <3>1. n # Body(n)
      BY <1>0, ChildrenShape, ChildAbove DEF Above
    <3> QED
      BY <2>1, <3>1 DEF Calls
  <2> HIDE DEF Counting, Asking, Base
  <2> QED
    BY <1>0, <2>1, <2>3, <2>4, <2>5, <2>6
<1>4. CASE ~EnterLoop(n) /\ ~BodyReturns(n) /\ ~ResumeLoop(n)
  <2>1. /\ pc[n] = "inside" /\ iter'[n] = iter[n] /\ mode'[n] = mode[n]
        /\ tracker'.loops[n] = tracker.loops[n] /\ crashes' = crashes
    BY <1>0, <1>4, InsideFrame
  <2>2. turns'[n] = turns[n]
    BY <1>0, <1>4, TurnsFrame
  <2> QED
    BY <1>0, <2>1, <2>2 DEF InLoop
<1> QED
  BY <1>1, <1>2, <1>3, <1>4

\* An open turn was open.
LEMMA OpenFrame ==
  ASSUME Base, [Next]_vars, up', Open'
  PROVE  Resume \/ (up /\ Open /\ UNCHANGED <<resumed, from, crashes>>)
<1>1. CASE UNCHANGED vars
  BY <1>1 DEF vars, position, Open
<1>2. CASE \E n \in Nodes : NodeStep(n)
  BY <1>2, FormEffects DEF position, Open
<1>3. CASE Between
  BY <1>3 DEF Between, SavePosition, ResumeCompletes, NodeReturns, Crash, Interrupt, Resume, Open
<1> QED
  BY <1>1, <1>2, <1>3, NextForms

LEMMA UnreachedFrame ==
  ASSUME Base, [Next]_vars, ~Resume, up', NEW n \in Nodes, Unreached(n)'
  PROVE  Unreached(n)
<1>1. CASE UNCHANGED vars
  BY <1>1 DEF vars, node, Unreached
<1>2. CASE \E k \in Nodes : NodeStep(k)
  BY <1>2, FormEffects
<1>3. CASE Between
  <2>1. ~Crash
    BY DEF Crash
  <2>2. CASE UNCHANGED <<pc, mode, in>>
    BY <2>2 DEF Unreached
  <2>3. CASE CallsTop(next', "run")
    BY <2>3 DEF CallsTop, Calls, Unreached
  <2> QED
    BY <1>3, <2>1, <2>2, <2>3, BetweenForms
<1> QED
  BY <1>1, <1>2, <1>3, NextForms

LEMMA ToResumeStep ==
  ASSUME Counting, [Next]_vars, TypeOK', NEW n \in Nodes, Flat(n)
  PROVE  ToResume(n)'
<1> USE DEF Counting, Asking, Base
<1> SUFFICES ASSUME up', Open', resumed', Below(n, from'.at), from'.tracker.loops[n] # None, Unreached(n)'
             PROVE  turns'[n] <= from'.tracker.loops[n] + 1 + Repeats(crashes')
  BY DEF ToResume
<1>0. n \in Loops /\ ToResume(n) /\ ToStore(n)
  BY DEF Flat, TurnsInv
<1>1. CASE Resume
  <2>1. from' = stored /\ crashes' = crashes /\ turns' = turns /\ ~up /\ QuestionOf(stored) # None
    BY <1>1 DEF Resume, history
  <2>2. stored # None /\ stored.at = stored.question
    BY <2>1 DEF QuestionOf, PlaceInv, Placed
  <2> QED
    BY <1>0, <2>1, <2>2 DEF ToStore, DownInv
<1>2. CASE ~Resume
  <2>1. up /\ Open /\ UNCHANGED <<resumed, from, crashes>>
    BY <1>2, OpenFrame
  <2>2. Unreached(n)
    BY <1>2, UnreachedFrame
  <2>3. turns'[n] = turns[n]
    BY <1>0, <2>2, TurnsFrame DEF EnterLoop, BodyReturns, Unreached
  <2> QED
    BY <1>0, <2>1, <2>2, <2>3 DEF ToResume
<1> QED
  BY <1>1, <1>2

LEMMA ToStoreStep ==
  ASSUME Counting, [Next]_vars, TypeOK', NEW n \in Nodes, Flat(n)
  PROVE  ToStore(n)'
<1> USE DEF Counting, Asking, Base
<1> SUFFICES ASSUME Open', crashes' = 0 \/ ~up', QuestionOf(stored') # None,
                    Below(n, stored'.question), stored'.tracker.loops[n] # None
             PROVE  turns'[n] <= stored'.tracker.loops[n] + 1 + Repeats(crashes')
  BY DEF ToStore
<1>0. /\ n \in Loops /\ ToStore(n) /\ ToSave(n) /\ turns[n] \in Nat
      /\ turns[n] <= MaxIter + Repeats(crashes) /\ crashes \in Nat /\ MaxIter \in Nat
      /\ Repeats(0) = 0 /\ Repeats(1) = 0 /\ Repeats(crashes) \in Nat
  <2>1. n \in Loops /\ ToStore(n) /\ ToSave(n) /\ turns[n] <= MaxIter + Repeats(crashes)
    BY DEF Flat, TurnsInv
  <2>2. turns[n] \in Nat /\ crashes \in Nat /\ MaxIter \in Nat
    BY <2>1, WorkflowAssumption DEF TypeOK
  <2> QED
    BY <2>1, <2>2, RepeatsTyped
<1>1. stored' \in Checkpoint /\ stored'.question \in Steps /\ stored'.question \in Nodes
  BY CheckpointFields, Shape DEF TypeOK, QuestionOf
<1>2. stored'.tracker.loops[n] \in Nat
  <2>1. stored'.tracker.loops \in [Loops -> 0..(MaxIter - 1) \cup {None}]
    BY <1>1, CheckpointFields, TrackerFields
  <2> QED
    BY <1>0, <2>1
<1> DEFINE q == stored'.question
<1>3. ~Inside(q, {"parallel"}) /\ Above(n, q)
  BY <1>0, <1>1, FlatAlone, Shape DEF Above
<1>4. CASE Crash
  <2>1. stored' = stored /\ crashes' = crashes + 1 /\ turns' = turns /\ up /\ Open
    BY <1>4 DEF Crash, history, Open
  <2>2. CASE crashes = 0
    <3>1. turns[n] <= stored.tracker.loops[n] + 1 + Repeats(0)
      BY <1>0, <2>1, <2>2 DEF ToStore
    <3> QED
      BY <1>0, <2>1, <2>2, <3>1
  <2>3. CASE crashes # 0
    <3>1. Repeats(crashes + 1) = Repeats(crashes) + MaxIter - 1
      BY <1>0, <2>3, RepeatsTyped
    <3> HIDE DEF Counting, Asking, Base
    <3> QED
      BY <1>0, <1>2, <2>1, <3>1
  <2> QED
    BY <2>2, <2>3
<1>5. CASE UNCHANGED vars
  BY <1>0, <1>5 DEF vars, position, saved, history, ToStore, Open
<1>6. CASE ~Crash /\ ~UNCHANGED vars
  <2>1. up /\ up' /\ Open /\ crashes = 0 /\ crashes' = 0
    <3>1. CASE \E k \in Nodes : NodeStep(k)
      BY <3>1, FormEffects DEF position, Open
    <3>2. CASE Between
      BY <1>6, <3>2 DEF Between, SavePosition, ResumeCompletes, NodeReturns, Interrupt, Resume, Open, CrashInv
    <3> QED
      BY <1>6, <3>1, <3>2, NextForms
  <2>2. ASSUME Asks(q)
        PROVE  turn = "node" /\ turns'[n] = turns[n]
    <3>1. turn = "node" /\ Held(q)
      BY <1>1, <1>3, <2>1, <2>2 DEF AskInv, Waits
    <3> QED
      BY <1>0, <1>1, <1>3, <3>1, HeldTurns, TurnsFrame
  <2>3. CASE stored' = stored
    <3>1. turns'[n] = turns[n]
      BY <2>2, <2>3 DEF Asks, QuestionOf
    <3> QED
      BY <1>0, <2>1, <2>3, <3>1 DEF ToStore
  <2>4. CASE stored' # stored
    <3>1. CASE \E k \in Nodes : Emit(k)
      <4>1. PICK k \in Nodes : Emit(k)
        BY <3>1
      <4>2. stored' = save[k].draft /\ pc[k] = "emit" /\ turns' = turns
        BY <2>4, <4>1 DEF Emit, history
      <4>3. q = k
        <5>1. SaveAs(k, pc[k], save[k], agent[k])
          BY DEF GoodInv, SaveOf
        <5> QED
          BY <1>1, <1>3, <4>2, <5>1, ChildrenShape DEF SaveAs
      <4>4. turns[n] <= save[k].draft.tracker.loops[n] + 1
        BY <1>0, <1>1, <2>1, <4>2, <4>3 DEF ToSave, Saving
      <4> QED
        BY <1>0, <1>2, <2>1, <4>2, <4>4
    <3>2. CASE SavePosition
      <4> DEFINE p == PositionAt(next)
                 m == Merged(current, p)
      <4>1. stored' = m /\ turn = "position"
        BY <2>4, <3>2 DEF SavePosition
      <4>2. QuestionOf(m) \in {None, QuestionOf(current)}
        <5>1. p \in Checkpoint /\ p.question = None /\ current \in Checkpoint \cup {None}
          BY PositionFields DEF TypeOK
        <5> HIDE DEF p
        <5> QED
          BY <5>1, MergedFields DEF QuestionOf, KeepsQuestion
      <4> HIDE DEF m
      <4>3. Asks(q)
        BY <1>1, <4>1, <4>2 DEF Asks, QuestionOf
      <4> QED
        BY <2>2, <4>1, <4>3
    <3>3. ASSUME ~\E k \in Nodes : Emit(k), ~SavePosition
          PROVE  stored' = stored
      <4>1. CASE \E k \in Nodes : LocalStep(k)
        BY <3>3, <4>1 DEF LocalStep, Snapshot, Register, Read, Write, Complete, Begin, ResumeStep,
           ToolReturns, Finish, StepReturns, Answered, StepFails, Work, saved
      <4>2. CASE \E k \in Nodes : Control(k)
        BY <4>2, ControlFrame DEF saved
      <4>3. CASE Between
        BY <1>6, <3>3, <4>3 DEF Between, ResumeCompletes, NodeReturns, Interrupt, Resume, saved
      <4> QED
        BY <1>6, <4>1, <4>2, <4>3, StepCases
    <3> QED
      BY <2>4, <3>1, <3>2, <3>3
  <2> QED
    BY <2>3, <2>4
<1> QED
  BY <1>4, <1>5, <1>6

LEMMA ToSaveStep ==
  ASSUME Counting, [Next]_vars, TypeOK', NEW n \in Nodes, Flat(n)
  PROVE  ToSave(n)'
<1> USE DEF Counting, Asking, Base
<1> SUFFICES ASSUME NEW q \in Steps, crashes' = 0, pc'[q] \in Saving \ {"snapshot"},
                    save'[q].draft.question = q, Below(n, q)
             PROVE  turns'[n] <= save'[q].draft.tracker.loops[n] + 1
  BY DEF ToSave
<1>0. /\ n \in Loops /\ q \in Nodes /\ InLoop(n) /\ ToSave(n)
      /\ pc \in [Nodes -> PCs] /\ save \in [Nodes -> Save]
  BY Shape DEF Flat, TurnsInv, TypeOK, PCs, Save, Goals
<1>1. ~Inside(q, {"parallel"}) /\ Above(n, q)
  BY <1>0, FlatAlone, Shape DEF Above
<1>2. ~Crash /\ crashes = 0
  <2>1. crashes \in Nat
    BY DEF TypeOK
  <2>2. ~Crash
    BY <2>1 DEF Crash
  <2>3. CASE UNCHANGED vars
    BY <2>2, <2>3 DEF vars, position
  <2>4. CASE \E k \in Nodes : NodeStep(k)
    BY <2>2, <2>4, FormEffects DEF position
  <2>5. CASE Between
    BY <2>2, <2>5 DEF Between, SavePosition, ResumeCompletes, NodeReturns, Interrupt, Resume
  <2> QED
    BY <2>2, <2>3, <2>4, <2>5, NextForms
<1>3. ASSUME LocalStep(q)
      PROVE  turns'[n] <= save'[q].draft.tracker.loops[n] + 1
  <2>1. turns' = turns
    BY <1>0, <1>3, LocalFrame
  <2>2. CASE Snapshot(q)
    <3>1. /\ pc[q] = "snapshot" /\ save'[q].draft = Draft(q)
      BY <1>0, <2>2 DEF Snapshot, Save
    <3>2. Draft(q).tracker = tracker
      BY <1>0, DraftFields
    <3>3. pc[n] = "inside" /\ mode[n] = "run"
      BY <1>0, <1>1, <1>2, <3>1 DEF RunInv, Running, CrashInv
    <3>4. turns[n] = iter[n] + 1 /\ tracker.loops[n] = iter[n] /\ iter[n] \in Nat
      BY <1>0, <3>3 DEF InLoop, TypeOK
    <3> QED
      BY <2>1, <3>1, <3>2, <3>4
  <2>3. CASE Register(q)
    <3> DEFINE d == save[q].draft
               w == WithAgent(d, q, agent[q])
    <3>1. d \in Checkpoint /\ pc[q] = "register" /\ agent[q] \in AgentCheckpoint
      BY <2>3 DEF Register, KindInv, KindOf, Saving, TypeOK
    <3>2. save'[q].draft = w
      BY <1>0, <2>3 DEF Register, WithAgent, Save
    <3>3. w.question = d.question /\ w.tracker.loops = d.tracker.loops
      <4> HIDE DEF d
      <4> QED
        BY <3>1, WithAgentTyped
    <3> QED
      BY <1>0, <1>2, <2>1, <3>1, <3>2, <3>3 DEF ToSave, Saving
  <2>4. CASE Read(q)
    <3>1. save'[q].draft = save[q].draft /\ pc[q] = "read"
      BY <1>0, <2>4 DEF Read, Save
    <3> QED
      BY <1>0, <1>2, <2>1, <3>1 DEF ToSave, Saving
  <2>5. CASE Write(q)
    <3> DEFINE d == save[q].draft
               p == save[q].previous
    <3>1. d \in Checkpoint /\ p \in Checkpoint \cup {None} /\ pc[q] = "write"
      BY <2>5 DEF Write, KindInv, KindOf, Saving, TypeOK
    <3>2. save'[q].draft = Merged(p, d)
      BY <1>0, <2>5 DEF Write, Save
    <3>3. KeepsQuestion(p, d) => Inside(p.question, {"parallel"})
      BY <1>0, <3>1, MergedByAsker
    <3>4. Merged(p, d) = d
      <4> HIDE DEF d, p
      <4> QED
        BY <1>1, <3>1, <3>2, <3>3, MergedFields
    <3> QED
      BY <1>0, <1>2, <2>1, <3>1, <3>2, <3>4 DEF ToSave, Saving
  <2>6. CASE ~Snapshot(q) /\ ~Register(q) /\ ~Read(q) /\ ~Write(q)
    <3>1. pc'[q] \notin Saving \ {"snapshot"}
      <4>1. CASE Emit(q)
        BY <1>0, <4>1 DEF Emit, Save, Goals, Saving
      <4>2. CASE ~Emit(q)
        BY <1>0, <1>3, <2>6, <4>2 DEF LocalStep, Complete, Begin, ResumeStep, ToolReturns, Finish, StepReturns,
           Answered, StepFails, Work, Saves, Returns, Saving
      <4> QED
        BY <4>1, <4>2
    <3> QED
      BY <3>1
  <2> QED
    BY <2>2, <2>3, <2>4, <2>5, <2>6
<1>4. ASSUME ~LocalStep(q)
      PROVE  turns'[n] <= save'[q].draft.tracker.loops[n] + 1
  <2>1. pc'[q] = pc[q] /\ save'[q] = save[q]
    <3>1. CASE UNCHANGED vars
      BY <3>1 DEF vars, node, saved
    <3>2. CASE \E k \in Nodes : LocalStep(k)
      BY <1>0, <1>4, <3>2, LocalFrame
    <3>3. CASE \E k \in Nodes : Control(k)
      BY <1>0, <3>3, FormPlaces, ControlFrame DEF saved, Saving
    <3>4. CASE Between
      BY <1>0, <1>2, <3>4, BetweenPlaces DEF Saving
    <3> QED
      BY <3>1, <3>2, <3>3, <3>4, StepCases
  <2>2. turns'[n] = turns[n]
    <3>1. Running(q)
      BY <2>1 DEF Running, Saving
    <3> QED
      BY <1>0, <1>1, <3>1, RunningTurns, TurnsFrame
  <2> QED
    BY <1>0, <1>2, <2>1, <2>2 DEF ToSave
<1> QED
  BY <1>3, <1>4

LEMMA CrashStep ==
  ASSUME Counting, [Next]_vars
  PROVE  CrashInv'
<1> USE DEF Counting, Asking, Base
<1>0. crashes \in Nat
  BY DEF TypeOK
<1>1. CASE UNCHANGED vars
  BY <1>1 DEF vars, position, node, CrashInv
<1>2. CASE \E n \in Nodes : NodeStep(n)
  <2>1. PICK k \in Nodes : NodeStep(k)
    BY <1>2
  <2>2. UNCHANGED position /\ up /\ \A n \in Nodes : mode'[n] = "resume" => resumed
    BY <2>1, FormEffects
  <2>3. mode' \in [Nodes -> {"run", "resume"}]
    BY TypeStep DEF TypeOK
  <2> QED
    BY <2>2, <2>3 DEF position, CrashInv
<1>3. CASE Between
  BY <1>0, <1>3 DEF Between, SavePosition, ResumeCompletes, NodeReturns, Interrupt, Resume, Crash, CrashInv, node, Calls
<1> QED
  BY <1>1, <1>2, <1>3, NextForms

LEMMA TurnsStep ==
  ASSUME Counting, [Next]_vars, TypeOK'
  PROVE  TurnsInv'
<1> USE DEF Counting, Asking, Base
<1> SUFFICES ASSUME NEW n \in Nodes, Flat(n)
             PROVE  /\ turns'[n] <= MaxIter + Repeats(crashes')
                    /\ InLoop(n)' /\ ToResume(n)' /\ ToStore(n)' /\ ToSave(n)'
  BY DEF TurnsInv, Flat
<1>1. InLoop(n)' /\ ToResume(n)' /\ ToStore(n)' /\ ToSave(n)'
  BY InLoopStep, ToResumeStep, ToStoreStep, ToSaveStep
<1>2. /\ n \in Loops /\ turns[n] <= MaxIter + Repeats(crashes) /\ turns[n] \in Nat /\ turns'[n] \in Nat
      /\ crashes \in Nat /\ crashes' \in Nat /\ MaxIter \in Nat \ {0}
  BY WorkflowAssumption DEF Flat, TurnsInv, TypeOK
<1>3. Repeats(crashes) \in Nat /\ Repeats(crashes') \in Nat
  BY <1>2, RepeatsTyped
<1>4. turns'[n] <= MaxIter + Repeats(crashes')
  <2>1. CASE turns'[n] = turns[n]
    <3>1. Repeats(crashes) <= Repeats(crashes')
      <4>1. crashes' = crashes \/ crashes' = crashes + 1
        <5>1. CASE UNCHANGED vars
          BY <5>1 DEF vars, position
        <5>2. CASE \E k \in Nodes : NodeStep(k)
          BY <5>2, FormEffects DEF position
        <5>3. CASE Between
          BY <5>3 DEF Between, SavePosition, ResumeCompletes, NodeReturns, Interrupt, Resume, Crash
        <5> QED
          BY <5>1, <5>2, <5>3, NextForms
      <4>2. crashes = 0 => Repeats(crashes) = 0
        BY <1>2, RepeatsTyped
      <4>3. crashes > 0 => Repeats(crashes + 1) = Repeats(crashes) + MaxIter - 1
        BY <1>2, RepeatsTyped
      <4> HIDE DEF Counting, Asking, Base
      <4> QED
        BY <1>2, <1>3, <4>1, <4>2, <4>3
    <3> HIDE DEF Counting, Asking, Base
    <3> QED
      BY <1>2, <1>3, <2>1, <3>1
  <2>2. CASE turns'[n] # turns[n]
    <3>1. EnterLoop(n) \/ BodyReturns(n)
      BY <1>2, <2>2, TurnsFrame
    <3>2. pc'[n] = "inside"
      <4>1. pc \in [Nodes -> PCs]
        BY DEF TypeOK, PCs
      <4> QED
        <5>1. n # Body(n)
          BY <1>2, ChildrenShape, ChildAbove DEF Above
        <5>2. \E text : Calls(n, {Body(n)}, "run", text)
          BY <2>2, <3>1 DEF EnterLoop, BodyReturns, Iterate
        <5> QED
          BY <1>2, <5>1, <5>2 DEF Calls
    <3>3. iter'[n] < MaxIter /\ iter'[n] \in Nat /\ turns'[n] <= iter'[n] + 1 + Repeats(crashes')
      BY <1>1, <1>2, <3>2 DEF InLoop, TypeOK
    <3> HIDE DEF Counting, Asking, Base
    <3> QED
      BY <1>2, <1>3, <3>3
  <2> QED
    BY <2>1, <2>2
<1> QED
  BY <1>1, <1>4

\* LoopBounded: a loop without parallel nodes around it or in it begins its
\* body at most MaxIter times, and from the second crash on at most MaxIter - 1
\* times more for each.
THEOREM LoopsBounded == Spec => []LoopBounded
<1>1. Init => Counting
  <2> SUFFICES ASSUME Init PROVE Counting
    OBVIOUS
  <2>1. CrashInv
    BY DEF Init, CrashInv
  <2>2. Repeats(0) = 0 /\ MaxIter \in Nat /\ MaxIter \in Nat \ {0}
    BY RepeatsTyped, WorkflowAssumption
  <2>3. TurnsInv
    BY <2>2, Shape DEF Init, TurnsInv, Flat, InLoop, ToResume, ToStore, ToSave, QuestionOf, Saving
  <2> QED
    BY <2>1, <2>3, AskingInit DEF Counting
<1>2. Counting /\ [Next]_vars => Counting'
  <2> SUFFICES ASSUME Counting, [Next]_vars PROVE Counting'
    OBVIOUS
  <2>1. Asking'
    BY AskingStep DEF Counting
  <2>2. TypeOK'
    BY <2>1 DEF Asking, Base
  <2> QED
    BY <2>1, <2>2, CrashStep, TurnsStep DEF Counting
<1>3. Counting => LoopBounded
  BY Shape DEF Counting, TurnsInv, Flat, LoopBounded, Repeats
<1> QED
  BY <1>1, <1>2, <1>3, PTL DEF Spec

-----------------------------------------------------------------------------
(* The children of parallel nodes that have completed *)

\* It is not in a loop, and not in two parallel nodes.
Once(c) == ~Inside(c, {"loop"}) /\ ~InsideTwo(c)

AtChild(c) == \E p \in Parallels : IsChild(c, p)

Known(t) == \A c \in Nodes : t.completed[c] # None => tracker.completed[c] # None

CompletedOf(cp) == \A c \in Nodes : cp.tracker.completed[c] # None =>
    AtChild(c) /\ \E i \in 1..cp.next : i <= Len(top) /\ Below(top[i], c)

\* The stored checkpoint is at the current top-level node, or before it.
NextInv == up /\ Open /\ stored # None =>
    stored.next <= next /\ (turn = "node" => stored.next = next)

\* What checkpoints know as completed, the tracker knows.
KnownInv ==
    /\ stored # None => CompletedOf(stored)
    /\ up /\ Open =>
        /\ stored # None => Known(stored.tracker)
        /\ \A n \in Nodes : pc[n] \in Saving \ {"snapshot"} =>
              save[n].draft.next = next /\ Known(save[n].draft.tracker)
        /\ \A c \in Nodes : tracker.completed[c] # None =>
              /\ AtChild(c)
              /\ \E i \in 1..next : i <= Len(top) /\ Below(top[i], c) /\ (turn = "position" => i < next)

\* Completed child c is over: only Resume can come to it, and knows it.
OverAt(c) ==
    /\ pc[c] \in {"idle", "snapshot", "read", "write", "emit", "done"}
    /\ pc[c] \in Saving => save[c].to = "done"
    /\ \A n \in Nodes : Above(n, c) /\ pc[n] = "called" => mode[n] = "resume"
    /\ turn = "node" /\ pc[c] = "idle" /\ Below(top[next], c) => resumed /\ WasCompleted(c)

OnceInv == up /\ Open =>
    \A c \in Nodes : tracker.completed[c] # None /\ Once(c) => OverAt(c)

Completing == Base /\ DownInv /\ NextInv /\ KnownInv /\ OnceInv

LEMMA CompletedGrows ==
  ASSUME Base, NEW n \in Nodes, NodeStep(n), NEW c \in Nodes
  PROVE  /\ tracker.completed[c] # None => tracker'.completed[c] # None
         /\ tracker'.completed[c] # None => tracker.completed[c] # None \/ Complete(c)
<1>1. tracker'.completed[c] = tracker.completed[c] \/ (c = n /\ Complete(n))
  BY TrackerStep
<1>2. CASE Complete(c)
  <2>1. out[c] \in Texts
    BY DEF Base, TypeOK
  <2>2. tracker'.completed[c] = out[c]
    BY <1>2 DEF Complete, Base, TypeOK, Tracker
  <2> QED
    BY <1>2, <2>1, <2>2, NoneAssumption
<1> QED
  BY <1>1, <1>2

\* A node that saves was saving, at an earlier place of its save.
LEMMA DraftKnown ==
  ASSUME Completing, TypeOK', NEW n \in Nodes, LocalStep(n), pc'[n] \in Saving \ {"snapshot"}
  PROVE  save'[n].draft.next = next /\ Known(save'[n].draft.tracker)
<1> USE DEF Completing, Base
<1>0. /\ pc \in [Nodes -> PCs] /\ save \in [Nodes -> Save] /\ up /\ Open
      /\ Running(n)
  BY FormEffects DEF TypeOK, PCs, Save, Goals, LocalStep, NodeStep, Step, Open
<1>1. pc[n] \in Saving \ {"snapshot"} => save[n].draft.next = next /\ Known(save[n].draft.tracker)
  BY <1>0 DEF KnownInv
<1>2. CASE Snapshot(n)
  <2>1. save'[n].draft = Draft(n)
    BY <1>0, <1>2 DEF Snapshot, Save
  <2>2. OfAgent(n) => n \in Steps
    BY <1>2 DEF Snapshot, OfAgent, KindInv, KindOf, Saving
  <2>3. Draft(n).next = next /\ Draft(n).tracker = tracker
    BY <2>2, DraftFields
  <2> QED
    BY <2>1, <2>3 DEF Known
<1>3. CASE Register(n)
  <2> DEFINE d == save[n].draft
             w == WithAgent(d, n, agent[n])
  <2>1. d \in Checkpoint /\ pc[n] = "register" /\ agent[n] \in AgentCheckpoint /\ n \in Steps
    BY <1>3 DEF Register, KindInv, KindOf, Saving, TypeOK
  <2>2. save'[n].draft = w
    BY <1>0, <1>3 DEF Register, WithAgent, Save
  <2>3. w.next = d.next /\ w.tracker.completed = d.tracker.completed
    <3> HIDE DEF d, Base
    <3> QED
      BY <2>1, WithAgentTyped
  <2> QED
    BY <1>1, <2>1, <2>2, <2>3 DEF Known, Saving
<1>4. CASE Read(n)
  <2>1. save'[n].draft = save[n].draft /\ pc[n] = "read"
    BY <1>0, <1>4 DEF Read, Save
  <2> QED
    BY <1>1, <2>1 DEF Saving
<1>5. CASE Write(n)
  <2> DEFINE d == save[n].draft
             p == save[n].previous
  <2>1. d \in Checkpoint /\ p \in Checkpoint \cup {None} /\ pc[n] = "write"
    BY <1>5 DEF Write, KindInv, KindOf, Saving, TypeOK
  <2>2. save'[n].draft = Merged(p, d)
    BY <1>0, <1>5 DEF Write, Save
  <2>3. Merged(p, d).next = d.next /\ Merged(p, d).tracker.completed = d.tracker.completed
    <3> HIDE DEF d, p
    <3> QED
      BY <2>1, MergedFields
  <2> QED
    BY <1>1, <2>1, <2>2, <2>3 DEF Known, Saving
<1>6. CASE ~Snapshot(n) /\ ~Register(n) /\ ~Read(n) /\ ~Write(n)
  <2>1. CASE Emit(n)
    BY <1>0, <2>1 DEF Emit, Save, Goals, Saving
  <2>2. CASE ~Emit(n)
    BY <1>0, <1>6, <2>2 DEF LocalStep, Complete, Begin, ResumeStep, ToolReturns, Finish, StepReturns,
       Answered, StepFails, Work, Saves, Returns, Saving
  <2> QED
    BY <2>1, <2>2
<1> QED
  BY <1>2, <1>3, <1>4, <1>5, <1>6

\* What a step stores.
LEMMA StoredFrame ==
  ASSUME Base, [Next]_vars
  PROVE  \/ stored' = stored
         \/ \E n \in Nodes : Emit(n) /\ pc[n] = "emit" /\ stored' = save[n].draft
         \/ /\ SavePosition /\ stored' # None
            /\ stored'.next = next /\ stored'.tracker.completed = NewTracker.completed
<1> USE DEF Base
<1>1. CASE UNCHANGED vars
  BY <1>1 DEF vars, saved
<1>2. ASSUME NEW n \in Nodes, LocalStep(n), stored' # stored
      PROVE  Emit(n) /\ pc[n] = "emit" /\ stored' = save[n].draft
  <2>1. Emit(n)
    BY <1>2 DEF LocalStep, Snapshot, Register, Read, Write, Complete, Begin, ResumeStep,
       ToolReturns, Finish, StepReturns, Answered, StepFails, Work, saved
  <2> QED
    BY <1>2, <2>1 DEF Emit
<1>3. CASE \E n \in Nodes : Control(n)
  BY <1>3, ControlFrame DEF saved
<1>4. CASE SavePosition
  <2> DEFINE p == PositionAt(next)
             m == Merged(current, p)
  <2>1. p \in Checkpoint /\ p.next = next /\ p.tracker = NewTracker /\ current \in Checkpoint \cup {None}
    BY PositionFields DEF TypeOK
  <2>2. m \in Checkpoint /\ m.next = next /\ m.tracker.completed = NewTracker.completed
    <3> HIDE DEF p
    <3> QED
      BY <2>1, MergedFields
  <2>3. stored' = stored \/ stored' = m
    BY <1>4 DEF SavePosition
  <2> HIDE DEF m
  <2> QED
    BY <1>4, <2>2, <2>3, NoneAssumption
<1>5. CASE Between /\ ~SavePosition
  BY <1>5 DEF Between, ResumeCompletes, NodeReturns, Interrupt, Resume, Crash, saved
<1> QED
  BY <1>1, <1>2, <1>3, <1>4, <1>5, StepCases

LEMMA NextStep ==
  ASSUME Completing, [Next]_vars
  PROVE  NextInv'
<1> USE DEF Completing, Base
<1> SUFFICES ASSUME up', Open', stored' # None
             PROVE  stored'.next <= next' /\ (turn' = "node" => stored'.next = next')
  BY DEF NextInv
<1>0. next \in Nat /\ TypeOK'
  BY TopShape, TypeStep DEF TypeOK
<1>1. CASE Resume
  <2>1. stored' = stored /\ next' = stored.next /\ stored'.next \in Nat
    BY <1>0, <1>1, CheckpointFields DEF Resume, TypeOK
  <2> QED
    BY <2>1
<1>2. CASE ~Resume
  <2>0. up /\ Open
    BY <1>2, OpenFrame
  <2>1. CASE SavePosition
    <3>1. turn' = "node" => stored'.next = next
      <4> DEFINE p == PositionAt(next)
                 m == Merged(current, p)
      <4>1. p \in Checkpoint /\ p.next = next /\ current \in Checkpoint \cup {None}
        BY PositionFields DEF TypeOK
      <4>2. m.next = next
        <5> HIDE DEF p
        <5> QED
          BY <4>1, MergedFields
      <4>3. turn' = "node" => stored' = m
        BY <2>1 DEF SavePosition
      <4> HIDE DEF m
      <4> QED
        BY <4>2, <4>3
    <3>2. next' = next /\ turn' # "position"
      BY <2>1 DEF SavePosition
    <3> QED
      BY <1>0, <3>1, <3>2 DEF Open
  <2>2. ASSUME NEW n \in Nodes, Emit(n), pc[n] = "emit", stored' = save[n].draft
        PROVE  stored'.next <= next' /\ (turn' = "node" => stored'.next = next')
    <3>1. save[n].draft.next = next
      BY <2>0, <2>2 DEF KnownInv, Saving
    <3>2. next' = next
      BY <2>2 DEF Emit, position
    <3> QED
      BY <1>0, <2>2, <3>1, <3>2
  <2>3. CASE stored' = stored /\ ~SavePosition
    <3>1. stored.next \in Nat /\ stored.next <= next /\ (turn = "node" => stored.next = next)
      BY <2>0, <2>3, CheckpointFields DEF NextInv, TypeOK
    <3>2. UNCHANGED <<turn, next>> \/ (NodeReturns /\ turn' # "node" /\ next' \in {next, next + 1})
      <4>1. CASE UNCHANGED vars
        BY <4>1 DEF vars, position
      <4>2. CASE \E n \in Nodes : NodeStep(n)
        BY <4>2, FormEffects DEF position
      <4>3. CASE Between
        BY <1>2, <2>3, <4>3 DEF Between, ResumeCompletes, NodeReturns, Interrupt, Crash, Open
      <4> QED
        BY <4>1, <4>2, <4>3, NextForms
    <3> QED
      BY <1>0, <2>3, <3>1, <3>2
  <2> QED
    BY <2>1, <2>2, <2>3, StoredFrame
<1> QED
  BY <1>1, <1>2

LEMMA TrackerGrows ==
  ASSUME Base, [Next]_vars, ~Resume, up', NEW c \in Nodes
  PROVE  /\ tracker.completed[c] # None => tracker'.completed[c] # None
         /\ tracker'.completed[c] # None => tracker.completed[c] # None \/ Complete(c)
<1>1. CASE UNCHANGED vars
  BY <1>1 DEF vars
<1>2. CASE \E n \in Nodes : NodeStep(n)
  BY <1>2, CompletedGrows
<1>3. CASE Between
  BY <1>3 DEF Between, SavePosition, ResumeCompletes, NodeReturns, Interrupt, Crash
<1> QED
  BY <1>1, <1>2, <1>3, NextForms

\* Between nodes nothing saves.
LEMMA BetweenSaves ==
  ASSUME Base, Between, NEW n \in Nodes
  PROVE  pc'[n] \notin Saving
<1>1. ~Running(n) \/ Crash
  BY BetweenForms DEF CallsTop
<1>2. CASE Crash
  BY <1>2 DEF Crash, Saving
<1>3. CASE ~Running(n)
  BY <1>3, BetweenPlaces DEF Running, Saving
<1> QED
  BY <1>1, <1>2, <1>3

LEMMA KnownStep ==
  ASSUME Completing, [Next]_vars, TypeOK'
  PROVE  KnownInv'
<1> USE DEF Completing, Base
<1>0. top' = top /\ next \in Nat /\ pc \in [Nodes -> PCs]
  BY TopSame, TopShape DEF TypeOK, PCs
<1>1. stored' # None => CompletedOf(stored')
  <2>1. ASSUME NEW n \in Nodes, Emit(n), pc[n] = "emit", stored' = save[n].draft
        PROVE  CompletedOf(stored')
    <3>1. save[n].draft.next = next /\ Known(save[n].draft.tracker) /\ up /\ Open
      <4>1. up /\ Open
        BY <2>1 DEF Emit, RunInv, Running, Open
      <4> QED
        BY <2>1, <4>1 DEF KnownInv, Saving
    <3> QED
      BY <2>1, <3>1 DEF CompletedOf, Known, KnownInv
  <2>2. ASSUME stored'.tracker.completed = NewTracker.completed
        PROVE  CompletedOf(stored')
    BY <2>2 DEF CompletedOf, NewTracker
  <2> QED
    BY <2>1, <2>2, StoredFrame DEF KnownInv
<1>2. ASSUME Resume, up', Open'
      PROVE  /\ tracker' = stored' .tracker
             /\ \A n \in Nodes : pc'[n] \notin Saving
             /\ \A c \in Nodes : tracker'.completed[c] # None =>
                   /\ AtChild(c)
                   /\ \E i \in 1..next' : /\ i <= Len(top) /\ Below(top[i], c)
                                          /\ turn' = "position" => i < next'
  <2>1. /\ stored' = stored /\ tracker' = stored.tracker /\ next' = stored.next /\ turn' = "node"
        /\ stored # None
    BY <1>2 DEF Resume, Open, QuestionOf
  <2>2. CompletedOf(stored)
    BY <2>1 DEF KnownInv
  <2>3. \A n \in Nodes : pc'[n] \notin Saving
    BY <1>2, BetweenSaves DEF Between
  <2> QED
    BY <2>1, <2>2, <2>3 DEF CompletedOf
<1>3. ASSUME ~Resume, up', Open'
      PROVE  /\ stored' # None => \A c \in Nodes : stored'.tracker.completed[c] # None => tracker'.completed[c] # None
             /\ \A n \in Nodes : pc'[n] \in Saving \ {"snapshot"} =>
                   /\ save'[n].draft.next = next'
                   /\ \A c \in Nodes : save'[n].draft.tracker.completed[c] # None => tracker'.completed[c] # None
             /\ \A c \in Nodes : tracker'.completed[c] # None =>
                   /\ AtChild(c)
                   /\ \E i \in 1..next' : /\ i <= Len(top) /\ Below(top[i], c)
                                          /\ turn' = "position" => i < next'
  <2>1. up /\ Open
    BY <1>3, OpenFrame
  <2>2. /\ \A c \in Nodes : tracker.completed[c] # None => tracker'.completed[c] # None
        /\ \A c \in Nodes : tracker'.completed[c] # None => tracker.completed[c] # None \/ Complete(c)
    BY <1>3, TrackerGrows
  <2>3. stored' # None => \A c \in Nodes : stored'.tracker.completed[c] # None => tracker'.completed[c] # None
    <3>1. CASE stored' = stored
      BY <2>1, <2>2, <3>1 DEF KnownInv, Known
    <3>2. ASSUME NEW n \in Nodes, pc[n] = "emit", stored' = save[n].draft
          PROVE  \A c \in Nodes : stored'.tracker.completed[c] # None => tracker'.completed[c] # None
      BY <2>1, <2>2, <3>2 DEF KnownInv, Known, Saving
    <3>3. CASE stored'.tracker.completed = NewTracker.completed
      BY <3>3 DEF NewTracker
    <3> QED
      BY <3>1, <3>2, <3>3, StoredFrame
  <2>4. ASSUME NEW n \in Nodes, pc'[n] \in Saving \ {"snapshot"}
        PROVE  /\ save'[n].draft.next = next'
               /\ \A c \in Nodes : save'[n].draft.tracker.completed[c] # None => tracker'.completed[c] # None
    <3>1. CASE LocalStep(n)
      <4>1. next' = next
        BY <3>1, LocalFrame DEF position
      <4>2. save'[n].draft.next = next /\ Known(save'[n].draft.tracker)
        BY <2>4, <3>1, DraftKnown
      <4> QED
        BY <2>2, <4>1, <4>2 DEF Known
    <3>2. CASE ~LocalStep(n)
      <4>1. pc'[n] = pc[n] /\ save'[n] = save[n] /\ next' = next
        <5>1. CASE UNCHANGED vars
          BY <5>1 DEF vars, node, saved, position
        <5>2. CASE \E k \in Nodes : LocalStep(k)
          BY <3>2, <5>2, LocalFrame DEF position
        <5>3. CASE \E k \in Nodes : Control(k)
          BY <2>4, <5>3, FormPlaces, ControlFrame DEF saved, position, Saving
        <5>4. ~Between
          BY <2>4, BetweenSaves
        <5> QED
          BY <5>1, <5>2, <5>3, <5>4, StepCases
      <4> QED
        BY <2>1, <2>2, <2>4, <4>1 DEF KnownInv, Known
    <3> QED
      BY <3>1, <3>2
  <2>5. ASSUME NEW c \in Nodes, tracker'.completed[c] # None
        PROVE  /\ AtChild(c)
               /\ \E i \in 1..next' : /\ i <= Len(top) /\ Below(top[i], c)
                                      /\ turn' = "position" => i < next'
    <3>1. CASE Complete(c)
      <4>1. pc[c] = "complete" /\ turn' = turn /\ next' = next
        BY <3>1 DEF Complete, position
      <4>2. turn = "node" /\ Below(top[next], c) /\ next <= Len(top) /\ AtChild(c)
        BY <4>1 DEF RunInv, Running, KindInv, KindOf, AtChild
      <4>3. next \in 1..next
        BY DEF TypeOK
      <4> QED
        BY <4>1, <4>2, <4>3
    <3>2. CASE tracker.completed[c] # None
      <4>1. AtChild(c)
        BY <2>1, <3>2 DEF KnownInv
      <4>2. PICK i \in 1..next : i <= Len(top) /\ Below(top[i], c) /\ (turn = "position" => i < next)
        BY <2>1, <3>2 DEF KnownInv
      <4>3. UNCHANGED <<turn, next>> \/ next' = next + 1 \/ (next' = next /\ turn' = "node")
        <5>1. CASE UNCHANGED vars
          BY <5>1 DEF vars, position
        <5>2. CASE \E n \in Nodes : NodeStep(n)
          BY <5>2, FormEffects DEF position
        <5>3. CASE Between
          BY <1>3, <5>3 DEF Between, SavePosition, ResumeCompletes, NodeReturns, Interrupt, Crash, Open
        <5> QED
          BY <5>1, <5>2, <5>3, NextForms
      <4>4. i \in 1..next' /\ (turn' = "position" => i < next')
        BY <1>0, <4>2, <4>3
      <4> QED
        BY <4>1, <4>2, <4>4
    <3> QED
      BY <2>2, <2>5, <3>1, <3>2
  <2> QED
    BY <2>3, <2>4, <2>5
<1>4. CASE Resume
  BY <1>0, <1>1, <1>2, <1>4 DEF KnownInv, Known, CompletedOf, AtChild
<1>5. CASE ~Resume
  BY <1>0, <1>1, <1>3, <1>5 DEF KnownInv, Known, CompletedOf, AtChild
<1> QED
  BY <1>4, <1>5

\* A completed child is not called again, and not what leads to it, unless by
\* Resume.
LEMMA OverCalls ==
  ASSUME Completing, NEW c \in Nodes, OverAt(c), tracker.completed[c] # None, Once(c),
         NEW n \in Nodes, Control(n), NEW k \in Nodes, Below(k, c), pc[k] # "called", pc'[k] = "called"
  PROVE  k # c /\ mode'[k] = "resume"
<1> USE DEF Completing, Base
<1>0. /\ c \in Nodes /\ up /\ turn = "node" /\ Running(n) /\ Open
      /\ pc \in [Nodes -> PCs]
  BY FormEffects DEF NodeStep, Open, TypeOK, PCs
<1>1. PICK p \in Parallels : IsChild(c, p)
  BY <1>0 DEF KnownInv, AtChild
<1>2. p \in Nodes /\ Above(p, c)
  BY <1>1, Shape, ChildAbove
<1>3. PICK cs \in SUBSET Nodes, m \in {"run", "resume"} : Calling(n, cs, m) /\ k \in cs
  <2>1. Forms(n)
    BY NodeForms DEF NodeStep
  <2>2. ~Goes(n)
    BY <1>0 DEF Goes
  <2>3. \A d \in Nodes : ~Skips(n, d)
    BY <1>0 DEF Skips
  <2>4. PICK cs \in SUBSET Nodes, m \in {"run", "resume"} : Calling(n, cs, m)
    BY <2>1, <2>2, <2>3 DEF Forms
  <2>5. k \in cs
    BY <1>0, <2>4 DEF Calling, Calls
  <2> QED
    BY <2>4, <2>5
<1>4. IsChild(k, n) /\ mode'[k] = m
  BY <1>3 DEF Calling, Calls
<1>5. Above(n, k) /\ Above(n, c)
  <2>1. Above(n, k)
    BY <1>4, ChildAbove
  <2>2. Below(n, c)
    BY <2>1, BelowTransitive DEF Above
  <2>3. n # c
    BY <2>1, Antisymmetric DEF Above
  <2> QED
    BY <2>1, <2>2, <2>3 DEF Above
<1>6. pc[n] = "called" => mode[n] = "resume"
  BY <1>5 DEF OverAt
<1>7. n \notin Loops
  BY <1>5, Shape DEF Once, Inside, Above, Loops
<1>8. n \in Parallels => n = p
  BY <1>2, <1>5 DEF Once, InsideTwo, Above
<1>9. CASE k = c
  <2>1. n = p
    BY <1>1, <1>2, <1>4, <1>9, OneParent
  <2>2. ResumeParallel(n)
    <3>1. ~Join(n)
      BY <1>0, <1>5 DEF Join, Returns, Above
    <3>2. ~Fork(n)
      BY <1>6 DEF Fork
    <3>3. n \notin Conditions /\ n \notin Loops
      BY <2>1, Shape
    <3> QED
      BY <3>1, <3>2, <3>3 DEF Control, Decide, ResumeBranch, BranchReturns, EnterLoop, ResumeLoop, BodyReturns
  <2>3. pc[c] = "idle" /\ ~WasCompleted(c)
    <3>1. PICK i \in DOMAIN Children[n] :
            LET d == Children[n][i] IN
            /\ pc[d] = "idle"
            /\ IF WasCompleted(d)
               THEN pc' = [pc EXCEPT ![n] = "inside", ![d] = "done"]
               ELSE Calls(n, {d}, IF Below(d, from.at) THEN "resume" ELSE "run", in[n])
      BY <2>2 DEF ResumeParallel
    <3>2. Children[n][i] = c /\ ~WasCompleted(c)
      BY <1>0, <1>9, <3>1 DEF Calls
    <3> QED
      BY <3>1, <3>2
  <2>4. Below(top[next], c)
    <3>1. Below(top[next], n)
      BY <1>0 DEF RunInv
    <3>2. top[next] \in Nodes
      BY <3>1, BelowNode
    <3> QED
      BY <1>5, <3>1, <3>2, BelowTransitive DEF Above
  <2> QED
    BY <1>0, <2>3, <2>4 DEF OverAt
<1>10. CASE k # c
  <2>1. n # p
    <3>1. Above(k, c)
      BY <1>10 DEF Above
    <3>2. Below(k, p)
      BY <1>1, <1>2, <3>1, AboveChild
    <3> QED
      BY <1>2, <1>5, <3>2, Antisymmetric DEF Above
  <2>2. n \notin Parallels
    BY <1>8, <2>1
  <2>3. ResumeBranch(n)
    BY <1>6, <1>7, <2>2, <1>3 DEF Control, Decide, BranchReturns, EnterLoop, ResumeLoop, BodyReturns,
       Fork, ResumeParallel, Join, Calling, Calls, Returns
  <2>4. m = "resume"
    <3>1. mode'[k] # "run"
      BY <1>0, <1>4, <2>3 DEF ResumeBranch, Calls, Fails, Returns
    <3> QED
      BY <1>4, <3>1
  <2> QED
    BY <1>4, <1>10, <2>4
<1> QED
  BY <1>9, <1>10

LEMMA OverLocal ==
  ASSUME Completing, TypeOK', NEW c \in Nodes, OverAt(c), tracker.completed[c] # None, Once(c),
         NEW n \in Nodes, LocalStep(n)
  PROVE  OverAt(c)'
<1> USE DEF Completing, Base
<1>0. /\ pc \in [Nodes -> PCs] /\ save \in [Nodes -> Save] /\ Running(n) /\ UNCHANGED <<position, mode>>
  BY LocalFrame, FormEffects DEF TypeOK, PCs, Save, Goals, LocalStep, NodeStep, Step
<1>1. \A k \in Nodes \ {n} : pc'[k] = pc[k] /\ save'[k] = save[k]
  BY LocalFrame
<1>2. pc'[n] \notin {"idle", "called"}
  <2>1. Goes(n)
    BY GoesLocally DEF LocalStep
  <2> QED
    BY <1>0, <2>1 DEF Goes
<1>3. CASE n # c
  BY <1>0, <1>1, <1>2, <1>3 DEF OverAt, position, WasCompleted
<1>4. CASE n = c
  <2>1. /\ pc'[c] \in {"read", "write", "emit", "done"}
        /\ pc'[c] \in Saving => save'[c].to = "done"
    <3>1. pc[c] \in {"snapshot", "read", "write", "emit"} /\ save[c].to = "done"
      BY <1>0, <1>4 DEF OverAt, Running, Saving
    <3>2. Snapshot(c) \/ Read(c) \/ Write(c) \/ Emit(c)
      BY <1>4, <3>1 DEF LocalStep, Register, Complete, Begin, ResumeStep, ToolReturns, Finish, StepReturns,
         Answered, StepFails, Work
    <3> QED
      BY <1>0, <3>1, <3>2 DEF Snapshot, Read, Write, Emit, OfAgent, Save, Saving
  <2> QED
    BY <1>0, <1>1, <1>2, <1>4, <2>1 DEF OverAt, position
<1> QED
  BY <1>3, <1>4

LEMMA OverControl ==
  ASSUME Completing, TypeOK', NEW c \in Nodes, OverAt(c), tracker.completed[c] # None, Once(c),
         NEW n \in Nodes, Control(n)
  PROVE  OverAt(c)'
<1> USE DEF Completing, Base
<1>0. pc \in [Nodes -> PCs] /\ UNCHANGED <<position, save>>
  BY ControlFrame DEF TypeOK, PCs, saved
<1>1. pc'[c] = pc[c] \/ pc'[c] = "done"
  <2>1. Forms(n)
    BY NodeForms DEF NodeStep
  <2>2. pc[n] \in {"called", "inside"}
    BY DEF Control, Decide, ResumeBranch, BranchReturns, EnterLoop, ResumeLoop, BodyReturns, Fork, ResumeParallel, Join
  <2>3. n # c
    BY <2>2 DEF OverAt
  <2>4. pc'[c] # "called" \/ pc[c] = "called"
    BY BelowSelf, OverCalls
  <2>5. CASE Goes(n)
    BY <1>0, <2>3, <2>5 DEF Goes
  <2>6. CASE \E d \in Nodes : Skips(n, d)
    BY <1>0, <2>3, <2>6 DEF Skips
  <2>7. CASE \E cs \in SUBSET Nodes, m \in {"run", "resume"} : Calling(n, cs, m)
    BY <2>3, <2>4, <2>7 DEF Calling, Calls, OverAt
  <2> QED
    BY <2>1, <2>5, <2>6, <2>7 DEF Forms
<1>2. ASSUME NEW k \in Nodes, Above(k, c), pc'[k] = "called"
      PROVE  mode'[k] = "resume"
  <2>1. CASE pc[k] # "called"
    BY <1>2, <2>1, OverCalls DEF Above
  <2>2. CASE pc[k] = "called"
    <3>1. mode[k] = "resume"
      BY <1>2, <2>2 DEF OverAt
    <3>2. Forms(n)
      BY NodeForms DEF NodeStep
    <3>3. ASSUME NEW cs \in SUBSET Nodes, NEW m \in {"run", "resume"}, Calling(n, cs, m)
          PROVE  mode'[k] = mode[k]
      <4>1. k \notin cs
        BY <2>2, <3>3, BelowSelf DEF Calling, Running
      <4> QED
        BY <3>3, <4>1 DEF Calling, Calls
    <3> QED
      BY <3>1, <3>2, <3>3 DEF Forms, Goes, Skips
  <2> QED
    BY <2>1, <2>2
<1> QED
  BY <1>0, <1>1, <1>2 DEF OverAt, position, WasCompleted, Saving

\* A child of a parallel node is below no other top-level node.
LEMMA OverBetween ==
  ASSUME Completing, [Next]_vars, TypeOK', Between, up', Open',
         NEW c \in Nodes, tracker'.completed[c] # None, Once(c)
  PROVE  OverAt(c)'
<1> USE DEF Completing, Base
<1>0. top' = top /\ pc \in [Nodes -> PCs]
  BY TopSame DEF TypeOK, PCs
<1>1. CASE Resume
  <2>1. /\ turn' = "node" /\ tracker' = stored.tracker /\ from' = stored /\ resumed' /\ next' = stored.next
        /\ Calls(top[stored.next], {top[stored.next]}, "resume", stored.cur) /\ stored # None
        /\ \A k \in Nodes : pc[k] = "idle"
    BY <1>1 DEF Resume, Open, IdleInv, QuestionOf
  <2>2. AtChild(c)
    BY <2>1 DEF KnownInv, CompletedOf
  <2>3. c # top[stored.next]
    <3>1. \E p \in Nodes : Above(p, c)
      BY <2>2, Shape, ChildAbove DEF AtChild
    <3>2. stored.next \in 1..Len(top)
      BY <1>0, <1>1, <2>1 DEF Resume, Valid, TypeOK
    <3> QED
      BY <3>1, <3>2, TopAlone
  <2>4. pc'[c] = "idle"
    BY <2>1, <2>3 DEF Calls
  <2>5. \A k \in Nodes : pc'[k] = "called" => mode'[k] = "resume"
    BY <2>1 DEF Calls
  <2> QED
    BY <2>1, <2>4, <2>5 DEF OverAt, WasCompleted, Saving
<1>2. CASE ~Resume
  <2>1. up /\ Open /\ tracker' = tracker
    BY <1>2, OpenFrame DEF Between, SavePosition, ResumeCompletes, NodeReturns, Crash, Interrupt
  <2>2. OverAt(c)
    BY <2>1 DEF OnceInv
  <2>3. CASE NodeReturns
    <3>1. UNCHANGED <<pc, mode, save>> /\ turn' # "node"
      BY <2>3 DEF NodeReturns, node, saved, Open
    <3> QED
      BY <2>2, <3>1 DEF OverAt
  <2>4. CASE SavePosition
    <3>1. /\ turn = "position" /\ turn' = "node" /\ next' = next /\ next <= Len(top) /\ save' = save
          /\ Calls(top[next], {top[next]}, "run", cur)
      BY <2>4 DEF SavePosition, Open
    <3>2. ~Below(top[next], c)
      <4>1. PICK i \in 1..next : i <= Len(top) /\ Below(top[i], c) /\ i < next
        BY <2>1, <3>1 DEF KnownInv
      <4>2. i \in DOMAIN top /\ next \in DOMAIN top /\ i # next
        BY <3>1, <4>1, TopShape DEF TypeOK
      <4> QED
        BY <4>1, <4>2, OneTop DEF TypeOK
    <3>3. c # top[next]
      BY <3>2, BelowSelf
    <3>4. pc'[c] = pc[c]
      BY <3>1, <3>3 DEF Calls
    <3>5. \A k \in Nodes : Above(k, c) => pc'[k] = pc[k] /\ mode'[k] = mode[k]
      BY <3>1, <3>2 DEF Calls, Above
    <3> QED
      BY <1>0, <2>2, <3>1, <3>2, <3>4, <3>5 DEF OverAt
  <2> QED
    BY <1>2, <2>3, <2>4 DEF Between, ResumeCompletes, Crash, Interrupt, Open
<1> QED
  BY <1>1, <1>2

LEMMA OnceStep ==
  ASSUME Completing, [Next]_vars, TypeOK'
  PROVE  OnceInv'
<1> USE DEF Completing, Base
<1> SUFFICES ASSUME up', Open', NEW c \in Nodes, tracker'.completed[c] # None, Once(c)
             PROVE  OverAt(c)'
  BY DEF OnceInv, Once
<1>1. CASE Between
  BY <1>1, OverBetween
<1>2. CASE ~Between
  <2>1. up /\ Open /\ UNCHANGED position
    <3>1. CASE UNCHANGED vars
      BY <3>1 DEF vars, position, Open
    <3>2. CASE \E n \in Nodes : NodeStep(n)
      BY <3>2, FormEffects DEF Open
    <3> QED
      BY <1>2, <3>1, <3>2, NextForms
  <2>2. CASE Complete(c)
    <3>1. /\ pc[c] = "complete" /\ pc \in [Nodes -> PCs] /\ save \in [Nodes -> Save]
      BY <2>2 DEF Complete, TypeOK, PCs, Save, Goals
    <3>2. \A n \in Nodes : Above(n, c) => pc[n] = "inside"
      BY <3>1 DEF RunInv, Running
    <3>3. pc' = [pc EXCEPT ![c] = "snapshot"] /\ save'[c].to = "done"
      BY <2>2, <3>1 DEF Complete, NoSave
    <3> QED
      BY <3>1, <3>2, <3>3 DEF OverAt, Above
  <2>3. CASE ~Complete(c)
    <3>1. tracker.completed[c] # None /\ OverAt(c)
      <4>1. ~Resume
        BY <1>2 DEF Between
      <4> QED
        BY <2>1, <2>3, <4>1, TrackerGrows DEF OnceInv
    <3>2. CASE UNCHANGED vars
      BY <3>1, <3>2 DEF vars, node, position, saved, OverAt, WasCompleted
    <3>3. CASE \E n \in Nodes : LocalStep(n)
      BY <3>1, <3>3, OverLocal
    <3>4. CASE \E n \in Nodes : Control(n)
      BY <3>1, <3>4, OverControl
    <3> QED
      BY <1>2, <3>2, <3>3, <3>4, StepCases
  <2> QED
    BY <2>2, <2>3
<1> QED
  BY <1>1, <1>2

LEMMA CompletingInit == Init => Completing
<1> SUFFICES ASSUME Init PROVE Completing
  OBVIOUS
<1>1. NextInv /\ KnownInv /\ OnceInv /\ DownInv
  BY DEF Init, NextInv, KnownInv, OnceInv, DownInv, NewTracker, Saving
<1> QED
  BY <1>1, BaseInit DEF Completing

LEMMA CompletingStep == Completing /\ [Next]_vars => Completing'
<1> SUFFICES ASSUME Completing, [Next]_vars PROVE Completing'
  OBVIOUS
<1>1. Base'
  BY BaseStep DEF Completing
<1>2. TypeOK'
  BY <1>1 DEF Base
<1>3. DownInv'
  BY DownStep DEF Completing
<1> QED
  BY <1>1, <1>2, <1>3, NextStep, KnownStep, OnceStep DEF Completing

\* CompletedNotRepeated: what the stored checkpoint knows as completed is not
\* begun again, by the process that runs on or by one that resumes it.
THEOREM CompletedOnce == Spec => CompletedNotRepeated
<1>1. ASSUME Completing, [Next]_vars, NEW s \in Steps, Begins(s), stored # None
      PROVE  ~Over(stored, s)
  <2> USE DEF Completing, Base
  <2>1. s \in Nodes /\ pc[s] = "called" /\ Running(s)
    BY <1>1, Shape DEF Begins, Running
  <2>2. /\ up /\ turn = "node" /\ Open /\ Below(top[next], s) /\ next <= Len(top)
        /\ \A n \in Nodes : Above(n, s) => pc[n] = "inside"
    BY <1>1, <2>1 DEF RunInv, Open
  <2>3. stored.next = next
    BY <1>1, <2>2 DEF NextInv
  <2>4. ASSUME NEW i \in 1..(stored.next - 1), Below(top[i], s)
        PROVE  FALSE
    <3>1. top \in Workflows /\ next \in Nat \ {0} /\ Len(top) \in Nat
      BY <1>1, <2>2, TopShape DEF TypeOK
    <3>2. \A k \in 1..Len(top) : k \in DOMAIN top
      BY <1>1, TopShape
    <3> HIDE DEF Completing, Base
    <3>3. i \in DOMAIN top /\ next \in DOMAIN top /\ i # next
      BY <2>2, <2>3, <2>4, <3>1, <3>2
    <3> QED
      BY <2>1, <2>2, <2>4, <3>1, <3>3, OneTop
  <2>5. ASSUME ~Inside(s, {"loop"}), NEW c \in Nodes, Below(c, s), ~InsideTwo(c),
               stored.tracker.completed[c] # None
        PROVE  FALSE
    <3>1. ~Inside(c, {"loop"})
      <4> SUFFICES ASSUME NEW l \in Nodes \ {c}, Below(l, c), Kind[l] = "loop" PROVE FALSE
        BY DEF Inside
      <4>1. Below(l, s)
        BY <2>1, <2>5, BelowTransitive
      <4>2. l # s
        BY <2>1, <2>5, Antisymmetric
      <4> QED
        BY <2>5, <4>1, <4>2 DEF Inside
    <3>2. OverAt(c)
      BY <1>1, <2>2, <2>5, <3>1 DEF KnownInv, Known, OnceInv, Once
    <3>3. pc[c] \in {"called", "inside"}
      BY <2>1, <2>2, <2>5 DEF Above
    <3> QED
      BY <3>2, <3>3 DEF OverAt
  <2> QED
    BY <2>4, <2>5 DEF Over
<1>2. Completing /\ [Next]_vars =>
        [\A s \in Steps : Begins(s) => stored = None \/ ~Over(stored, s)]_vars
  BY <1>1
<1> QED
  BY <1>2, CompletingInit, CompletingStep, PTL DEF Spec, CompletedNotRepeated

-----------------------------------------------------------------------------
(* The input of what is resumed *)

\* Neither a loop, nor with a loop below it, nor in nested loops and parallel nodes.
Eligible(n) == n \in Nodes /\ ~Nested(n) /\ \A l \in Loops : ~Below(n, l)

\* No loop is above node q.
Plain(q) == \A l \in Loops : ~Above(l, q)

Anew(n) == pc[n] = "called" /\ mode[n] = "run"

\* A checkpoint that is stored, or will be, has the question of step q.
Asked(q) ==
    \/ Asks(q)
    \/ \E n \in Nodes : pc[n] = "emit" /\ QuestionOf(save[n].draft) = q

ModeInv == \A n \in Nodes : pc[n] = "idle" => mode[n] = "run"

\* What runs has the input of the node above it, unless a loop is between them.
InputInv == up /\ turn = "node" =>
    /\ Running(top[next]) => in[top[next]] = cur
    /\ \A n, k \in Nodes : /\ Above(n, k) /\ Running(k)
                           /\ \A l \in Loops : ~(Below(n, l) /\ Above(l, k))
          => in[k] = in[n]

DraftInv == \A n \in Nodes : pc[n] \in Saving \ {"snapshot"} => save[n].draft.cur = in[n]

\* Resume has the input of its checkpoint.
ResumedInv == \A n \in Nodes : pc[n] # "idle" /\ mode[n] = "resume" => in[n] = from.cur

\* With this input was entered what Resume has not reached.
UnreachedInv == up /\ Open /\ resumed =>
    \A n \in Nodes : Eligible(n) /\ Below(n, from.at) /\ Unreached(n) => given[n] = from.cur

EnteredInv == \A n \in Nodes :
    /\ Eligible(n) /\ pc[n] # "idle" /\ ~Anew(n)
    /\ Running(n) \/ mode[n] = "resume"
    => in[n] = given[n]

\* A question is that of the current top-level node or of an earlier one.
AskedInv == up /\ Open => \A q \in Steps : Asked(q) =>
    \E i \in 1..next : i <= Len(top) /\ Below(top[i], q) /\ (turn = "position" => i < next)

\* What is above step q was entered with cur, and is not called but by Resume.
Visited(q) ==
    /\ \A n \in Nodes : Below(n, q) =>
          /\ ~Anew(n) /\ (Unreached(n) => resumed /\ from.question = q)
          /\ Eligible(n) => given[n] = cur
    /\ \A k \in Nodes : Running(k) =>
          Below(k, q) \/ \E p \in Parallels : Above(p, k) /\ Above(p, q)

PlainInv == up /\ turn = "node" =>
    \A q \in Steps : Asked(q) /\ Plain(q) /\ Below(top[next], q) => Visited(q)

\* A checkpoint has the input of the nodes above its question.
KeptIn(cp, g) ==
    QuestionOf(cp) # None /\ cp.next <= Len(top) /\ Below(top[cp.next], cp.question) =>
        \A n \in Nodes : Eligible(n) /\ Below(n, cp.question) => g[n] = cp.cur

KeptOf(cp) == KeptIn(cp, given)

KeptInv == Open =>
    /\ KeptOf(stored)
    /\ \A n \in Nodes : pc[n] = "emit" => KeptOf(save[n].draft)

\* Node k stays where it is, or leaves the place where it was called.
Stays(k) ==
    /\ in'[k] = in[k] /\ mode'[k] = mode[k]
    /\ pc'[k] = "called" => pc[k] = "called"
    /\ pc'[k] = "idle" <=> pc[k] = "idle" /\ pc'[k] # "done"
    /\ Running(k)' => Running(k)

\* Node n calls its child k.
IsCalled(k, n) ==
    /\ IsChild(k, n) /\ pc'[k] = "called" /\ pc[n] \in {"called", "inside"} /\ pc'[n] = "inside"
    /\ n \notin Steps
    /\ \A m \in Nodes : Below(k, m) => ~Running(m)
    /\ n \notin Loops \/ mode'[k] = "resume" => in'[k] = in[n]
    /\ mode'[k] = "resume" => resumed /\ mode[n] = "resume" /\ pc[k] = "idle" /\ Below(k, from.at)

LEMMA CalledWith ==
  ASSUME Base, NEW n \in Nodes, Control(n), NEW k \in Nodes, pc[k] # "called", pc'[k] = "called",
         n \notin Loops \/ mode'[k] = "resume"
  PROVE  in'[k] = in[n]
<1> USE DEF Base, TypeOK
<1>1. CASE Decide(n)
  <2>1. ~Fails(n) /\ ~Returns(n, in[n])
    BY DEF Fails, Returns
  <2>2. PICK c : Calls(n, {c}, "run", in[n])
    BY <1>1, <2>1 DEF Decide
  <2> QED
    BY <2>2 DEF Calls
<1>2. CASE ResumeBranch(n)
  <2>1. ~Fails(n) /\ ~Returns(n, in[n])
    BY DEF Fails, Returns
  <2>2. PICK c : Calls(n, {c}, "resume", in[n])
    BY <1>2, <2>1 DEF ResumeBranch
  <2> QED
    BY <2>2 DEF Calls
<1>3. CASE BranchReturns(n)
  BY <1>3 DEF BranchReturns, Returns
<1>4. CASE EnterLoop(n) \/ BodyReturns(n)
  <2>1. ~Fails(n) /\ \A text : ~Returns(n, text)
    BY DEF Fails, Returns
  <2>2. PICK text : Calls(n, {Body(n)}, "run", text)
    BY <1>4, <2>1 DEF EnterLoop, BodyReturns, Iterate
  <2>3. n \in Loops
    BY <1>4 DEF EnterLoop, BodyReturns
  <2>4. mode'[k] = "run"
    BY <2>2 DEF Calls
  <2> QED
    BY <2>3, <2>4
<1>5. CASE ResumeLoop(n)
  <2>1. ~Fails(n)
    BY DEF Fails
  <2>2. Calls(n, {Body(n)}, "resume", in[n])
    BY <1>5, <2>1 DEF ResumeLoop
  <2> QED
    BY <2>2 DEF Calls
<1>6. CASE Fork(n)
  BY <1>6 DEF Fork, Calls
<1>7. CASE ResumeParallel(n)
  <2>1. \A c : pc' # [pc EXCEPT ![n] = "inside", ![c] = "done"]
    OBVIOUS
  <2>2. PICK i \in DOMAIN Children[n] :
           LET c == Children[n][i] IN
           Calls(n, {c}, IF Below(c, from.at) THEN "resume" ELSE "run", in[n])
    BY <1>7, <2>1 DEF ResumeParallel
  <2> QED
    BY <2>2 DEF Calls
<1>8. CASE Join(n)
  BY <1>8 DEF Join, Returns
<1> QED
  BY <1>1, <1>2, <1>3, <1>4, <1>5, <1>6, <1>7, <1>8 DEF Control

LEMMA Inputs ==
  ASSUME Base, NEW n \in Nodes, NodeStep(n), NEW k \in Nodes
  PROVE  Stays(k) \/ IsCalled(k, n)
<1>0. pc \in [Nodes -> PCs] /\ mode \in [Nodes -> {"run", "resume"}]
  BY DEF Base, TypeOK, PCs
<1>1. CASE Goes(n)
  <2>1. PICK x \in PCs \ {"idle", "called", "inside"} : pc' = [pc EXCEPT ![n] = x]
    BY <1>1 DEF Goes
  <2>2. UNCHANGED <<mode, in>> /\ Running(n)
    BY <1>1 DEF Goes
  <2> QED
    BY <1>0, <2>1, <2>2 DEF Stays, Running
<1>2. ASSUME NEW c \in Nodes, Skips(n, c)
      PROVE  Stays(k)
  <2>1. /\ pc' = [pc EXCEPT ![n] = "inside", ![c] = "done"] /\ pc[c] = "idle"
        /\ pc[n] \in {"called", "inside"} /\ UNCHANGED <<mode, in>>
    BY <1>2 DEF Skips
  <2> QED
    BY <1>0, <2>1 DEF Stays, Running
<1>3. ASSUME NEW cs \in SUBSET Nodes, NEW m \in {"run", "resume"}, Calling(n, cs, m)
      PROVE  Stays(k) \/ IsCalled(k, n)
  <2>1. PICK text : Calls(n, cs, m, text)
    BY <1>3 DEF Calling
  <2>2. /\ \A c \in cs : IsChild(c, n) /\ \A x \in Nodes : Below(c, x) => ~Running(x)
        /\ pc[n] \in {"called", "inside"} /\ n \notin Steps
    BY <1>3 DEF Calling
  <2>3. CASE k \notin cs
    BY <1>0, <2>1, <2>2, <2>3 DEF Calls, Stays, Running
  <2>4. CASE k \in cs
    <3>1. pc'[k] = "called" /\ mode'[k] = m /\ IsChild(k, n)
      BY <2>1, <2>2, <2>4 DEF Calls
    <3>2. pc[k] # "called"
      BY <2>2, <2>4, BelowSelf DEF Running
    <3>3. Control(n)
      <4>1. ~Goes(n)
        BY <1>0, <3>1, <3>2 DEF Goes
      <4> QED
        BY <4>1, GoesLocally DEF NodeStep, Step
    <3>4. n \notin cs
      BY <2>2, ChildAbove DEF Above
    <3>5. pc'[n] = "inside"
      BY <2>1, <3>4 DEF Calls
    <3>6. mode'[k] = "resume" => resumed /\ mode[n] = "resume" /\ pc[k] = "idle" /\ Below(k, from.at)
      BY <1>3, <2>4, <3>1 DEF Calling
    <3>7. n \notin Loops \/ mode'[k] = "resume" => in'[k] = in[n]
      BY <3>1, <3>2, <3>3, CalledWith
    <3> QED
      BY <2>2, <2>4, <3>1, <3>5, <3>6, <3>7 DEF IsCalled
  <2> QED
    BY <2>3, <2>4
<1> QED
  BY <1>1, <1>2, <1>3, NodeForms DEF Forms

LEMMA Moves ==
  ASSUME Base, NEW n \in Nodes, NodeStep(n)
  PROVE  pc'[n] \notin {"idle", "called"} /\ in'[n] = in[n] /\ mode'[n] = mode[n]
<1>0. pc \in [Nodes -> PCs]
  BY DEF Base, TypeOK, PCs
<1>1. CASE Goes(n)
  BY <1>0, <1>1 DEF Goes
<1>2. CASE \E c \in Nodes : Skips(n, c)
  <2>1. PICK c \in Nodes : /\ pc' = [pc EXCEPT ![n] = "inside", ![c] = "done"]
                           /\ UNCHANGED <<mode, in>>
    BY <1>2 DEF Skips
  <2> QED
    BY <1>0, <2>1
<1>3. ASSUME NEW cs \in SUBSET Nodes, NEW m \in {"run", "resume"}, Calling(n, cs, m)
      PROVE  pc'[n] \notin {"idle", "called"} /\ in'[n] = in[n] /\ mode'[n] = mode[n]
  <2>1. PICK text : Calls(n, cs, m, text)
    BY <1>3 DEF Calling
  <2>2. n \notin cs
    BY <1>3, ChildAbove DEF Calling, Above
  <2> QED
    BY <2>1, <2>2 DEF Calls
<1> QED
  BY <1>1, <1>2, <1>3, NodeForms DEF Forms

\* A node that begins anew writes down its input.
LEMMA GivenNode ==
  ASSUME Base, NEW n \in Nodes, NodeStep(n), NEW k \in Nodes
  PROVE  \/ given'[k] = given[k]
         \/ k = n /\ Anew(n) /\ given'[n] = in[n] /\ in'[n] = in[n] /\ pc'[n] # "called"
<1>0. given \in [Nodes -> Texts]
  BY DEF Base, TypeOK
<1>1. CASE Begin(n) \/ Decide(n) \/ EnterLoop(n) \/ Fork(n)
  <2>1. Anew(n) /\ given' = [given EXCEPT ![n] = in[n]]
    BY <1>1 DEF Begin, Decide, EnterLoop, Fork, Entered, Anew
  <2> QED
    BY <1>0, <2>1, Moves
<1>2. CASE ~(Begin(n) \/ Decide(n) \/ EnterLoop(n) \/ Fork(n))
  BY <1>2 DEF NodeStep, Step, Control, Snapshot, Register, Read, Write, Emit, Complete, ResumeStep,
     ToolReturns, Finish, StepReturns, Answered, StepFails, Work, ResumeBranch, BranchReturns,
     ResumeLoop, BodyReturns, ResumeParallel, Join, history
<1> QED
  BY <1>1, <1>2

LEMMA GivenFrame ==
  ASSUME Base, [Next]_vars, NEW k \in Nodes
  PROVE  \/ given'[k] = given[k]
         \/ up /\ turn = "node" /\ Anew(k) /\ given'[k] = in[k] /\ in'[k] = in[k] /\ pc'[k] # "called"
<1>1. CASE UNCHANGED vars
  BY <1>1 DEF vars, history
<1>2. CASE \E n \in Nodes : NodeStep(n)
  BY <1>2, GivenNode, FormEffects
<1>3. CASE Between
  BY <1>3 DEF Between, SavePosition, ResumeCompletes, NodeReturns, Crash, Interrupt, Resume, history
<1> QED
  BY <1>1, <1>2, <1>3, NextForms

LEMMA EntersAnew ==
  ASSUME Base, NEW n \in Nodes, NodeStep(n), NEW k \in Nodes, Anew(k), pc'[k] # "called"
  PROVE  given'[k] = in[k]
<1>0. /\ given \in [Nodes -> Texts] /\ pc \in [Nodes -> PCs]
      /\ mode[k] = "run" /\ pc[k] = "called" /\ Running(k)
  BY DEF Base, TypeOK, PCs, Anew, Running
<1>1. k = n
  <2>1. CASE Goes(n)
    BY <1>0, <2>1 DEF Goes
  <2>2. CASE \E c \in Nodes : Skips(n, c)
    <3>1. PICK c \in Nodes : pc[c] = "idle" /\ pc' = [pc EXCEPT ![n] = "inside", ![c] = "done"]
      BY <2>2 DEF Skips
    <3> QED
      BY <1>0, <3>1
  <2>3. ASSUME NEW cs \in SUBSET Nodes, NEW m \in {"run", "resume"}, Calling(n, cs, m)
        PROVE  k = n
    BY <1>0, <2>3 DEF Calling, Calls
  <2> QED
    BY <2>1, <2>2, <2>3, NodeForms DEF Forms
<1>2. Begin(n) \/ Decide(n) \/ EnterLoop(n) \/ Fork(n)
  BY <1>0, <1>1 DEF NodeStep, Step, Control, Snapshot, Register, Read, Write, Emit, Complete, ResumeStep,
     ToolReturns, Finish, StepReturns, Answered, StepFails, Work, ResumeBranch, BranchReturns,
     ResumeLoop, BodyReturns, ResumeParallel, Join
<1>3. given' = [given EXCEPT ![n] = in[n]]
  BY <1>2 DEF Begin, Decide, EnterLoop, Fork, Entered
<1> QED
  BY <1>0, <1>1, <1>3

\* A node that is not executed anew, and no loop, calls what Resume leads to, or a
\* child of a parallel node that Resume has not come to.
LEMMA CalledAgain ==
  ASSUME Base, NEW n \in Nodes, NodeStep(n), ~Anew(n), n \notin Loops, NEW k \in Nodes, IsCalled(k, n)
  PROVE  \/ /\ mode'[k] = "resume" /\ mode[n] = "resume" /\ Below(k, from.at)
            /\ n \in Parallels \/ pc[n] = "called"
         \/ n \in Parallels /\ pc[k] = "idle" /\ ~Below(k, from.at)
<1>0. pc[k] # "called" /\ pc'[k] = "called" /\ pc[n] \in {"called", "inside"}
  BY BelowSelf DEF IsCalled, Running
<1>1. Control(n)
  <2>1. CASE Goes(n)
    BY <1>0, <2>1 DEF Goes, Base, TypeOK
  <2> QED
    BY <2>1, GoesLocally DEF NodeStep, Step
<1>2. ~Decide(n) /\ ~EnterLoop(n) /\ ~ResumeLoop(n) /\ ~BodyReturns(n) /\ ~Fork(n)
  BY DEF Anew, Decide, EnterLoop, ResumeLoop, BodyReturns, Fork
<1>3. ~BranchReturns(n) /\ ~Join(n)
  BY <1>0 DEF BranchReturns, Join, Returns, Base, TypeOK
<1>4. CASE ResumeBranch(n)
  <2>1. pc[n] = "called" /\ mode[n] = "resume"
    BY <1>4 DEF ResumeBranch
  <2>2. ~Fails(n) /\ ~Returns(n, in[n])
    BY <1>0 DEF Fails, Returns, Base, TypeOK
  <2>3. PICK c : Below(c, from.at) /\ Calls(n, {c}, "resume", in[n])
    BY <1>4, <2>2 DEF ResumeBranch
  <2> QED
    BY <1>0, <2>1, <2>3 DEF Calls
<1>5. CASE ResumeParallel(n)
  <2>1. \A c : pc' # [pc EXCEPT ![n] = "inside", ![c] = "done"]
    BY <1>0 DEF Base, TypeOK
  <2>2. PICK i \in DOMAIN Children[n] :
           LET c == Children[n][i] IN
           /\ pc[c] = "idle"
           /\ Calls(n, {c}, IF Below(c, from.at) THEN "resume" ELSE "run", in[n])
    BY <1>5, <2>1 DEF ResumeParallel
  <2>3. k = Children[n][i]
    BY <1>0, <2>2 DEF Calls
  <2>4. pc[k] = "idle" /\ mode'[k] = IF Below(k, from.at) THEN "resume" ELSE "run"
    BY <2>2, <2>3 DEF Calls
  <2>5. n \in Parallels /\ mode[n] = "resume"
    BY <1>5 DEF ResumeParallel
  <2> QED
    BY <2>4, <2>5
<1> QED
  BY <1>1, <1>2, <1>3, <1>4, <1>5 DEF Control

Keeping ==
    /\ Asking /\ Completing /\ ModeInv /\ InputInv /\ DraftInv /\ ResumedInv /\ UnreachedInv /\ EnteredInv
    /\ AskedInv /\ PlainInv /\ KeptInv

\* Between the nodes nothing is running, and Run or Resume calls the next one.
LEMMA BetweenInputs ==
  ASSUME Base, Between, NEW k \in Nodes
  PROVE  \/ /\ pc'[k] = pc[k] /\ mode'[k] = mode[k] /\ in'[k] = in[k] /\ ~Running(k)
         \/ Crash
         \/ /\ k = top[next'] /\ up' /\ turn' = "node" /\ pc'[k] = "called" /\ in'[k] = cur'
            /\ next' \in 1..Len(top)
            /\ \/ SavePosition /\ mode'[k] = "run"
               \/ Resume /\ mode'[k] = "resume"
<1>1. CASE SavePosition /\ CallsTop(next', "run")
  <2>1. /\ next' = next /\ cur' = cur /\ next' \in 1..Len(top) /\ up' /\ turn' = "node" /\ ~Running(k)
        /\ Calls(top[next], {top[next]}, "run", cur)
    BY <1>1 DEF SavePosition, CallsTop
  <2> QED
    BY <1>1, <2>1 DEF Calls
<1>2. CASE Resume /\ CallsTop(next', "resume") /\ Valid(stored)
  <2>1. /\ next' = stored.next /\ cur' = stored.cur /\ next' \in 1..Len(top) /\ up' /\ turn' = "node"
        /\ ~Running(k) /\ Calls(top[stored.next], {top[stored.next]}, "resume", stored.cur)
    BY <1>2 DEF Resume, CallsTop
  <2> QED
    BY <1>2, <2>1 DEF Calls
<1> QED
  BY <1>1, <1>2, BetweenForms

LEMMA ModeStep ==
  ASSUME Keeping, [Next]_vars
  PROVE  ModeInv'
<1> SUFFICES ASSUME NEW k \in Nodes, pc'[k] = "idle" PROVE mode'[k] = "run"
  BY DEF ModeInv
<1>0. Base /\ (pc[k] = "idle" => mode[k] = "run")
  BY DEF Keeping, Asking, ModeInv
<1>1. CASE UNCHANGED vars
  BY <1>0, <1>1 DEF vars, node
<1>2. ASSUME NEW n \in Nodes, NodeStep(n)
      PROVE  mode'[k] = "run"
  BY <1>0, <1>2, Inputs DEF Stays, IsCalled
<1>3. CASE Between
  BY <1>0, <1>3, BetweenInputs DEF Crash
<1> QED
  BY <1>1, <1>2, <1>3, NextForms

LEMMA InputStep ==
  ASSUME Keeping, [Next]_vars, TypeOK'
  PROVE  InputInv'
<1> SUFFICES ASSUME up', turn' = "node"
             PROVE  /\ Running(top[next])' => in'[top'[next']] = cur'
                    /\ \A n, k \in Nodes : /\ Above(n, k) /\ Running(k)'
                                           /\ \A l \in Loops : ~(Below(n, l) /\ Above(l, k))
                          => in'[k] = in'[n]
  BY DEF InputInv
<1>0. Base /\ InputInv /\ TypeOK /\ RunInv /\ top' = top
  BY TopSame DEF Keeping, Asking, Base
<1>1. CASE UNCHANGED vars
  BY <1>0, <1>1 DEF vars, node, position, InputInv, Running
<1>2. ASSUME NEW m \in Nodes, NodeStep(m)
      PROVE  /\ Running(top[next])' => in'[top'[next']] = cur'
             /\ \A n, k \in Nodes : /\ Above(n, k) /\ Running(k)'
                                    /\ \A l \in Loops : ~(Below(n, l) /\ Above(l, k))
                   => in'[k] = in'[n]
  <2>1. /\ next' = next /\ cur' = cur /\ up /\ turn = "node"
        /\ next \in 1..Len(top) /\ top[next] \in Nodes
    <3>1. next' = next /\ cur' = cur /\ up /\ turn = "node"
      BY <1>0, <1>2, FormEffects DEF position
    <3>2. next <= Len(top) /\ next \in 1..(Len(top) + 1) /\ Len(top) \in Nat
      BY <1>0, <3>1, TopShape DEF RunInv, TypeOK
    <3> QED
      BY <1>0, <3>1, <3>2, TopShape
  <2>2. Running(top[next])' => in'[top'[next']] = cur'
    <3>1. ~IsChild(top[next], m)
      BY <1>0, <2>1, TopAlone, ChildAbove
    <3>2. Stays(top[next])
      BY <1>0, <1>2, <2>1, <3>1, Inputs DEF IsCalled
    <3>3. Running(top[next])' => Running(top[next])
      BY <1>0, <2>1, <3>2 DEF Stays, Running
    <3> QED
      BY <1>0, <2>1, <3>2, <3>3 DEF Stays, InputInv
  <2>3. ASSUME NEW n \in Nodes, NEW k \in Nodes, Above(n, k), Running(k)',
               \A l \in Loops : ~(Below(n, l) /\ Above(l, k))
        PROVE  in'[k] = in'[n]
    <3>1. CASE Stays(k)
      <4>1. Running(k)
        BY <2>3, <3>1 DEF Stays
      <4>2. ~IsCalled(n, m)
        BY <2>3, <4>1 DEF IsCalled, Above
      <4>3. in'[n] = in[n]
        BY <1>0, <1>2, <4>2, Inputs DEF Stays
      <4> QED
        BY <1>0, <2>1, <2>3, <3>1, <4>1, <4>3 DEF InputInv, Stays
    <3>2. CASE IsCalled(k, m)
      <4>1. IsChild(k, m) /\ Below(n, m)
        BY <2>3, <3>2, AboveChild DEF IsCalled
      <4>2. Above(m, k) /\ m \notin Loops
        BY <2>3, <4>1, ChildAbove
      <4>3. in'[k] = in[m] /\ Running(m)
        BY <3>2, <4>2 DEF IsCalled, Running
      <4>4. ~IsCalled(n, m)
        BY <4>1, ChildAbove, Antisymmetric DEF IsCalled, Above
      <4>5. in'[n] = in[n]
        BY <1>0, <1>2, <4>4, Inputs DEF Stays
      <4>6. n = m \/ Above(n, m)
        BY <4>1 DEF Above
      <4>7. ASSUME NEW l \in Loops, Below(n, l), Above(l, m)
            PROVE  FALSE
        <5>1. l \in Nodes /\ Below(l, k)
          BY <4>2, <4>7, Shape, BelowTransitive DEF Above
        <5>2. l # k
          BY <4>2, <4>7, <5>1, Antisymmetric DEF Above
        <5> QED
          BY <2>3, <4>7, <5>1, <5>2 DEF Above
      <4>8. in[m] = in[n]
        BY <1>0, <2>1, <4>3, <4>6, <4>7 DEF InputInv
      <4> QED
        BY <4>3, <4>5, <4>8
    <3> QED
      BY <1>0, <1>2, <3>1, <3>2, Inputs
  <2> QED
    BY <2>2, <2>3
<1>3. CASE Between
  <2>1. ~Crash
    BY DEF Crash
  <2>2. ASSUME NEW k \in Nodes, Running(k)'
        PROVE  k = top[next'] /\ in'[k] = cur' /\ next' \in 1..Len(top)
    BY <1>0, <1>3, <2>1, <2>2, BetweenInputs DEF Running
  <2>3. ASSUME Running(top[next])'
        PROVE  in'[top'[next']] = cur'
    <3>1. RunInv' /\ next' \in Nat
      BY <1>0, RunStep DEF TypeOK
    <3>2. next' <= Len(top) /\ next' \in 1..(Len(top) + 1) /\ Len(top) \in Nat
      BY <1>0, <3>1, TopShape DEF RunInv, TypeOK
    <3>3. top[next'] \in Nodes
      BY <1>0, <3>2, TopShape
    <3> QED
      BY <1>0, <2>2, <2>3, <3>3 DEF Running
  <2>4. ASSUME NEW n \in Nodes, NEW k \in Nodes, Above(n, k), Running(k)'
        PROVE  FALSE
    BY <1>0, <2>2, <2>4, TopAlone
  <2> QED
    BY <2>3, <2>4
<1> QED
  BY <1>1, <1>2, <1>3, NextForms

LEMMA DraftStep ==
  ASSUME Keeping, [Next]_vars
  PROVE  DraftInv'
<1> SUFFICES ASSUME NEW k \in Nodes, pc'[k] \in Saving \ {"snapshot"}
             PROVE  save'[k].draft.cur = in'[k]
  BY DEF DraftInv
<1>0. /\ Base /\ (pc[k] \in Saving \ {"snapshot"} => save[k].draft.cur = in[k])
      /\ TypeOK /\ pc \in [Nodes -> PCs] /\ save \in [Nodes -> Save] /\ KindOf(k)
  BY DEF Keeping, Asking, DraftInv, Base, KindInv, TypeOK, PCs, Save, Goals
<1>1. CASE UNCHANGED vars
  BY <1>0, <1>1 DEF vars, node, saved
<1>2. ASSUME NEW n \in Nodes, Control(n)
      PROVE  save'[k].draft.cur = in'[k]
  <2>1. pc'[k] = pc[k]
    BY <1>0, <1>2, FormPlaces DEF Saving
  <2>2. save' = save /\ Stays(k)
    BY <1>0, <1>2, ControlFrame, Inputs DEF saved, NodeStep, IsCalled, Saving
  <2> QED
    BY <1>0, <2>1, <2>2 DEF Stays
<1>3. ASSUME NEW n \in Nodes, LocalStep(n)
      PROVE  save'[k].draft.cur = in'[k]
  <2>0. in' = in
    BY <1>0, <1>3, LocalFrame
  <2>1. CASE k # n
    BY <1>0, <1>3, <2>0, <2>1, LocalFrame
  <2>2. CASE k = n
    <3>1. CASE Snapshot(n)
      BY <1>0, <2>0, <2>2, <3>1 DEF Snapshot, Draft, Save
    <3>2. CASE Register(n)
      <4>1. pc[n] = "register" /\ save[n].draft \in Checkpoint /\ n \in Steps /\ agent[n] \in AgentCheckpoint
        BY <1>0, <2>2, <3>2 DEF Register, KindOf, Saving, Save, TypeOK
      <4>2. save'[n].draft = WithAgent(save[n].draft, n, agent[n])
        BY <1>0, <3>2 DEF Register, WithAgent, Save
      <4> QED
        BY <1>0, <2>0, <2>2, <4>1, <4>2, WithAgentTyped DEF Saving
    <3>3. CASE Read(n)
      BY <1>0, <2>0, <2>2, <3>3 DEF Read, Saving, Save
    <3>4. CASE Write(n)
      <4>1. /\ pc[n] = "write" /\ save[n].draft \in Checkpoint
            /\ save[n].previous \in Checkpoint \cup {None}
        BY <1>0, <2>2, <3>4 DEF Write, KindOf, Saving, Save
      <4>2. save'[n].draft = Merged(save[n].previous, save[n].draft)
        BY <1>0, <3>4 DEF Write, Save
      <4> QED
        BY <1>0, <2>0, <2>2, <4>1, <4>2, MergedFields DEF Saving
    <3>5. CASE ~(Snapshot(n) \/ Register(n) \/ Read(n) \/ Write(n))
      <4>1. pc'[n] \notin Saving \ {"snapshot"}
        BY <1>0, <1>3, <2>2, <3>5 DEF LocalStep, Emit, Complete, Begin, ResumeStep, ToolReturns, Finish,
           StepReturns, Answered, StepFails, Work, Saves, Returns, Saving, KindOf, Goals
      <4> QED
        BY <2>2, <4>1
    <3> QED
      BY <3>1, <3>2, <3>3, <3>4, <3>5
  <2> QED
    BY <2>1, <2>2
<1>4. CASE Between
  BY <1>0, <1>4, BetweenSaves
<1> QED
  BY <1>1, <1>2, <1>3, <1>4, StepCases

LEMMA ResumedStep ==
  ASSUME Keeping, [Next]_vars
  PROVE  ResumedInv'
<1> SUFFICES ASSUME NEW k \in Nodes, pc'[k] # "idle", mode'[k] = "resume"
             PROVE  in'[k] = from'.cur
  BY DEF ResumedInv
<1>0. /\ Base /\ ResumedInv /\ (pc[k] = "idle" => mode[k] = "run")
      /\ (pc[k] # "idle" /\ mode[k] = "resume" => in[k] = from.cur)
  BY DEF Keeping, Asking, ResumedInv, ModeInv
<1>1. CASE UNCHANGED vars
  BY <1>0, <1>1 DEF vars, node, position
<1>2. ASSUME NEW n \in Nodes, NodeStep(n)
      PROVE  in'[k] = from'.cur
  <2>1. from' = from
    BY <1>0, <1>2, FormEffects DEF position
  <2>2. CASE Stays(k)
    BY <1>0, <2>1, <2>2 DEF Stays
  <2>3. CASE IsCalled(k, n)
    <3>1. in'[k] = in[n] /\ mode[n] = "resume" /\ pc[n] # "idle"
      BY <2>3 DEF IsCalled
    <3> QED
      BY <1>0, <2>1, <3>1 DEF ResumedInv
  <2> QED
    BY <1>0, <1>2, <2>2, <2>3, Inputs
<1>3. CASE Between
  <2>1. CASE k = top[next'] /\ in'[k] = cur' /\ Resume
    BY <2>1 DEF Resume
  <2>2. CASE pc'[k] = pc[k] /\ mode'[k] = mode[k] /\ in'[k] = in[k]
    <3>1. up
      BY <1>0, <2>2 DEF Base, IdleInv
    <3>2. from' = from
      BY <1>3, <3>1 DEF Between, SavePosition, ResumeCompletes, NodeReturns, Crash, Interrupt, Resume
    <3> QED
      BY <1>0, <2>2, <3>2
  <2> QED
    BY <1>0, <1>3, <2>1, <2>2, BetweenInputs DEF Crash
<1> QED
  BY <1>1, <1>2, <1>3, NextForms

LEMMA UnreachedStep ==
  ASSUME Keeping, [Next]_vars
  PROVE  UnreachedInv'
<1> SUFFICES ASSUME up', Open', resumed',
                    NEW n \in Nodes, Eligible(n), Below(n, from'.at), Unreached(n)'
             PROVE  given'[n] = from'.cur
  BY DEF UnreachedInv, Eligible
<1>0. Base /\ DownInv /\ KeptInv /\ UnreachedInv /\ TypeOK /\ PlaceInv
  BY DEF Keeping, Asking, Base
<1>1. CASE Resume
  <2>1. Valid(stored) /\ Open /\ from' = stored /\ given' = given /\ stored.question # None /\ stored # None
    BY <1>0, <1>1 DEF Resume, Open, DownInv, QuestionOf, history
  <2>2. stored.at = stored.question /\ KeptOf(stored)
    BY <1>0, <2>1 DEF PlaceInv, Placed, KeptInv
  <2> QED
    BY <2>1, <2>2 DEF KeptOf, KeptIn, Valid, QuestionOf
<1>2. CASE ~Resume
  <2>1. up /\ Open /\ resumed /\ from' = from
    BY <1>0, <1>2, OpenFrame
  <2>2. Unreached(n)
    BY <1>0, <1>2, UnreachedFrame
  <2>3. ~Anew(n)
    BY <2>2 DEF Unreached, Anew
  <2>4. given'[n] = given[n]
    BY <1>0, <2>3, GivenFrame
  <2> QED
    BY <1>0, <2>1, <2>2, <2>4 DEF UnreachedInv
<1> QED
  BY <1>1, <1>2

LEMMA EnteredStep ==
  ASSUME Keeping, [Next]_vars, Base', ResumedInv', UnreachedInv'
  PROVE  EnteredInv'
<1> SUFFICES ASSUME NEW k \in Nodes, Eligible(k), pc'[k] # "idle", ~Anew(k)',
                    Running(k)' \/ mode'[k] = "resume"
             PROVE  in'[k] = given'[k]
  BY DEF EnteredInv, Eligible
<1>0. /\ Base /\ (pc[k] = "idle" => mode[k] = "run") /\ pc \in [Nodes -> PCs]
      /\ (pc[k] # "idle" /\ ~Anew(k) /\ (Running(k) \/ mode[k] = "resume") => in[k] = given[k])
  BY DEF Keeping, Asking, ModeInv, EnteredInv, Base, TypeOK, PCs
<1>1. ASSUME pc'[k] = "called"
      PROVE  in'[k] = given'[k]
  <2>1. mode'[k] = "resume" /\ Running(k)'
    BY <1>1 DEF Anew, Base, TypeOK, Running
  <2>2. /\ up' /\ Open' /\ resumed' /\ Below(k, from'.at)
    BY <1>1, <2>1 DEF Base, RunInv, FromInv, Open
  <2>3. Unreached(k)'
    BY <1>1, <2>1 DEF Unreached
  <2> QED
    BY <2>1, <2>2, <2>3, <1>1 DEF ResumedInv, UnreachedInv
<1>2. CASE UNCHANGED vars
  BY <1>0, <1>2 DEF vars, node, history, Anew, Running
<1>3. ASSUME NEW n \in Nodes, NodeStep(n), pc'[k] # "called"
      PROVE  in'[k] = given'[k]
  <2>1. Stays(k)
    BY <1>0, <1>3, Inputs DEF IsCalled
  <2>2. CASE Anew(k)
    BY <1>0, <1>3, <2>1, <2>2, EntersAnew DEF Stays
  <2>3. CASE ~Anew(k)
    <3>1. pc[k] # "idle"
      BY <1>0, <2>1 DEF Stays, Running
    <3>2. given'[k] = given[k]
      BY <1>0, <2>3, GivenFrame
    <3> QED
      BY <1>0, <2>1, <2>3, <3>1, <3>2 DEF Stays
  <2> QED
    BY <2>2, <2>3
<1>4. CASE Between /\ pc'[k] # "called"
  <2>1. given' = given
    BY <1>4 DEF Between, SavePosition, ResumeCompletes, NodeReturns, Crash, Interrupt, Resume, history
  <2>2. pc'[k] = pc[k] /\ mode'[k] = mode[k] /\ in'[k] = in[k]
    BY <1>0, <1>4, BetweenInputs DEF Crash
  <2> QED
    BY <1>0, <1>4, <2>1, <2>2 DEF Anew, Running
<1> QED
  BY <1>1, <1>2, <1>3, <1>4, NextForms

-----------------------------------------------------------------------------
(* Questions that are saved *)

LEMMA StepNotNone == \A q \in Steps : q # None /\ q \in Nodes
BY Shape, ChildrenShape

\* A question of what is merged is the previous one or that of the new checkpoint.
LEMMA MergedQuestion ==
  ASSUME NEW previous \in Checkpoint \cup {None}, NEW new \in Checkpoint
  PROVE  /\ Merged(previous, new) \in Checkpoint
         /\ KeepsQuestion(previous, new) =>
              QuestionOf(Merged(previous, new)) = QuestionOf(previous) /\ previous # None
         /\ ~KeepsQuestion(previous, new) => QuestionOf(Merged(previous, new)) = new.question
<1>1. Merged(previous, new) \in Checkpoint /\ Merged(previous, new) # None
  BY MergedFields, CheckpointFields
<1>2. CASE KeepsQuestion(previous, new)
  <2>1. previous \in Checkpoint /\ Merged(previous, new).question = previous.question /\ previous # None
    BY <1>2, MergedFields, CheckpointFields
  <2> QED
    BY <1>1, <1>2, <2>1 DEF QuestionOf
<1>3. CASE ~KeepsQuestion(previous, new)
  BY <1>1, <1>3, MergedFields DEF QuestionOf
<1> QED
  BY <1>1, <1>2, <1>3

\* What node n writes has its own question, or one that was there before.
LEMMA WrittenQuestion ==
  ASSUME Keeping, NEW n \in Nodes, Write(n), NEW q \in Steps, QuestionOf(current') = q
  PROVE  /\ save'[n].draft = current'
         /\ \/ q = n /\ ~KeepsQuestion(save[n].previous, save[n].draft) /\ current' = save[n].draft
            \/ Asks(q) /\ KeepsQuestion(save[n].previous, save[n].draft)
<1> DEFINE d == save[n].draft
           p == save[n].previous
<1>0. /\ pc[n] = "write" /\ save \in [Nodes -> Save] /\ SaveOf(n) /\ KindOf(n) /\ current' = Merged(p, d)
  BY DEF Write, Keeping, Asking, GoodInv, Base, TypeOK, KindInv, Save, Goals
<1>1. save'[n].draft = current'
  BY <1>0 DEF Write, Save
<1>2. d \in Checkpoint /\ p \in Checkpoint \cup {None}
  BY <1>0 DEF KindOf, Saving, Save
<1>3. CASE KeepsQuestion(p, d)
  <2>1. QuestionOf(p) = q
    BY <1>0, <1>2, <1>3, MergedQuestion
  <2> QED
    BY <1>0, <1>1, <1>3, <2>1 DEF Asks
<1>4. CASE ~KeepsQuestion(p, d)
  <2>1. d.question = q /\ current' = d
    <3>1. QuestionOf(Merged(p, d)) = d.question /\ Merged(p, d) = d
      <4> HIDE DEF p, d
      <4> QED
        BY <1>2, <1>4, MergedQuestion, MergedFields
    <3> QED
      BY <1>0, <3>1
  <2>2. d.question = n
    BY <1>0, <2>1, StepNotNone DEF SaveOf, SaveAs
  <2> QED
    BY <1>1, <1>4, <2>1, <2>2
<1> QED
  BY <1>3, <1>4

LEMMA AskedFrame ==
  ASSUME Keeping, [Next]_vars, ~Resume, up', NEW q \in Steps, Asked(q)'
  PROVE  Asked(q) \/ Write(q)
<1>0. /\ Base /\ TypeOK /\ pc \in [Nodes -> PCs] /\ save \in [Nodes -> Save] /\ q \in Nodes /\ q # None
  BY StepNotNone DEF Keeping, Asking, Base, TypeOK, PCs, Save, Goals
<1>1. CASE UNCHANGED vars
  BY <1>1 DEF vars, node, saved, Asked, Asks
<1>2. ASSUME NEW n \in Nodes, Control(n)
      PROVE  Asked(q)
  <2>1. current' = current /\ stored' = stored /\ save' = save
    BY <1>2, ControlFrame DEF saved
  <2>2. \A k \in Nodes : pc'[k] \in {"write", "emit"} => pc[k] = pc'[k]
    BY <1>0, <1>2, FormPlaces
  <2> QED
    BY <2>1, <2>2 DEF Asked, Asks
<1>3. ASSUME NEW n \in Nodes, LocalStep(n)
      PROVE  Asked(q) \/ Write(q)
  <2>1. \A k \in Nodes \ {n} : pc'[k] = pc[k] /\ save'[k] = save[k]
    BY <1>0, <1>3, LocalFrame
  <2>2. CASE Write(n)
    <3>1. stored' = stored /\ pc'[n] = "emit"
      BY <1>0, <2>2 DEF Write
    <3>2. CASE QuestionOf(current') = q
      BY <2>2, <3>2, WrittenQuestion DEF Asked
    <3>3. CASE QuestionOf(current') # q
      <4>1. save'[n].draft = current'
        BY <1>0, <2>2 DEF Write, Save
      <4> QED
        BY <2>1, <3>1, <3>3, <4>1 DEF Asked, Asks
    <3> QED
      BY <3>2, <3>3
  <2>3. CASE Read(n)
    <3>1. current' = current /\ stored' = stored /\ pc'[n] = "write" /\ save'[n].previous = current
      BY <1>0, <2>3 DEF Read, Save
    <3> QED
      BY <2>1, <3>1 DEF Asked, Asks
  <2>4. CASE Emit(n)
    <3>1. /\ current' = current /\ pc[n] = "emit" /\ stored' \in {stored, save[n].draft}
          /\ pc'[n] \notin {"write", "emit"}
      BY <1>0, <2>4 DEF Emit, KindInv, KindOf, Base, Saving, Goals
    <3> QED
      BY <2>1, <3>1 DEF Asked, Asks
  <2>5. CASE ~(Write(n) \/ Read(n) \/ Emit(n))
    <3>1. current' = current /\ stored' = stored /\ pc'[n] \notin {"write", "emit"}
      BY <1>0, <1>3, <2>5 DEF LocalStep, Snapshot, Register, Complete, Begin, ResumeStep, ToolReturns, Finish,
         StepReturns, Answered, StepFails, Work, Saves, Returns, saved
    <3> QED
      BY <2>1, <3>1 DEF Asked, Asks
  <2> QED
    BY <2>2, <2>3, <2>4, <2>5
<1>4. CASE Between
  <2>1. \A k \in Nodes : pc'[k] \notin {"write", "emit"}
    BY <1>0, <1>4, BetweenSaves DEF Saving
  <2>2. CASE SavePosition
    <3> DEFINE m == Merged(current, PositionAt(next))
    <3>1. current' = m /\ stored' \in {stored, m}
      BY <2>2 DEF SavePosition
    <3>2. QuestionOf(m) = QuestionOf(current) \/ QuestionOf(m) = None
      BY <1>0, PositionFields, MergedQuestion DEF TypeOK
    <3> QED
      BY <1>0, <2>1, <3>1, <3>2 DEF Asked, Asks
  <2>3. CASE ~SavePosition
    <3>1. current' = current /\ stored' = stored
      BY <1>4, <2>3 DEF Between, ResumeCompletes, NodeReturns, Crash, Interrupt, saved
    <3> QED
      BY <2>1, <3>1 DEF Asked, Asks
  <2> QED
    BY <2>2, <2>3
<1> QED
  BY <1>1, <1>2, <1>3, <1>4, StepCases

\* The questions of checkpoints are steps.
LEMMA QuestionTyped ==
  ASSUME NEW cp \in Checkpoint \cup {None}, QuestionOf(cp) # None
  PROVE  cp \in Checkpoint /\ cp # None /\ QuestionOf(cp) = cp.question /\ cp.question \in Steps
<1>1. cp # None
  BY DEF QuestionOf
<1>2. cp \in Checkpoint
  BY <1>1
<1> QED
  BY <1>1, <1>2, CheckpointFields DEF QuestionOf

LEMMA AskedStep ==
  ASSUME Keeping, [Next]_vars, TypeOK'
  PROVE  AskedInv'
<1> SUFFICES ASSUME up', Open', NEW q \in Steps, Asked(q)'
             PROVE  \E i \in 1..next' : i <= Len(top) /\ Below(top[i], q) /\ (turn' = "position" => i < next')
  BY TopSame DEF AskedInv
<1>0. Base /\ AskedInv /\ TypeOK /\ RunInv /\ DownInv /\ PlaceInv /\ next \in Nat \ {0} /\ next' \in Nat \ {0}
  BY TopShape, TopSame DEF Keeping, Asking, Base, TypeOK
<1>1. CASE Resume
  <2>1. /\ current' = stored /\ stored' = stored /\ next' = stored.next
        /\ turn' = "node" /\ Valid(stored) /\ QuestionOf(stored) # None
    BY <1>1 DEF Resume, Open
  <2>2. \A k \in Nodes : pc'[k] \notin {"write", "emit"}
    BY <1>0, <1>1, BetweenSaves DEF Saving, Between
  <2>3. QuestionOf(stored) = q
    BY <2>1, <2>2 DEF Asked, Asks
  <2>4. stored \in Checkpoint /\ stored.question = q /\ stored # None /\ q # None
    BY <1>0, <2>1, <2>3, QuestionTyped DEF TypeOK
  <2>5. stored.at = q
    BY <1>0, <2>4 DEF PlaceInv, Placed
  <2> QED
    BY <1>0, <2>1, <2>5 DEF Valid
<1>2. CASE ~Resume /\ Asked(q)
  <2>1. up /\ Open
    BY <1>0, <1>2, OpenFrame
  <2>2. PICK i \in 1..next : i <= Len(top) /\ Below(top[i], q) /\ (turn = "position" => i < next)
    BY <1>0, <1>2, <2>1 DEF AskedInv
  <2>3. \/ next' = next /\ (turn' = "position" => turn = "position")
        \/ next' = next + 1
    <3>1. CASE UNCHANGED vars
      BY <3>1 DEF vars, position
    <3>2. CASE \E n \in Nodes : NodeStep(n)
      BY <1>0, <3>2, FormEffects DEF position
    <3>3. CASE Between
      BY <1>2, <3>3 DEF Between, SavePosition, ResumeCompletes, NodeReturns, Crash, Interrupt, Resume
    <3> QED
      BY <3>1, <3>2, <3>3, NextForms
  <2>4. i \in 1..next' /\ (turn' = "position" => i < next')
    BY <1>0, <2>2, <2>3
  <2> QED
    BY <2>2, <2>4
<1>3. CASE ~Resume /\ ~Asked(q)
  <2>1. Write(q) /\ q \in Nodes
    BY <1>3, AskedFrame, StepNotNone
  <2>2. Running(q) /\ UNCHANGED <<next, turn>>
    BY <2>1 DEF Write, position, Running
  <2>3. turn = "node" /\ Below(top[next], q) /\ next <= Len(top)
    BY <1>0, <2>1, <2>2 DEF RunInv
  <2> QED
    BY <1>0, <2>2, <2>3
<1> QED
  BY <1>1, <1>2, <1>3

\* Above a question below a loop there are no parallel nodes.
LEMMA EligibleAlone ==
  ASSUME NEW n, Eligible(n), NEW q \in Steps, Below(n, q), ~Plain(q)
  PROVE  ~Inside(q, {"parallel"})
<1>0. q \in Nodes /\ n \in Nodes
  BY Shape DEF Eligible
<1>1. PICK l \in Loops : Above(l, q)
  BY DEF Plain
<1>2. l \in Nodes /\ Below(l, n)
  BY <1>0, <1>1, Shape, Comparable DEF Eligible, Above
<1> SUFFICES ASSUME NEW p \in Parallels, Above(p, q) PROVE FALSE
  BY <1>0, InParallel
<1>3. p \in Nodes
  BY Shape
<1>4. CASE Below(l, p)
  BY <1>2, <1>4 DEF Eligible, Nested
<1>5. CASE Below(p, l)
  <2>1. Below(p, n)
    BY <1>0, <1>2, <1>3, <1>5, BelowTransitive
  <2> QED
    BY <1>5, <2>1 DEF Eligible, Nested
<1> QED
  BY <1>0, <1>1, <1>2, <1>3, <1>4, <1>5, Comparable DEF Above

\* What runs below no loop has the input of the top-level node.
LEMMA PlainIn ==
  ASSUME Keeping, NEW n \in Nodes, Running(n), Plain(n)
  PROVE  in[n] = cur
<1>0. Base /\ TypeOK /\ RunInv /\ InputInv
  BY DEF Keeping, Asking, Base
<1>1. up /\ turn = "node" /\ Below(top[next], n) /\ \A m \in Nodes : Above(m, n) => pc[m] = "inside"
  BY <1>0 DEF RunInv
<1> DEFINE t == top[next]
<1>2. t \in Nodes
  BY <1>1, BelowNode
<1>3. Running(t)
  BY <1>1, <1>2 DEF Above, Running
<1>4. in[t] = cur
  BY <1>0, <1>1, <1>3 DEF InputInv
<1>5. CASE n = t
  BY <1>4, <1>5
<1>6. CASE n # t
  <2>1. Above(t, n)
    BY <1>1, <1>6 DEF Above
  <2>2. \A l \in Loops : ~(Below(t, l) /\ Above(l, n))
    BY DEF Plain
  <2>3. in[n] = in[t]
    BY <1>0, <1>1, <1>2, <2>1, <2>2 DEF InputInv
  <2> QED
    BY <1>4, <2>3
<1> QED
  BY <1>5, <1>6

LEMMA PlainAbove ==
  ASSUME NEW n \in Nodes, NEW q \in Nodes, Below(n, q), Plain(q)
  PROVE  Plain(n)
<1> SUFFICES ASSUME NEW l \in Loops, Above(l, n) PROVE FALSE
  BY DEF Plain
<1>1. l \in Nodes
  BY Shape
<1>2. Below(l, q)
  BY <1>1, BelowTransitive DEF Above
<1>3. l # q
  BY <1>1, Antisymmetric DEF Above
<1> QED
  BY <1>2, <1>3 DEF Plain, Above

\* The question of step q is written while q waits in what was entered with cur.
LEMMA VisitedStart ==
  ASSUME Keeping, NEW q \in Steps, Write(q), Plain(q)
  PROVE  Visited(q)'
<1>0. /\ Base /\ RunInv /\ SharedInv /\ EnteredInv /\ q \in Nodes /\ pc \in [Nodes -> PCs]
  BY Shape DEF Keeping, Asking, Base, TypeOK, PCs
<1>1. /\ pc' = [pc EXCEPT ![q] = "emit"] /\ UNCHANGED <<position, mode, in, given>> /\ pc[q] = "write"
  BY DEF Write, history
<1>2. Running(q)
  BY <1>1 DEF Running
<1>3. \A n \in Nodes : Above(n, q) => pc[n] = "inside"
  BY <1>0, <1>2 DEF RunInv
<1>4. ASSUME NEW n \in Nodes, Below(n, q)
      PROVE  /\ ~Anew(n)' /\ ~Unreached(n)'
             /\ Eligible(n) => given'[n] = cur'
  <2>1. pc[n] \in {"inside", "write"} /\ pc'[n] \in {"inside", "emit"}
    BY <1>0, <1>1, <1>3, <1>4 DEF Above
  <2>2. Running(n) /\ ~Anew(n)
    BY <2>1 DEF Running, Anew
  <2>3. in[n] = cur
    BY <1>0, <1>4, <2>2, PlainAbove, PlainIn
  <2>4. Eligible(n) => in[n] = given[n]
    BY <2>1, <2>2, <1>0 DEF EnteredInv
  <2> QED
    BY <1>1, <2>1, <2>3, <2>4 DEF Anew, Unreached, position
<1>5. ASSUME NEW k \in Nodes, Running(k)'
      PROVE  Below(k, q) \/ \E p \in Parallels : Above(p, k) /\ Above(p, q)
  <2>1. Running(k)
    BY <1>0, <1>1, <1>2, <1>5 DEF Running
  <2>2. Below(q, k) => Below(k, q)
    BY <1>0, <1>5, StepsAreLeaves, BelowSelf
  <2> QED
    BY <1>0, <1>2, <2>1, <2>2 DEF SharedInv
<1> QED
  BY <1>0, <1>4, <1>5 DEF Visited, Eligible

\* A node step keeps what was entered above a question as it was.
LEMMA VisitedNode ==
  ASSUME Keeping, NEW q \in Steps, Plain(q), Visited(q), NEW m \in Nodes, NodeStep(m), [Next]_vars
  PROVE  Visited(q)'
<1>0. /\ Base /\ RunInv /\ FromInv /\ PlaceInv /\ q \in Nodes /\ q # None /\ TypeOK
      /\ UNCHANGED position /\ Running(m)
  BY StepNotNone, FormEffects DEF Keeping, Asking, Base
<1>1. \A n \in Nodes : Below(n, q) =>
          /\ ~Anew(n) /\ (Unreached(n) => resumed /\ from.question = q)
          /\ Eligible(n) => given[n] = cur
  BY DEF Visited
<1>2. ASSUME from.question = q, resumed
      PROVE  from.at = q
  <2>1. from # None
    BY <1>0, <1>2 DEF FromInv
  <2> QED
    BY <1>0, <1>2, <2>1 DEF PlaceInv, Placed
<1>3. \A l \in Loops : ~Above(l, q)
  BY DEF Plain
<1>4. ASSUME NEW n \in Nodes, Below(n, q), IsCalled(n, m)
      PROVE  mode'[n] = "resume" /\ ~Anew(n)
  <2>1. Above(m, n)
    BY <1>4, ChildAbove DEF IsCalled
  <2>2. Below(m, q) /\ m # q
    BY <1>0, <1>4, <2>1, BelowTransitive, Antisymmetric DEF Above
  <2>3. m \notin Loops /\ ~Anew(m)
    BY <1>1, <1>3, <2>2 DEF Above
  <2>4. ~Running(n)
    BY <1>4, BelowSelf DEF IsCalled
  <2>5. ~(pc[n] = "idle" /\ ~Below(n, from.at))
    <3> SUFFICES ASSUME pc[n] = "idle", ~Below(n, from.at) PROVE FALSE
      OBVIOUS
    <3>1. resumed /\ from.question = q
      BY <1>1, <1>4 DEF Unreached
    <3> QED
      BY <1>2, <1>4, <3>1
  <2> QED
    BY <1>0, <1>4, <2>3, <2>4, <2>5, CalledAgain DEF Anew, Running
<1>5. ASSUME NEW n \in Nodes, Below(n, q)
      PROVE  /\ ~Anew(n)' /\ (Unreached(n)' => resumed' /\ from'.question = q)
             /\ Eligible(n) => given'[n] = cur'
  <2>1. ~Anew(n)'
    <3>1. CASE IsCalled(n, m)
      BY <1>4, <1>5, <3>1 DEF Anew
    <3>2. CASE Stays(n)
      BY <1>1, <1>5, <3>2 DEF Anew, Stays
    <3> QED
      BY <1>0, <3>1, <3>2, Inputs
  <2>2. Unreached(n)' => resumed' /\ from'.question = q
    BY <1>0, <1>1, <1>5, FormEffects DEF position
  <2>3. given'[n] = given[n] /\ cur' = cur
    BY <1>0, <1>1, <1>5, GivenFrame DEF position
  <2> QED
    BY <1>1, <1>5, <2>1, <2>2, <2>3
<1>6. ASSUME NEW k \in Nodes, Running(k)'
      PROVE  Below(k, q) \/ \E p \in Parallels : Above(p, k) /\ Above(p, q)
  <2>1. CASE Stays(k)
    BY <1>6, <2>1 DEF Stays, Visited
  <2>2. CASE IsCalled(k, m)
    <3>1. Above(m, k) /\ m \notin Steps /\ IsChild(k, m)
      BY <2>2, ChildAbove DEF IsCalled
    <3>2. CASE Below(m, q)
      <4>1. Above(m, q) /\ m \notin Loops /\ ~Anew(m)
        BY <1>1, <1>3, <3>1, <3>2 DEF Above
      <4>2. CASE m \in Parallels
        BY <3>1, <4>1, <4>2
      <4>3. CASE m \notin Parallels
        <5>1. Below(k, from.at) /\ pc[m] = "called" /\ mode[m] = "resume"
          BY <1>0, <2>2, <4>1, <4>3, CalledAgain
        <5>2. resumed /\ from.question = q
          BY <1>1, <3>2, <5>1 DEF Unreached
        <5> QED
          BY <1>2, <5>1, <5>2
      <4> QED
        BY <4>2, <4>3
    <3>3. ASSUME NEW p \in Parallels, Above(p, m), Above(p, q)
          PROVE  Above(p, k)
      <4>1. p \in Nodes
        BY Shape
      <4>2. Below(p, k)
        BY <3>1, <3>3, <4>1, BelowTransitive DEF Above
      <4>3. p # k
        BY <3>1, <3>3, <4>1, Antisymmetric DEF Above
      <4> QED
        BY <4>2, <4>3 DEF Above
    <3>4. Below(m, q) \/ \E p \in Parallels : Above(p, m) /\ Above(p, q)
      BY <1>0 DEF Visited
    <3> QED
      BY <3>2, <3>3, <3>4
  <2> QED
    BY <1>0, <2>1, <2>2, Inputs
<1> QED
  BY <1>5, <1>6 DEF Visited, Eligible

\* Resume of a question leads only to what was entered with the input of its
\* checkpoint.
LEMMA VisitedResume ==
  ASSUME Keeping, Resume, turn' = "node", TypeOK', NEW q \in Steps, Asked(q)', Below(top[next'], q)
  PROVE  Visited(q)'
<1>0. Base /\ DownInv /\ TypeOK /\ PlaceInv /\ IdleInv /\ KeptInv
  BY DEF Keeping, Asking, Base
<1>1. /\ ~up /\ current' = stored /\ stored' = stored /\ next' = stored.next /\ cur' = stored.cur
      /\ resumed' /\ from' = stored /\ given' = given
      /\ Valid(stored) /\ QuestionOf(stored) # None /\ top' = top
      /\ Calls(top[stored.next], {top[stored.next]}, "resume", stored.cur)
  BY DEF Resume, history
<1>2. \A k \in Nodes : pc[k] = "idle" /\ pc'[k] \notin {"write", "emit"}
  BY <1>0, <1>1, BetweenSaves DEF IdleInv, Between, Saving
<1>3. QuestionOf(stored) = q
  BY <1>1, <1>2 DEF Asked, Asks
<1>4. stored # None /\ stored.question = q
  BY <1>0, <1>1, <1>3, QuestionTyped DEF TypeOK
<1>5. KeptOf(stored)
  BY <1>0, <1>1 DEF KeptInv, DownInv
<1>6. \A n \in Nodes : Eligible(n) /\ Below(n, q) => given'[n] = cur'
  BY <1>1, <1>3, <1>4, <1>5 DEF KeptOf, KeptIn, Valid
<1>7. \A n \in Nodes : pc'[n] # "idle" => n = top[next'] /\ mode'[n] = "resume"
  BY <1>1, <1>2 DEF Calls
<1>8. \A n \in Nodes : ~Anew(n)' /\ (Running(n)' => Below(n, q))
  BY <1>7 DEF Anew, Running
<1> QED
  BY <1>1, <1>4, <1>6, <1>8 DEF Visited, Eligible

LEMMA PlainStep ==
  ASSUME Keeping, [Next]_vars, TypeOK'
  PROVE  PlainInv'
<1> SUFFICES ASSUME up', turn' = "node", NEW q \in Steps, Asked(q)', Plain(q), Below(top[next'], q)
             PROVE  Visited(q)'
  BY TopSame DEF PlainInv, Plain
<1>0. /\ Base /\ PlainInv /\ AskedInv /\ TypeOK /\ RunInv /\ q \in Nodes /\ Open'
      /\ next \in 1..(Len(top) + 1) /\ Len(top) \in Nat
  BY TopShape, Shape DEF Keeping, Asking, Base, Open, TypeOK
<1>1. CASE Resume
  BY <1>1, VisitedResume
<1>2. CASE ~Resume /\ Write(q)
  BY <1>2, VisitedStart
<1>3. CASE ~Resume /\ Asked(q)
  <2>1. up /\ Open
    BY <1>0, <1>3, OpenFrame
  <2>2. CASE UNCHANGED vars
    <3>1. Visited(q)
      BY <1>0, <1>3, <2>1, <2>2 DEF PlainInv, vars, position
    <3> QED
      BY <2>2, <3>1 DEF Visited, vars, position, node, history, Anew, Unreached, Running
  <2>3. ASSUME NEW m \in Nodes, NodeStep(m)
        PROVE  Visited(q)'
    <3>1. next' = next /\ turn = "node"
      BY <1>0, <2>3, FormEffects DEF position
    <3>2. Visited(q)
      BY <1>0, <1>3, <2>1, <3>1 DEF PlainInv
    <3> QED
      BY <2>3, <3>2, VisitedNode
  <2>4. CASE Between
    <3>1. SavePosition
      BY <1>3, <2>1, <2>4 DEF Between, SavePosition, ResumeCompletes, NodeReturns, Crash, Interrupt
    <3>2. next' = next /\ turn = "position"
      BY <3>1 DEF SavePosition
    <3>3. PICK i \in 1..next : i <= Len(top) /\ Below(top[i], q) /\ i < next
      BY <1>0, <1>3, <2>1, <3>2 DEF AskedInv
    <3>4. next <= Len(top)
      BY <3>1 DEF SavePosition
    <3>5. i \in DOMAIN top /\ next \in DOMAIN top /\ top \in Workflows
      BY <1>0, <3>3, <3>4, TopShape DEF TypeOK
    <3>6. i = next
      BY <1>0, <3>2, <3>3, <3>5, OneTop
    <3> QED
      BY <1>0, <3>3, <3>6
  <2> QED
    BY <2>2, <2>3, <2>4, NextForms
<1> QED
  BY <1>1, <1>2, <1>3, AskedFrame

LEMMA OpenBefore ==
  ASSUME Base, DownInv, [Next]_vars, Open'
  PROVE  Open
<1>1. CASE up'
  <2>1. Resume => Open
    BY DEF Resume, DownInv
  <2> QED
    BY <1>1, <2>1, OpenFrame
<1>2. CASE UNCHANGED vars
  BY <1>2 DEF vars, position, Open
<1>3. CASE \E n \in Nodes : NodeStep(n)
  BY <1>3, FormEffects DEF position, Open
<1>4. CASE Between /\ ~up'
  BY <1>4 DEF Between, SavePosition, ResumeCompletes, NodeReturns, Crash, Interrupt, Resume, Open
<1> QED
  BY <1>1, <1>2, <1>3, <1>4, NextForms

\* What has entered above a question that was asked is not entered again.
LEMMA NotAgain ==
  ASSUME Keeping, up, turn = "node", NEW q \in Steps, Asked(q),
         NEW n, Eligible(n), Below(n, q)
  PROVE  ~Anew(n)
<1> SUFFICES ASSUME Anew(n) PROVE FALSE
  OBVIOUS
<1>0. /\ Base /\ PlainInv /\ RunInv /\ AskInv /\ GoodInv /\ TypeOK
      /\ q \in Nodes /\ n \in Nodes /\ Open /\ q # None
  BY StepNotNone DEF Keeping, Asking, Base, Eligible, Open
<1>1. Running(n) /\ pc[n] = "called" /\ mode[n] = "run"
  BY DEF Anew, Running
<1>2. CASE Plain(q)
  <2>1. Below(top[next], n)
    BY <1>0, <1>1 DEF RunInv
  <2>2. Below(top[next], q)
    BY <1>0, <2>1, BelowNode, BelowTransitive
  <2> QED
    BY <1>0, <1>2, <2>2 DEF PlainInv, Visited
<1>3. CASE ~Plain(q)
  <2>1. ~Inside(q, {"parallel"})
    BY <1>3, EligibleAlone
  <2>2. CASE Asks(q)
    BY <1>0, <1>1, <2>1, <2>2 DEF AskInv, Waits, Held
  <2>3. ASSUME NEW m \in Nodes, pc[m] = "emit", QuestionOf(save[m].draft) = q
        PROVE  FALSE
    <3>1. save[m].draft.question = q
      BY <1>0, <2>3 DEF QuestionOf
    <3>2. m = q
      BY <1>0, <2>1, <2>3, <3>1 DEF GoodInv, SaveOf, SaveAs
    <3>3. n = q \/ pc[n] = "inside"
      BY <1>0, <2>3, <3>2 DEF RunInv, Above, Running
    <3> QED
      BY <1>1, <2>3, <3>2, <3>3
  <2> QED
    BY <2>2, <2>3 DEF Asked
<1> QED
  BY <1>2, <1>3

LEMMA KeptFrame ==
  ASSUME Keeping, [Next]_vars, Open, NEW cp \in Checkpoint \cup {None}, KeptOf(cp), Asked(QuestionOf(cp))
  PROVE  KeptIn(cp, given')
<1>0. Base
  BY DEF Keeping, Asking
<1> SUFFICES ASSUME QuestionOf(cp) # None, cp.next <= Len(top), Below(top[cp.next], cp.question),
                    NEW n \in Nodes, Eligible(n), Below(n, cp.question)
             PROVE  given'[n] = cp.cur
  BY DEF KeptIn
<1>2. QuestionOf(cp) = cp.question /\ cp.question \in Steps
  BY QuestionTyped
<1>3. given[n] = cp.cur
  BY DEF KeptOf, KeptIn
<1>4. given'[n] = given[n]
  BY <1>0, <1>2, GivenFrame, NotAgain
<1> QED
  BY <1>3, <1>4

\* What node n writes of its own has the input of what is above it.
LEMMA OwnKept ==
  ASSUME Keeping, NEW n \in Nodes, pc[n] = "write", save[n].draft.question = n
  PROVE  \A x \in Nodes : Eligible(x) /\ Below(x, n) => given[x] = save[n].draft.cur
<1>0. Base /\ RunInv /\ InputInv /\ DraftInv /\ EnteredInv
  BY DEF Keeping, Asking, Base
<1>1. Running(n) /\ save[n].draft.cur = in[n]
  BY <1>0 DEF Running, DraftInv, Saving
<1>2. up /\ turn = "node" /\ \A x \in Nodes : Above(x, n) => pc[x] = "inside"
  BY <1>0, <1>1 DEF RunInv
<1> TAKE x \in Nodes
<1> HAVE Eligible(x) /\ Below(x, n)
<1>3. x = n \/ Above(x, n)
  BY DEF Above
<1>4. Running(x) /\ ~Anew(x) /\ pc[x] # "idle"
  BY <1>2, <1>3 DEF Running, Anew
<1>5. in[x] = given[x]
  BY <1>0, <1>4 DEF EnteredInv
<1>6. in[n] = in[x]
  BY <1>0, <1>1, <1>2, <1>3 DEF InputInv, Eligible
<1> QED
  BY <1>1, <1>5, <1>6

\* What node n writes with the question of another has the input of both.
LEMMA OtherKept ==
  ASSUME Keeping, NEW n \in Nodes, pc[n] = "write", KeepsQuestion(save[n].previous, save[n].draft),
         NEW q, q = save[n].previous.question, Below(top[next], q), NEW x \in Nodes, Eligible(x), Below(x, q)
  PROVE  given[x] = save[n].draft.cur
<1>0. Base /\ RunInv /\ DraftInv /\ PlainInv /\ Asking
  BY DEF Keeping, Asking, Base
<1>1. Running(n) /\ save[n].draft.cur = in[n]
  BY <1>0 DEF Running, DraftInv, Saving
<1>2. up /\ turn = "node"
  BY <1>0, <1>1 DEF RunInv
<1>3. q \in Steps /\ Inside(q, {"parallel"})
  BY <1>0, MergedByAsker
<1>4. Plain(q) /\ q \in Nodes
  BY <1>3, EligibleAlone, Shape
<1>5. Asked(q)
  BY <1>3, StepNotNone DEF Asked, Asks, QuestionOf, KeepsQuestion
<1>6. Visited(q)
  BY <1>0, <1>2, <1>3, <1>4, <1>5 DEF PlainInv
<1>7. given[x] = cur
  BY <1>6 DEF Visited
<1>8. ASSUME NEW p \in Parallels, Above(p, n), Above(p, q), NEW l \in Loops, Above(l, n)
      PROVE  FALSE
  <2>1. p \in Nodes /\ l \in Nodes
    BY Shape
  <2>2. ~Below(l, p)
    <3> SUFFICES ASSUME Below(l, p) PROVE FALSE
      OBVIOUS
    <3>1. Below(l, q)
      BY <1>4, <1>8, <2>1, BelowTransitive DEF Above
    <3>2. l # q
      BY <1>3, Shape
    <3> QED
      BY <1>4, <3>1, <3>2 DEF Plain, Above
  <2>3. Below(p, l)
    BY <1>8, <2>1, <2>2, Comparable DEF Above
  <2>4. ~Below(x, p)
    <3> SUFFICES ASSUME Below(x, p) PROVE FALSE
      OBVIOUS
    <3>1. Below(x, l)
      BY <2>1, <2>3, BelowTransitive
    <3> QED
      BY <3>1 DEF Eligible
  <2>5. Below(p, x)
    BY <1>4, <1>8, <2>1, <2>4, Comparable DEF Above
  <2> QED
    BY <2>3, <2>5 DEF Eligible, Nested
<1>9. Plain(n)
  <2>1. CASE Below(n, q)
    BY <1>4, <2>1, PlainAbove
  <2>2. CASE \E p \in Parallels : Above(p, n) /\ Above(p, q)
    BY <1>8, <2>2 DEF Plain
  <2> QED
    BY <1>1, <1>6, <2>1, <2>2 DEF Visited
<1>10. in[n] = cur
  BY <1>1, <1>9, PlainIn
<1> QED
  BY <1>1, <1>7, <1>10

LEMMA WrittenKept ==
  ASSUME Keeping, NEW n \in Nodes, Write(n)
  PROVE  KeptIn(save'[n].draft, given')
<1> DEFINE d == save[n].draft
           p == save[n].previous
           m == save'[n].draft
<1>0. /\ Base /\ pc[n] = "write" /\ SaveOf(n) /\ KindOf(n) /\ TypeOK /\ save \in [Nodes -> Save]
      /\ given' = given /\ top' = top
  BY DEF Write, Keeping, Asking, GoodInv, Base, TypeOK, KindInv, Save, Goals, history, position
<1>1. d \in Checkpoint /\ p \in Checkpoint \cup {None} /\ m = Merged(p, d)
  BY <1>0 DEF KindOf, Saving, Save, Write
<1>2. m \in Checkpoint /\ m.next = d.next /\ m.cur = d.cur
  <2> HIDE DEF d, p, m
  <2> QED
    BY <1>1, MergedFields
<1>3. d.next = next
  <2>1. Running(n) /\ up /\ Open
    BY <1>0 DEF Running, Base, RunInv, Open
  <2> QED
    BY <1>0, <2>1 DEF Keeping, Completing, KnownInv, Saving
<1> SUFFICES ASSUME QuestionOf(m) # None, m.next <= Len(top), Below(top[m.next], m.question),
                    NEW x \in Nodes, Eligible(x), Below(x, m.question)
             PROVE  given[x] = m.cur
  BY <1>0 DEF KeptIn
<1>4. CASE KeepsQuestion(p, d)
  <2>1. m.question = p.question
    <3> HIDE DEF d, p, m
    <3> QED
      BY <1>1, <1>4, MergedFields
  <2>2. given[x] = d.cur
    BY <1>0, <1>2, <1>3, <1>4, <2>1, OtherKept
  <2> QED
    BY <1>2, <2>2
<1>5. CASE ~KeepsQuestion(p, d)
  <2>1. m = d
    <3> HIDE DEF d, p, m
    <3> QED
      BY <1>1, <1>5, MergedFields
  <2>2. d.question = n
    BY <1>0, <2>1 DEF SaveOf, SaveAs, QuestionOf
  <2>3. given[x] = d.cur
    BY <1>0, <2>1, <2>2, OwnKept
  <2> QED
    BY <1>2, <2>3
<1> QED
  BY <1>4, <1>5

\* The position of Run has no question of the current top-level node.
LEMMA PositionKept ==
  ASSUME Keeping, SavePosition, NEW cp, cp = Merged(current, PositionAt(next))
  PROVE  KeptIn(cp, given')
<1>0. /\ Base /\ TypeOK /\ AskedInv /\ top' = top /\ up /\ turn = "position" /\ Open
      /\ next \in Nat \ {0} /\ Len(top) \in Nat
  BY TopShape DEF SavePosition, Keeping, Asking, Base, Open, TypeOK
<1>1. current \in Checkpoint \cup {None} /\ PositionAt(next) \in Checkpoint
      /\ PositionAt(next).next = next /\ PositionAt(next).question = None
  BY <1>0, PositionFields DEF TypeOK
<1>2. cp.next = next /\ cp \in Checkpoint
  BY <1>1, MergedFields
<1> SUFFICES ASSUME QuestionOf(cp) # None, cp.next <= Len(top), Below(top[cp.next], cp.question)
             PROVE  FALSE
  BY DEF KeptIn
<1>3. QuestionOf(cp) = cp.question /\ cp.question \in Steps
  BY <1>2, QuestionTyped
<1>4. QuestionOf(current) = cp.question
  BY <1>1, <1>3, MergedQuestion
<1>5. Asked(cp.question)
  BY <1>4 DEF Asked, Asks
<1>6. PICK i \in 1..next : i <= Len(top) /\ Below(top[i], cp.question) /\ i < next
  BY <1>0, <1>3, <1>5 DEF AskedInv
<1>7. i \in DOMAIN top /\ next \in DOMAIN top /\ top \in Workflows /\ cp.question \in Nodes
  BY <1>0, <1>2, <1>3, <1>6, TopShape, StepNotNone DEF TypeOK
<1>8. i = next
  BY <1>2, <1>6, <1>7, OneTop
<1> QED
  BY <1>0, <1>6, <1>8

LEMMA KeptStep ==
  ASSUME Keeping, [Next]_vars
  PROVE  KeptInv'
<1> SUFFICES ASSUME Open'
             PROVE  /\ KeptIn(stored', given')
                    /\ \A n \in Nodes : pc'[n] = "emit" => KeptIn(save'[n].draft, given')
  BY TopSame DEF KeptInv, KeptOf, KeptIn
<1>0. /\ Base /\ DownInv /\ TypeOK /\ KeptInv /\ pc \in [Nodes -> PCs] /\ save \in [Nodes -> Save]
  BY DEF Keeping, Asking, Base, TypeOK, PCs, Save, Goals
<1>1. Open
  BY <1>0, OpenBefore
<1>2. KeptIn(stored, given')
  <2>1. CASE QuestionOf(stored) = None
    BY <2>1 DEF KeptIn
  <2>2. CASE QuestionOf(stored) # None
    BY <1>0, <1>1, <2>2, KeptFrame DEF Asked, Asks, KeptInv, TypeOK
  <2> QED
    BY <2>1, <2>2
<1>3. ASSUME NEW n \in Nodes, pc[n] = "emit"
      PROVE  KeptIn(save[n].draft, given')
  <2>1. save[n].draft \in Checkpoint \cup {None} /\ KeptOf(save[n].draft)
    BY <1>0, <1>1, <1>3 DEF Save, KeptInv
  <2>2. Asked(QuestionOf(save[n].draft))
    BY <1>3 DEF Asked
  <2> QED
    BY <1>1, <2>1, <2>2, KeptFrame
<1>4. CASE UNCHANGED vars
  BY <1>2, <1>3, <1>4 DEF vars, node, saved
<1>5. ASSUME NEW m \in Nodes, Control(m)
      PROVE  /\ KeptIn(stored', given')
             /\ \A n \in Nodes : pc'[n] = "emit" => KeptIn(save'[n].draft, given')
  <2>1. stored' = stored /\ save' = save
    BY <1>5, ControlFrame DEF saved
  <2>2. \A n \in Nodes : pc'[n] = "emit" => pc[n] = "emit"
    BY <1>0, <1>5, FormPlaces
  <2> QED
    BY <1>2, <1>3, <2>1, <2>2
<1>6. ASSUME NEW m \in Nodes, LocalStep(m)
      PROVE  /\ KeptIn(stored', given')
             /\ \A n \in Nodes : pc'[n] = "emit" => KeptIn(save'[n].draft, given')
  <2>1. \A n \in Nodes \ {m} : pc'[n] = pc[n] /\ save'[n] = save[n]
    BY <1>0, <1>6, LocalFrame
  <2>2. CASE Write(m)
    <3>1. stored' = stored
      BY <2>2 DEF Write
    <3>2. KeptIn(save'[m].draft, given')
      BY <2>2, WrittenKept
    <3> QED
      BY <1>2, <1>3, <2>1, <3>1, <3>2
  <2>3. CASE Emit(m)
    <3>1. pc[m] = "emit" /\ stored' \in {stored, save[m].draft} /\ pc'[m] # "emit"
      BY <1>0, <2>3 DEF Emit, KindInv, KindOf, Base, Saving, Goals
    <3>2. KeptIn(stored', given')
      BY <1>2, <1>3, <3>1
    <3> QED
      BY <1>3, <2>1, <3>1, <3>2
  <2>4. CASE ~(Write(m) \/ Emit(m))
    <3>1. stored' = stored /\ pc'[m] # "emit"
      BY <1>0, <1>6, <2>4 DEF LocalStep, Snapshot, Register, Read, Complete, Begin, ResumeStep, ToolReturns,
         Finish, StepReturns, Answered, StepFails, Work, Saves, Returns, saved
    <3> QED
      BY <1>2, <1>3, <2>1, <3>1
  <2> QED
    BY <2>2, <2>3, <2>4
<1>7. CASE Between
  <2>1. \A n \in Nodes : pc'[n] # "emit"
    BY <1>0, <1>7, BetweenSaves DEF Saving
  <2>2. CASE SavePosition
    <3>1. KeptIn(Merged(current, PositionAt(next)), given')
      BY <2>2, PositionKept
    <3>2. stored' \in {stored, Merged(current, PositionAt(next))}
      BY <2>2 DEF SavePosition
    <3> QED
      BY <1>2, <2>1, <3>1, <3>2
  <2>3. CASE ~SavePosition
    <3>1. stored' = stored
      BY <1>7, <2>3 DEF Between, ResumeCompletes, NodeReturns, Crash, Interrupt, Resume, saved
    <3> QED
      BY <1>2, <2>1, <3>1
  <2> QED
    BY <2>2, <2>3
<1> QED
  BY <1>4, <1>5, <1>6, <1>7, StepCases

LEMMA KeepingInit == Init => Keeping
<1> SUFFICES ASSUME Init PROVE Keeping
  OBVIOUS
<1>1. Asking /\ Completing
  BY AskingInit, CompletingInit
<1>2. /\ \A n \in Nodes : pc[n] = "idle" /\ mode[n] = "run" /\ save[n].draft = None
      /\ turn = "position" /\ resumed = FALSE /\ current = None /\ stored = None
  BY DEF Init, NoSave
<1>3. ModeInv /\ InputInv /\ DraftInv /\ ResumedInv /\ UnreachedInv /\ EnteredInv /\ PlainInv
  BY <1>2 DEF ModeInv, InputInv, DraftInv, ResumedInv, UnreachedInv, EnteredInv, PlainInv, Saving, Running
<1>4. \A q \in Steps : ~Asked(q)
  BY <1>2, StepNotNone DEF Asked, Asks, QuestionOf
<1>5. AskedInv /\ KeptInv
  BY <1>2, <1>4 DEF AskedInv, KeptInv, KeptOf, KeptIn, QuestionOf
<1> QED
  BY <1>1, <1>3, <1>5 DEF Keeping

LEMMA KeepingStep == Keeping /\ [Next]_vars => Keeping'
<1> SUFFICES ASSUME Keeping, [Next]_vars PROVE Keeping'
  OBVIOUS
<1>1. Asking' /\ Completing'
  BY AskingStep, CompletingStep DEF Keeping
<1>2. Base' /\ TypeOK'
  BY <1>1 DEF Asking, Base
<1>3. ModeInv' /\ InputInv' /\ DraftInv'
  BY <1>2, ModeStep, InputStep, DraftStep
<1>4. ResumedInv' /\ UnreachedInv'
  BY ResumedStep, UnreachedStep
<1>5. EnteredInv'
  BY <1>2, <1>4, EnteredStep
<1>6. AskedInv' /\ PlainInv' /\ KeptInv'
  BY <1>2, AskedStep, PlainStep, KeptStep
<1> QED
  BY <1>1, <1>3, <1>4, <1>5, <1>6 DEF Keeping

\* A node that is resumed and has no loop below it has the input with which it
\* was entered, so that the children of a parallel node that Resume executes
\* again get it, too (InputKept).
THEOREM InputsKept == Spec => []InputKept
<1>1. Keeping => InputKept
  <2> SUFFICES ASSUME Keeping, NEW n \in Nodes, pc[n] # "idle", mode[n] = "resume", ~Nested(n),
                      \A m \in Loops : ~Below(n, m)
               PROVE  in[n] = given[n]
    BY DEF InputKept
  <2>1. Eligible(n) /\ ~Anew(n)
    BY DEF Eligible, Anew
  <2> QED
    BY <2>1 DEF Keeping, EnteredInv
<1> QED
  BY <1>1, KeepingInit, KeepingStep, PTL DEF Spec

\* At every step the variables have their types, whatever the tree of the workflow.
THEOREM TypeCorrect == Spec => []TypeOK
<1>1. Spec => []Base
  BY BaseInit, BaseStep, PTL DEF Spec
<1>2. Base => TypeOK
  BY DEF Base
<1> QED
  BY <1>1, <1>2, PTL
=============================================================================
