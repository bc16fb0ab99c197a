----------------------------- MODULE MCTeamRun ------------------------------
(* TeamRun for TLC. *)
EXTENDS TeamRun

All == {"sequential", "parallel", "leader_follower"}

\* A second crash of a leader/follower Team violates InputIsPredecessors: Resume
\* takes a follower's output for the plan.
MCCrashes == [m \in Modes |-> IF m = "sequential" THEN 2 ELSE 1]
=============================================================================
