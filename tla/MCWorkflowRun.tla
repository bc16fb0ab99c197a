--------------------------- MODULE MCWorkflowRun ----------------------------
(* WorkflowRun for TLC: two small workflows. *)
EXTENDS WorkflowRun

CONSTANTS choose, repeat, both, s0, s1, s2, s3

\* A loop in one branch of a condition, and two steps in parallel, each before
\* another step.
TreeNodes == {choose, repeat, both, s0, s1, s2, s3}
TreeKind == [n \in TreeNodes |->
    IF n = choose THEN "condition" ELSE IF n = repeat THEN "loop"
    ELSE IF n = both THEN "parallel" ELSE "step"]
TreeChildren == [n \in TreeNodes |->
    IF n = choose THEN <<repeat, None>> ELSE IF n = repeat THEN <<s1>>
    ELSE IF n = both THEN <<s2, s3>> ELSE <<>>]
TreePath == [n \in TreeNodes |->
    IF n \in {choose, both, s0} THEN <<n>> ELSE IF n = repeat THEN <<choose, repeat>>
    ELSE IF n = s1 THEN <<choose, repeat, s1>> ELSE <<both, n>>]
Sequential == <<choose, s0>>
Forked == <<both, s0>>
All == {Sequential, Forked}
WorkOf == [w \in All |-> IF w = Sequential THEN 2 ELSE 1]
Crashes == [w \in All |-> IF w = Sequential THEN 2 ELSE 1]
=============================================================================
