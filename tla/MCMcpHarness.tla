---- MODULE MCMcpHarness ----
EXTENDS McpHarness, TLC

CONSTANTS c1, c2, i1, i2, u1, m1, m2, toolX, toolY, toolZ

\* The first server has two tools, the second one, of which the application
\* registers one itself.
MCClients == <<c1, c2>>
MCToolsOf == [c \in {c1, c2} |-> IF c = c1 THEN {toolX, toolY} ELSE {toolZ}]
MCDiscovered == <<toolX, toolY, toolZ>>
MCUserTool == [u \in {u1} |-> toolY]
MCMakerTool == [m \in {m1, m2} |-> toolX]

\* Calls of one kind are alike.
Symmetry == Permutations(Inits) \cup Permutations(Makers)
====
