--------------------------- MODULE MCModelCircuit ---------------------------
(* Configurations of ModelCircuit for TLC: the calls of one Task, or of two *)
(* Tasks with different settings, that share one Model instance.           *)
EXTENDS ModelCircuit

CONSTANT c1

\* Every call belongs to one Task: two failures open the circuit.
Twos == [c \in Calls |-> 2]
Ones == [c \in Calls |-> 1]

\* Calls of two Tasks: c1 opens at the first failure, cools down twice as
\* long and may send two probes.
MixedThreshold == [c \in Calls |-> IF c = c1 THEN 1 ELSE 2]
MixedDuration == [c \in Calls |-> IF c = c1 THEN 2 ELSE 1]
MixedHalfOpen == [c \in Calls |-> IF c = c1 THEN 2 ELSE 1]
=============================================================================
