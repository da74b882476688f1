------------------------- MODULE MCTaskOrchestrator -------------------------
(* TaskOrchestrator for TLC: a chain of two tasks, the second of which takes *)
(* the output of the first.                                                  *)
EXTENDS TaskOrchestrator, TLC

CONSTANTS a, b,     \* tasks
          Retries   \* every task's maxRetries

ChainDeps == [t \in Tasks |-> IF t = b THEN {a} ELSE {}]
ChainRefs == [t \in Tasks |-> IF t = b THEN {a} \cap Tasks ELSE {}]
SameRetries == [t \in Tasks |-> Retries]
\* Threads are interchangeable.
ThreadSymmetry == Permutations(Execs)
=============================================================================
