------------------------------ MODULE DagOrder ------------------------------
(***************************************************************************)
(* What the orchestrator of src/36 promises of a DAG, whatever masters and *)
(* workers do and however often a task is run: a task's command is first   *)
(* run only when every task it depends on, or takes a parameter from, has  *)
(* produced its result, and a result once produced stays.                  *)
(***************************************************************************)
CONSTANTS Tasks,
          Upstream    \* Upstream[t]: the tasks whose results t needs

VARIABLES started,    \* tasks whose command has been run
          done        \* tasks whose result is stored

Init == started = {} /\ done = {}

Start(t) ==
    /\ t \notin started
    /\ Upstream[t] \subseteq done
    /\ started' = started \cup {t}
    /\ UNCHANGED done

Finish(t) ==
    /\ t \in started \ done
    /\ done' = done \cup {t}
    /\ UNCHANGED started

Next == \E t \in Tasks : Start(t) \/ Finish(t)

Spec == Init /\ [][Next]_<<started, done>>
=============================================================================
