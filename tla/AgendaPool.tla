----------------------------- MODULE AgendaPool -----------------------------
(***************************************************************************)
(* The agenda implements the task pool: the mapping of its state to the    *)
(* state of TaskPool.                                                      *)
(***************************************************************************)
EXTENDS Agenda

CONSTANT Unknown

ASSUME UnknownAssumption == Unknown \notin Nat

\* A task is queued while it is in tasks_ and running while a thread has not
\* called cleanup() for it; what cleanup() has counted is done or failed.
StatusOf(t) ==
    IF t \in failed THEN "failed"
    ELSE IF t \in done THEN "done"
    ELSE IF t \in tasks_ THEN "queued"
    ELSE IF \E w \in Working : cur[w] = t THEN "running"
    ELSE "new"

Pool == INSTANCE TaskPool WITH
    status <- [t \in Task |-> StatusOf(t)],
    result <- IF Returned THEN Cardinality(failed) ELSE Unknown

\* Whatever the threads do, a scheduled task is run exactly once, within the limit
\* of its class, and run() returns with the count of the failed tasks only when
\* every scheduled task has ended.
ImplementsPool == Pool!Spec
=============================================================================
