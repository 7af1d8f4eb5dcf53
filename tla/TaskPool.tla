------------------------------ MODULE TaskPool ------------------------------
(***************************************************************************)
(* What the rest of es3 relies on when it hands its tasks to an agenda:    *)
(* every scheduled task is run exactly once, never more tasks of a class   *)
(* at a time than its limit, and run() returns, with the number of tasks   *)
(* that have failed so far, only when nothing is left to run.  The limit   *)
(* is one for unbound tasks as well (agenda.cpp:103): that they may exceed *)
(* it and borrow the threads of other classes, as the comment above that   *)
(* line has it (agenda.cpp:99-100), is commented out in the code.          *)
(***************************************************************************)
EXTENDS Integers, FiniteSets

CONSTANTS Task, TypeOf, Limit, Spawns, NumRuns, Batch, Unknown

VARIABLES status,  \* what has become of each task
          result,  \* the value of the last run(), Unknown while it has not returned
          round    \* how many times run() has been called

pool == <<status, result, round>>

With(S) == {t \in Task : status[t] \in S}
Running(c) == {t \in With({"running"}) : TypeOf[t] = c}

Init ==
    /\ status = [t \in Task |-> IF t \in Batch[1] THEN "queued" ELSE "new"]
    /\ result = Unknown
    /\ round = 1

\* A running task schedules another one.
Submit ==
    /\ \E p \in With({"running"}) : \E t \in Spawns[p] :
         /\ status[t] = "new"
         /\ status' = [status EXCEPT ![t] = "queued"]
    /\ UNCHANGED <<result, round>>

Start ==
    /\ \E t \in With({"queued"}) :
         /\ Cardinality(Running(TypeOf[t])) < Limit[TypeOf[t]]
         /\ status' = [status EXCEPT ![t] = "running"]
    /\ UNCHANGED <<result, round>>

End ==
    /\ \E t \in With({"running"}) : \E s \in {"done", "failed"} :
         status' = [status EXCEPT ![t] = s]
    /\ UNCHANGED <<result, round>>

Return ==
    /\ result = Unknown
    /\ With({"queued", "running"}) = {}
    /\ result' = Cardinality(With({"failed"}))
    /\ UNCHANGED <<status, round>>

\* The next batch is scheduled and run() is called again.
Again ==
    /\ result # Unknown
    /\ round < NumRuns
    /\ round' = round + 1
    /\ result' = Unknown
    /\ status' = [t \in Task |-> IF t \in Batch[round + 1] /\ status[t] = "new"
                                 THEN "queued" ELSE status[t]]

Next == Submit \/ Start \/ End \/ Return \/ Again

Spec == Init /\ [][Next]_pool
=============================================================================
