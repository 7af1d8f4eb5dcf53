-------------------------- MODULE AgendaPoolProofs --------------------------
(***************************************************************************)
(* The agenda implements the task pool for every number of threads, tasks  *)
(* and segments: each of its steps is, under the mapping of AgendaPool, a  *)
(* step of TaskPool or changes nothing there.                              *)
(***************************************************************************)
EXTENDS AgendaPool, AgendaProofs

\* What the mapping needs beyond IInv: only what cleanup() has counted has failed.
PInv == IInv /\ failed \subseteq done

Status == [t \in Task |-> StatusOf(t)]
Result == IF Returned THEN Cardinality(failed) ELSE Unknown

\* The status of a task by the three places it can be in.
LEMMA StatusByPlace ==
    ASSUME NEW t
    PROVE  /\ StatusOf(t) = IF t \in failed THEN "failed" ELSE IF t \in done THEN "done"
                            ELSE IF t \in tasks_ THEN "queued"
                            ELSE IF t \in AtWork THEN "running" ELSE "new"
           /\ StatusOf(t)' = IF t \in failed' THEN "failed" ELSE IF t \in done' THEN "done"
                            ELSE IF t \in tasks_' THEN "queued"
                            ELSE IF t \in AtWork' THEN "running" ELSE "new"
<1>1. /\ t \in AtWork <=> \E w \in Working : cur[w] = t
      /\ t \in AtWork' <=> \E w \in Working' : cur'[w] = t
  BY DEF AtWork
<1> QED BY <1>1 DEF StatusOf

\* TaskPool counts as the agenda does.
LEMMA SameCardinality == \A S : Pool!Cardinality(S) = Cardinality(S)
  BY DEF Pool!Cardinality, Cardinality

\* Each status stands for one of the places.
LEMMA StatusMeans ==
    ASSUME PInv, NEW t \in Task
    PROVE  /\ StatusOf(t) = "new" <=> t \notin submitted
           /\ StatusOf(t) = "queued" <=> t \in tasks_
           /\ StatusOf(t) = "running" <=> t \in AtWork
           /\ StatusOf(t) = "failed" <=> t \in failed
BY StatusByPlace DEF PInv, IInv, Places

\* No thread has returned from run() while one of them is at a task.
LEMMA NotReturned ==
    ASSUME NEW w \in Worker
    PROVE  /\ pc[w] # "exited" => ~Returned
           /\ pc'[w] # "exited" => ~Returned'
BY DEF Returned

\* The value of run() is known exactly when it has returned.
LEMMA ResultMeans ==
    ASSUME PInv
    PROVE  /\ Cardinality(failed) \in Nat
           /\ Result = Unknown <=> ~Returned
<1>1. IsFiniteSet(failed)
  BY TaskAssumption, FS_Subset DEF PInv, IInv, TypeOK
<1> QED BY <1>1, FS_CardinalityType, UnknownAssumption DEF Result

\* Threads at work are no fewer than the tasks of their class.
LEMMA RunningBound ==
    ASSUME PInv, NEW c \in TaskType
    PROVE  Cardinality({t \in AtWork : TypeOf[t] = c}) <= classes_[c]
<1> DEFINE T == {t \in AtWork : TypeOf[t] = c}
<1> DEFINE F == [w \in WorkingOn(c) |-> cur[w]]
<1>1. F \in Surjection(WorkingOn(c), T)
  BY DEF Surjection, AtWork, WorkingOn
<1>2. Cardinality(T) <= Cardinality(WorkingOn(c))
  <2> HIDE DEF F, T
  <2> QED BY <1>1, WorkingFinite, FS_Surjection
<1> QED BY <1>2 DEF PInv, IInv, CountersExact

-----------------------------------------------------------------------------
\* The initial states.
LEMMA MappedInit == Init => PInv /\ Pool!Init
<1> SUFFICES ASSUME Init PROVE PInv /\ Pool!Init
  OBVIOUS
<1>1. PInv
  BY InitInv DEF PInv, Init
<1>2. Status = [t \in Task |-> IF t \in Batch[1] THEN "queued" ELSE "new"]
  <2>1. AtWork = {}
    BY DEF Init, AtWork, Working
  <2> QED BY <2>1, StatusByPlace DEF Status, Init
<1>3. ~Returned
  BY SomeWorker DEF Init, Returned
<1> QED BY <1>1, <1>2, <1>3 DEF Pool!Init, Status, Init

\* A step that moves one task and does not end run().
LEMMA OneTaskMoves ==
    ASSUME NEW t \in Task, NEW s, StatusOf(t)' = s,
           \A u \in Task \ {t} : StatusOf(u)' = StatusOf(u)
    PROVE  Status' = [Status EXCEPT ![t] = s]
BY DEF Status

\* Taking a task is Start.
LEMMA TakeStarts ==
    ASSUME PInv, PInv', NEW w \in Worker, Claim(w)
    PROVE  Pool!Start
<1>1. PICK c \in TaskType : \E t \in Eligible(c) : Take(w, c, t)
  BY DEF Claim
<1>2. PICK t \in Eligible(c) : Take(w, c, t)
  BY <1>1
<1>3. t \in tasks_ /\ t \in Task /\ TypeOf[t] = c /\ classes_[c] < Limit[c]
  BY EligibleTask DEF PInv, IInv
<1>4. AtWork' = AtWork \cup {t}
  <2>1. \A v \in Worker : v # w => cur'[v] = cur[v] /\ pc'[v] = pc[v]
    BY <1>2 DEF Take, PInv, IInv, TypeOK
  <2>2. cur'[w] = t /\ pc'[w] = "run" /\ pc[w] = "claim"
    BY <1>2 DEF Take, PInv, IInv, TypeOK
  <2> QED BY <2>1, <2>2 DEF AtWork, Working
<1>5. Status' = [Status EXCEPT ![t] = "running"]
  <2>1. t \notin done /\ failed \subseteq done
    BY <1>3 DEF PInv, IInv, Places
  <2>2. StatusOf(t)' = "running"
    BY <1>2, <1>3, <1>4, <2>1, StatusByPlace DEF Take
  <2>3. \A u \in Task \ {t} : StatusOf(u)' = StatusOf(u)
    BY <1>2, <1>4, StatusByPlace DEF Take
  <2> QED BY <1>3, <2>2, <2>3, OneTaskMoves
<1>6. Status[t] = "queued"
  BY <1>3, StatusMeans DEF Status
<1>7. Cardinality({u \in {v \in Task : Status[v] \in {"running"}} : TypeOf[u] = c}) < Limit[c]
  <2>1. {u \in {v \in Task : Status[v] \in {"running"}} : TypeOf[u] = c}
          = {u \in AtWork : TypeOf[u] = c}
    <3>1. AtWork \subseteq Task
      BY DEF AtWork, Working, PInv, IInv, TypeOK
    <3> QED BY <3>1, StatusMeans DEF Status
  <2>2. Cardinality({u \in AtWork : TypeOf[u] = c}) \in Nat
    <3>1. IsFiniteSet({u \in AtWork : TypeOf[u] = c})
      <4>1. AtWork \subseteq Task
        BY DEF AtWork, Working, PInv, IInv, TypeOK
      <4> QED BY <4>1, TaskAssumption, FS_Subset
    <3> QED BY <3>1, FS_CardinalityType
  <2>3. classes_[c] \in Int /\ Limit[c] \in Nat
    BY PoolAssumption DEF PInv, IInv, TypeOK
  <2> QED BY <1>3, <2>1, <2>2, <2>3, RunningBound
<1>8. Result' = Result /\ round' = round
  BY <1>2, <1>3, NotReturned DEF Result, Take, PInv, IInv, TypeOK
<1> QED
  BY <1>3, <1>5, <1>6, <1>7, <1>8, SameCardinality
     DEF Pool!Start, Pool!With, Pool!Running, Status, Result

\* schedule() is Submit.
LEMMA ScheduleSubmits ==
    ASSUME PInv, PInv', NEW w \in Worker, Schedule(w)
    PROVE  Pool!Submit
<1>1. PICK t \in Task : Submit(w, t)
  BY DEF Schedule
<1>2. w \in Working /\ cur[w] \in Task /\ cur[w] \in AtWork /\ t \in Spawns[cur[w]]
  BY <1>1 DEF Submit, PInv, IInv, TypeOK, Working, AtWork
<1>3. AtWork' = AtWork
  BY <1>1, CountsKept DEF Submit
<1>4. Status' = [Status EXCEPT ![t] = "queued"]
  <2>1. t \notin submitted /\ t \notin done /\ failed \subseteq done
    BY <1>1 DEF Submit, PInv, IInv, Places
  <2>2. StatusOf(t)' = "queued"
    BY <1>1, <2>1, StatusByPlace DEF Submit
  <2>3. \A u \in Task \ {t} : StatusOf(u)' = StatusOf(u)
    BY <1>1, <1>3, StatusByPlace DEF Submit
  <2> QED BY <2>2, <2>3, OneTaskMoves
<1>5. Status[t] = "new" /\ Status[cur[w]] = "running"
  BY <1>1, <1>2, StatusMeans DEF Status, Submit
<1>6. Result' = Result /\ round' = round
  BY <1>1, NotReturned DEF Result, Submit
<1> QED BY <1>2, <1>4, <1>5, <1>6 DEF Pool!Submit, Pool!With, Status, Result

\* cleanup() is End.
LEMMA CleanupEnds ==
    ASSUME PInv, PInv', NEW w \in Worker, Cleanup(w)
    PROVE  Pool!End
<1>0. PICK t : t = cur[w]
  OBVIOUS
<1>1. w \in Working /\ t \in Task /\ t \in AtWork /\ t \notin tasks_ /\ t \notin done
  BY <1>0 DEF Cleanup, PInv, IInv, TypeOK, Working, AtWork, Places
<1>2. AtWork' = AtWork \ {t}
  <2>1. Working' = Working \ {w} /\ cur' = cur
    BY <1>1, CountsOnEnd DEF Cleanup, PInv, IInv
  <2> QED BY <1>0, <1>1, <2>1 DEF AtWork, PInv, IInv, Places
<1>3. failed \subseteq done /\ (failed' = failed \/ failed' = failed \cup {t})
  BY <1>0 DEF Cleanup, PInv
<1>4. StatusOf(t)' \in {"done", "failed"}
  BY <1>0, <1>1, <1>3, StatusByPlace DEF Cleanup
<1>5. \A u \in Task \ {t} : StatusOf(u)' = StatusOf(u)
  BY <1>0, <1>2, <1>3, StatusByPlace DEF Cleanup
<1>6. Status' = [Status EXCEPT ![t] = StatusOf(t)']
  BY <1>1, <1>5, OneTaskMoves
<1>7. Status[t] = "running"
  BY <1>1, StatusMeans DEF Status
<1>8. Result' = Result /\ round' = round
  BY <1>1, NotReturned DEF Result, Cleanup, PInv, IInv, TypeOK, Working
<1> QED BY <1>1, <1>4, <1>6, <1>7, <1>8 DEF Pool!End, Pool!With, Status, Result

\* A step that moves no task and does not end run() changes nothing in the pool.
LEMMA Stutters ==
    ASSUME AtWork' = AtWork, Result' = Result,
           UNCHANGED <<tasks_, done, failed, round>>
    PROVE  UNCHANGED Pool!pool
<1>1. Status' = Status
  BY StatusByPlace DEF Status
<1> QED BY <1>1 DEF Pool!pool, Status, Result

\* When the last thread, or the thread that draws, returns, that is Return.
LEMMA ReturnReturns ==
    ASSUME PInv, PInv', AtWork' = AtWork, Drained, ~Returned,
           UNCHANGED <<tasks_, done, failed, num_working_, round>>
    PROVE  Pool!Return \/ UNCHANGED Pool!pool
<1>1. CASE ~Returned'
  <2>1. Result' = Result
    BY <1>1 DEF Result
  <2>2. UNCHANGED <<tasks_, done, failed, round>>
    OBVIOUS
  <2> QED BY <2>1, <2>2, Stutters
<1>2. CASE Returned'
  <2>1. Status' = Status
    BY StatusByPlace DEF Status
  <2>2. Working = {}
    BY WorkingFinite, FS_EmptySet DEF PInv, IInv, CountersExact, Drained
  <2>3. \A t \in Task : Status[t] \notin {"queued", "running"}
    BY <2>2, StatusMeans DEF Status, Drained, AtWork
  <2>4. {t \in Task : Status[t] \in {"failed"}} = failed
    <3>1. failed \subseteq Task
      BY DEF PInv, IInv, TypeOK
    <3> QED BY <3>1, StatusMeans DEF Status
  <2>5. Result = Unknown /\ Result' = Cardinality(failed)
    BY <1>2 DEF Result
  <2>6. {t \in Task : Status[t] \in {"queued", "running"}} = {}
    BY <2>3
  <2> QED
    BY <2>1, <2>4, <2>5, <2>6, SameCardinality DEF Pool!Return, Pool!With, Status, Result
<1> QED BY <1>1, <1>2

\* Calling run() again is Again.
LEMMA RunAgainAgain ==
    ASSUME PInv, PInv', RunAgain
    PROVE  Pool!Again
<1>1. Returned /\ AtWork' = {} /\ AtWork = {} /\ ~Returned'
  BY SomeWorker DEF RunAgain, Returned, AtWork, Working
<1>2. tasks_ = {} /\ submitted = done
  BY <1>1, SomeWorker DEF Returned, PInv, IInv, Wakeups, Drained, Places
<1>3. \A t \in Task : StatusOf(t)' = IF t \in Batch[round + 1] /\ StatusOf(t) = "new"
                                     THEN "queued" ELSE StatusOf(t)
  BY <1>1, <1>2, StatusByPlace DEF RunAgain, PInv
<1>4. Result # Unknown /\ Result' = Unknown
  BY <1>1, ResultMeans DEF Result
<1> QED BY <1>3, <1>4 DEF Pool!Again, Result, RunAgain

\* Every step of the agenda is one of the pool, or changes nothing there.
LEMMA MappedStep == PInv /\ PInv' /\ [Next]_vars => [Pool!Next]_(Pool!pool)
<1> SUFFICES ASSUME PInv, PInv', [Next]_vars PROVE Pool!Next \/ UNCHANGED Pool!pool
  OBVIOUS
<1>1. ASSUME NEW w \in Worker, WorkerStep(w) PROVE Pool!Next \/ UNCHANGED Pool!pool
  <2>1. CASE Claim(w) \/ Schedule(w) \/ Cleanup(w)
    BY <2>1, TakeStarts, ScheduleSubmits, CleanupEnds DEF Pool!Next
  <2>2. CASE Exit(w)
    <3>1. AtWork' = AtWork
      BY <2>2, CountsKept DEF Exit, PInv, IInv, TypeOK
    <3>2. ~Returned /\ Drained
      BY <2>2 DEF Exit, Returned
    <3> QED BY <2>2, <3>1, <3>2, ReturnReturns DEF Exit, Pool!Next
  <2>3. CASE Wait(w) \/ Retry(w) \/ ReleaseSegment(w) \/ Released(w)
    <3>1. AtWork' = AtWork
      BY <2>3, CountsKept DEF Wait, Retry, ReleaseSegment, Drop, Released, PInv, IInv, TypeOK
    <3>2. pc[w] # "exited" /\ pc'[w] # "exited"
      BY <2>3 DEF Wait, Retry, ReleaseSegment, Drop, Released, PInv, IInv, TypeOK
    <3>3. UNCHANGED <<tasks_, done, failed, round>>
      BY <2>3 DEF Wait, Retry, ReleaseSegment, Drop, Released
    <3>4. Result' = Result
      BY <3>2, NotReturned DEF Result
    <3> QED BY <3>1, <3>3, <3>4, Stutters
  <2> QED BY <1>1, <2>1, <2>2, <2>3 DEF WorkerStep
<1>2. ASSUME NEW w \in Worker, SpuriousWake(w) PROVE UNCHANGED Pool!pool
  <2>1. AtWork' = AtWork /\ Result' = Result
    BY <1>2 DEF SpuriousWake, AtWork, Working, Result, Returned
  <2> QED BY <1>2, <2>1, Stutters DEF SpuriousWake
<1>3. CASE ProgressExit
  <2>1. AtWork' = AtWork /\ ~Returned
    BY <1>3 DEF ProgressExit, AtWork, Working, Returned
  <2> QED BY <1>3, <2>1, ReturnReturns DEF ProgressExit, Pool!Next
<1>4. CASE RunAgain
  BY <1>4, RunAgainAgain DEF Pool!Next
<1>5. CASE UNCHANGED vars
  <2>1. AtWork' = AtWork /\ Result' = Result
    BY <1>5 DEF vars, AtWork, Working, Result, Returned
  <2> QED BY <1>5, <2>1, Stutters DEF vars
<1> QED BY <1>1, <1>2, <1>3, <1>4, <1>5 DEF Next, Finished

\* What has failed has been counted by cleanup().
LEMMA PInvKept == PInv /\ [Next]_vars => PInv'
<1> SUFFICES ASSUME PInv, [Next]_vars PROVE PInv'
  OBVIOUS
<1>1. IInv'
  BY NextKeeps DEF PInv
<1>2. failed' \subseteq done'
  BY DEF PInv, Next, WorkerStep, Claim, Take, Wait, Exit, Schedule, Submit, Retry, Cleanup,
         ReleaseSegment, Drop, Released, SpuriousWake, ProgressExit, RunAgain, Finished, vars
<1> QED BY <1>1, <1>2 DEF PInv

\* Whatever the tasks are and however many threads run them: each scheduled task is
\* run exactly once, within the limit of its class, and run() returns, with the count
\* of the failed ones, only when every scheduled task has ended.
THEOREM Refinement == Spec => ImplementsPool
<1>1. Init => PInv /\ Pool!Init
  BY MappedInit
<1>2. PInv /\ [Next]_vars => PInv'
  BY PInvKept
<1>3. PInv /\ PInv' /\ [Next]_vars => [Pool!Next]_(Pool!pool)
  BY MappedStep
<1> QED BY <1>1, <1>2, <1>3, PTL DEF Spec, ImplementsPool, Pool!Spec
=============================================================================
