------------------------------- MODULE Agenda -------------------------------
(***************************************************************************)
(* The work scheduler of es3 (agenda.h, agenda.cpp): a pool of threads     *)
(* that take tasks out of one queue under per-class limits and a budget of *)
(* memory segments, run them with a bounded number of retries, and stop    *)
(* when nothing is queued and nothing runs.                                *)
(*                                                                         *)
(* agenda::m_ makes every critical section one action.  A task is run once *)
(* per call of schedule(), so tasks are identities: what a task does       *)
(* between its start and its end is reduced to the tasks it may schedule   *)
(* (Spawns), the segments it asks for (Owner) and the child that keeps a   *)
(* segment alive after its owner is gone (Carrier).                        *)
(***************************************************************************)
EXTENDS Integers, FiniteSets

CONSTANTS Worker,       \* the threads started by agenda::run()
          Task,         \* every task that can be scheduled
          Segment,      \* the segments these tasks ask for
          NoTask,       \* the null sync_task_ptr
          TypeOf,       \* sync_task::get_class()
          Spawns,       \* the tasks that a task may schedule while it runs
          Owner,        \* the task that gets the segment from get_segments()
          Carrier,      \* the task object that is given a copy of the segment_ptr
          Limit,        \* class_limits_
          MaxInFlight,  \* max_segments_in_flight_
          MaxAttempts,  \* 10 in task_executor::operator()
          NumRuns,      \* how often the command calls agenda::run()
          Batch,        \* what the main thread schedules ahead of each run()
          Quiet         \* quiet_: no progress thread

TaskType == {"unbound", "cpu", "io"}

\* Iteration order of the std::map classes_: the order of the enum.
Rank == [unbound |-> 0, cpu |-> 1, io |-> 2]

\* The segments of a task, and sync_task::needs_segments().
SegmentsOf(t) == {s \in Segment : Owner[s] = t}
Needs(t) == Cardinality(SegmentsOf(t))

ASSUME TaskAssumption ==
    /\ IsFiniteSet(Task)
    /\ NoTask \notin Task
    /\ TypeOf \in [Task -> TaskType]
    /\ Spawns \in [Task -> SUBSET Task]

ASSUME PoolAssumption ==
    /\ IsFiniteSet(Worker)
    /\ Limit \in [TaskType -> Nat \ {0}]
    /\ MaxAttempts \in Nat \ {0}
    /\ NumRuns \in Nat \ {0}
    /\ Batch \in [1..NumRuns -> SUBSET Task]
    /\ Quiet \in BOOLEAN

\* A task never asks for more than the whole budget (file_pump is capped at half
\* of it, download_segment asks for one), and what carries a segment asks for none.
ASSUME SegmentAssumption ==
    /\ IsFiniteSet(Segment)
    /\ MaxInFlight \in Nat
    /\ Owner \in [Segment -> Task]
    /\ Carrier \in [Segment -> Task \cup {NoTask}]
    /\ \A t \in Task : Needs(t) <= MaxInFlight
    /\ \A s \in Segment : Carrier[s] # NoTask => Needs(Carrier[s]) = 0

\* run() starts one thread per unit of every class limit.
ASSUME ThreadAssumption ==
    Cardinality(Worker) = Limit["unbound"] + Limit["cpu"] + Limit["io"]

VARIABLES tasks_,              \* the tasks in the queue
          classes_,            \* tasks of each class being worked on
          num_working_,        \* tasks being worked on
          segments_in_flight_, \* segments that have not been deleted
          refs,                \* tasks that hold a segment_ptr to each segment
          waiting,             \* threads blocked on condition_
          pc,                  \* what each thread is doing
          cur,                 \* cur_task.first of each thread
          attempt,             \* index f of its retry loop
          submitted,           \* tasks counted by num_submitted_
          done,                \* tasks counted by num_done_
          failed,              \* tasks counted by num_failed_
          drawing,             \* the progress thread has not returned
          round                \* how many times run() has been called

vars == <<tasks_, classes_, num_working_, segments_in_flight_, refs, waiting, pc,
          cur, attempt, submitted, done, failed, drawing, round>>

-----------------------------------------------------------------------------
\* condition_.notify_one(): at most one blocked thread becomes runnable.
NotifyOne ==
    \/ waiting = {} /\ UNCHANGED waiting
    \/ \E w \in waiting : waiting' = waiting \ {w}

\* Mutant of NotifyAll: the last cleanup() wakes a single thread.
NotifyAllWakesOne == NotifyOne

NotifyAll == waiting' = {}

\* Mutant of Drained: tasks that still run are forgotten.
DrainedQueueOnly == tasks_ = {}

\* The test that ends threads, the progress thread and, with them, run().
Drained == tasks_ = {} /\ num_working_ = 0

\* run() has joined all its threads.
Returned == ~drawing /\ \A w \in Worker : pc[w] = "exited"

Avail == MaxInFlight - segments_in_flight_

\* The last and the first entry of tasks_, which is sorted by needs_segments().
Largest == {t \in tasks_ : \A u \in tasks_ : Needs(u) <= Needs(t)}
Smallest == {t \in tasks_ : \A u \in tasks_ : Needs(t) <= Needs(u)}

\* Mutant of Bucket: the second comparison with the budget is left out.
BucketUnchecked ==
    IF \A t \in tasks_ : Needs(t) <= Avail THEN Largest ELSE Smallest

\* The one entry that claim_task looks at: the largest if it fits the budget,
\* else the smallest if that one does.  What lies between is not looked at.
Bucket ==
    IF \A t \in tasks_ : Needs(t) <= Avail
    THEN Largest
    ELSE {t \in Smallest : Needs(t) <= Avail}

\* Mutant of Eligible: off by one.
EligibleOneTooMany(c) == {t \in Bucket : TypeOf[t] = c /\ classes_[c] <= Limit[c]}

Eligible(c) == {t \in Bucket : TypeOf[t] = c /\ classes_[c] < Limit[c]}

\* The first class in the order of classes_ that yields a task.
FirstClass(c) ==
    /\ Eligible(c) # {}
    /\ \A d \in TaskType : Rank[d] < Rank[c] => Eligible(d) = {}

NothingToClaim == \A c \in TaskType : Eligible(c) = {}

-----------------------------------------------------------------------------
Init ==
    /\ tasks_ = Batch[1]
    /\ classes_ = [c \in TaskType |-> 0]
    /\ num_working_ = 0
    /\ segments_in_flight_ = 0
    /\ refs = [s \in Segment |-> {}]
    /\ waiting = {}
    /\ pc = [w \in Worker |-> "claim"]
    /\ cur = [w \in Worker |-> NoTask]
    /\ attempt = [w \in Worker |-> 0]
    /\ submitted = Batch[1]
    /\ done = {}
    /\ failed = {}
    /\ drawing = ~Quiet
    /\ round = 1

\* claim_task: task t of class c is taken, with all the segments it asks for.
Take(w, c, t) ==
    /\ pc[w] = "claim" /\ w \notin waiting
    /\ FirstClass(c)
    /\ t \in Eligible(c)
    /\ tasks_' = tasks_ \ {t}
    /\ classes_' = [classes_ EXCEPT ![c] = @ + 1]
    /\ num_working_' = num_working_ + 1
    /\ segments_in_flight_' = segments_in_flight_ + Needs(t)
    /\ refs' = [s \in Segment |-> IF Owner[s] = t THEN refs[s] \cup {t} ELSE refs[s]]
    /\ pc' = [pc EXCEPT ![w] = "run"]
    /\ cur' = [cur EXCEPT ![w] = t]
    /\ attempt' = [attempt EXCEPT ![w] = 0]
    /\ UNCHANGED <<waiting, submitted, done, failed, drawing, round>>

Claim(w) == \E c \in TaskType : \E t \in Eligible(c) : Take(w, c, t)

\* claim_task: no task can be taken now, the thread blocks on condition_.
Wait(w) ==
    /\ pc[w] = "claim" /\ w \notin waiting
    /\ ~Drained
    /\ NothingToClaim
    /\ waiting' = waiting \cup {w}
    /\ UNCHANGED <<tasks_, classes_, num_working_, segments_in_flight_, refs, pc,
                   cur, attempt, submitted, done, failed, drawing, round>>

\* claim_task returns no task and the thread ends.
Exit(w) ==
    /\ pc[w] = "claim" /\ w \notin waiting
    /\ Drained
    /\ pc' = [pc EXCEPT ![w] = "exited"]
    /\ UNCHANGED <<tasks_, classes_, num_working_, segments_in_flight_, refs, waiting,
                   cur, attempt, submitted, done, failed, drawing, round>>

\* A blocked thread may return from wait() without a notification.
SpuriousWake(w) ==
    /\ w \in waiting
    /\ waiting' = waiting \ {w}
    /\ UNCHANGED <<tasks_, classes_, num_working_, segments_in_flight_, refs, pc,
                   cur, attempt, submitted, done, failed, drawing, round>>

\* The running task calls agenda::schedule(t), possibly with a segment for t.
Submit(w, t) ==
    /\ pc[w] = "run" /\ attempt[w] < MaxAttempts
    /\ t \in Spawns[cur[w]] \ submitted
    /\ tasks_' = tasks_ \cup {t}
    /\ refs' = [s \in Segment |-> IF Carrier[s] = t /\ Owner[s] = cur[w]
                                  THEN refs[s] \cup {t} ELSE refs[s]]
    /\ submitted' = submitted \cup {t}
    /\ NotifyOne
    /\ UNCHANGED <<classes_, num_working_, segments_in_flight_, pc, cur, attempt,
                   done, failed, drawing, round>>

Schedule(w) == \E t \in Task : Submit(w, t)

\* Mutant of Retry: the task is put back into the queue as well.
RetryRequeued(w) ==
    /\ pc[w] = "run" /\ attempt[w] < MaxAttempts
    /\ attempt' = [attempt EXCEPT ![w] = @ + 1]
    /\ tasks_' = tasks_ \cup {cur[w]}
    /\ UNCHANGED <<classes_, num_working_, segments_in_flight_, refs, waiting,
                   pc, cur, submitted, done, failed, drawing, round>>

\* The task throws errWarn or errNone: it is run again on the same thread.
Retry(w) ==
    /\ pc[w] = "run" /\ attempt[w] < MaxAttempts
    /\ attempt' = [attempt EXCEPT ![w] = @ + 1]
    /\ UNCHANGED <<tasks_, classes_, num_working_, segments_in_flight_, refs, waiting,
                   pc, cur, submitted, done, failed, drawing, round>>

\* The task has returned, thrown for good or used up its attempts: cleanup().
Cleanup(w) ==
    /\ pc[w] = "run"
    /\ num_working_' = num_working_ - 1
    /\ classes_' = [classes_ EXCEPT ![TypeOf[cur[w]]] = @ - 1]
    /\ IF tasks_ = {} /\ num_working_' = 0 THEN NotifyAll ELSE NotifyOne
    /\ done' = done \cup {cur[w]}
    /\ \E fail \in BOOLEAN :
         /\ attempt[w] = MaxAttempts => fail
         /\ failed' = IF fail THEN failed \cup {cur[w]} ELSE failed
    /\ pc' = [pc EXCEPT ![w] = "release"]
    /\ UNCHANGED <<tasks_, segments_in_flight_, refs, cur, attempt, submitted,
                   drawing, round>>

\* Mutant of LastRef: every copy of the pointer deletes the segment.
AnyRef(s, t) == t \in refs[s]

\* The use count of the segment_ptr is 1 and t holds it.
LastRef(s, t) == refs[s] = {t}

\* cur_task goes out of scope after cleanup: one segment_ptr of the task goes, and
\* segment_deleter runs when it was the last one.
Drop(w, s) ==
    /\ pc[w] = "release"
    /\ cur[w] \in refs[s]
    /\ refs' = [refs EXCEPT ![s] = @ \ {cur[w]}]
    /\ IF LastRef(s, cur[w])
       THEN segments_in_flight_' = segments_in_flight_ - 1 /\ NotifyOne
       ELSE UNCHANGED <<segments_in_flight_, waiting>>
    /\ UNCHANGED <<tasks_, classes_, num_working_, pc, cur, attempt, submitted, done,
                   failed, drawing, round>>

ReleaseSegment(w) == \E s \in Segment : Drop(w, s)

\* Mutant of Released: the thread goes on with the task it has finished.
ReleasedKeepingTask(w) ==
    /\ pc[w] = "release"
    /\ \A s \in Segment : cur[w] \notin refs[s]
    /\ pc' = [pc EXCEPT ![w] = "claim"]
    /\ attempt' = [attempt EXCEPT ![w] = 0]
    /\ UNCHANGED <<tasks_, classes_, num_working_, segments_in_flight_, refs, waiting,
                   cur, submitted, done, failed, drawing, round>>

\* The task object is gone and the thread is back at claim_task.
Released(w) ==
    /\ pc[w] = "release"
    /\ \A s \in Segment : cur[w] \notin refs[s]
    /\ pc' = [pc EXCEPT ![w] = "claim"]
    /\ cur' = [cur EXCEPT ![w] = NoTask]
    /\ attempt' = [attempt EXCEPT ![w] = 0]
    /\ UNCHANGED <<tasks_, classes_, num_working_, segments_in_flight_, refs, waiting,
                   submitted, done, failed, drawing, round>>

\* draw_progress returns: it polls the same test as the threads.
ProgressExit ==
    /\ drawing
    /\ Drained
    /\ drawing' = FALSE
    /\ UNCHANGED <<tasks_, classes_, num_working_, segments_in_flight_, refs, waiting,
                   pc, cur, attempt, submitted, done, failed, round>>

\* The main thread, back from run(), schedules the next batch and calls it again
\* (create_schedule runs the listing first, do_rsync then runs the transfers).
RunAgain ==
    /\ Returned
    /\ round < NumRuns
    /\ round' = round + 1
    /\ tasks_' = Batch[round + 1] \ submitted
    /\ submitted' = submitted \cup Batch[round + 1]
    /\ pc' = [w \in Worker |-> "claim"]
    /\ drawing' = ~Quiet
    /\ UNCHANGED <<classes_, num_working_, segments_in_flight_, refs, waiting, cur,
                   attempt, done, failed>>

\* The command is over.
Finished == Returned /\ round = NumRuns /\ UNCHANGED vars

WorkerStep(w) ==
    \/ Claim(w)
    \/ Wait(w)
    \/ Exit(w)
    \/ Schedule(w)
    \/ Retry(w)
    \/ Cleanup(w)
    \/ ReleaseSegment(w)
    \/ Released(w)

Next ==
    \/ \E w \in Worker : WorkerStep(w) \/ SpuriousWake(w)
    \/ ProgressExit
    \/ RunAgain
    \/ Finished

Spec == Init /\ [][Next]_vars

\* Threads are scheduled by the system, transfers end (curl reports an error or
\* an answer), and the retry loop is bounded.
Fairness ==
    /\ \A w \in Worker : WF_vars(WorkerStep(w))
    /\ WF_vars(ProgressExit)
    /\ WF_vars(RunAgain)

FairSpec == Spec /\ Fairness

-----------------------------------------------------------------------------
Working == {w \in Worker : pc[w] = "run"}
WorkingOn(c) == {w \in Working : TypeOf[cur[w]] = c}
Live == {s \in Segment : refs[s] # {}}

\* Type invariant.
TypeOK ==
    /\ tasks_ \in SUBSET Task
    /\ classes_ \in [TaskType -> Int]
    /\ num_working_ \in Int
    /\ segments_in_flight_ \in Int
    /\ refs \in [Segment -> SUBSET Task]
    /\ waiting \in SUBSET Worker
    /\ pc \in [Worker -> {"claim", "run", "release", "exited"}]
    /\ cur \in [Worker -> Task \cup {NoTask}]
    /\ \A w \in Worker : (cur[w] = NoTask) <=> (pc[w] \in {"claim", "exited"})
    /\ attempt \in [Worker -> 0..MaxAttempts]
    /\ submitted \in SUBSET Task
    /\ done \in SUBSET Task
    /\ failed \in SUBSET Task
    /\ drawing \in BOOLEAN
    /\ round \in 1..NumRuns

\* The three counters that claim_task decides by are changed in three different
\* critical sections (claim, cleanup, segment_deleter), yet they always equal
\* what they count; a leak would strand tasks, an excess would exit early.
CountersExact ==
    /\ num_working_ = Cardinality(Working)
    /\ \A c \in TaskType : classes_[c] = Cardinality(WorkingOn(c))
    /\ segments_in_flight_ = Cardinality(Live)

\* No more segments exist than the budget allows, although they outlive the
\* task they were given to (the asserts of agenda.cpp:63 and :224).
SegmentBudget == Cardinality(Live) <= MaxInFlight

\* A thread ends only when nothing is queued, at work or about to be scheduled,
\* and when run() has returned every task scheduled so far is done and every
\* segment has been deleted, although cleanup() comes before the release.
DoneAtReturn ==
    /\ (\E w \in Worker : pc[w] = "exited") => submitted = done
    /\ Returned => submitted = done /\ segments_in_flight_ = 0 /\ Live = {}

\* The pool never blocks on its own condition variable: while a thread waits,
\* another one is awake, so somebody is left to notify.
NoStall ==
    waiting # {} => \E w \in Worker \ waiting : pc[w] # "exited"

\* Each run() of the command returns: no wakeup is lost for good, whatever tasks
\* fail, are retried, compete for segments or schedule others.
RunReturns == <>[](Returned /\ round = NumRuns)
=============================================================================
