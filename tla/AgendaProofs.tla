---------------------------- MODULE AgendaProofs ----------------------------
(***************************************************************************)
(* The safety of the agenda for every number of threads, tasks, segments   *)
(* and runs.  IInv is the inductive invariant; the invariants checked by   *)
(* the runs follow from it.                                                *)
(***************************************************************************)
EXTENDS Agenda, FiniteSetTheorems, TLAPS

\* The tasks whose object or segment vector a thread still has.
Holders == {cur[w] : w \in {v \in Worker : pc[v] \in {"run", "release"}}}
AtWork == {cur[w] : w \in Working}

\* A scheduled task is in exactly one of three places.
Places ==
    /\ submitted = tasks_ \cup done \cup AtWork
    /\ tasks_ \cap done = {}
    /\ tasks_ \cap AtWork = {}
    /\ done \cap AtWork = {}
    /\ \A v, w \in Working : cur[v] = cur[w] => v = w
    /\ \A w \in Worker : pc[w] = "release" => cur[w] \in done

\* What keeps segments alive: a queued carrier, or a task that a thread still has;
\* a running task has all the segments it was given; a task that has not been
\* claimed has none yet.
SegmentRefs ==
    \A s \in Segment :
        /\ refs[s] \subseteq tasks_ \cup Holders
        /\ refs[s] # {} => Owner[s] \in submitted \ tasks_
        /\ \A t \in refs[s] : t # Owner[s] => Needs(t) = 0
        /\ Owner[s] \in AtWork => Owner[s] \in refs[s]

\* Why no thread is left behind: whoever drains the pool wakes everybody, threads
\* end only in a drained pool, and otherwise somebody is awake.
Wakeups ==
    /\ \A w \in waiting : pc[w] = "claim"
    /\ Drained => waiting = {}
    /\ (\E w \in Worker : pc[w] = "exited") => Drained
    /\ NoStall

Limits ==
    /\ \A c \in TaskType : classes_[c] <= Limit[c]
    /\ segments_in_flight_ <= MaxInFlight

IInv == TypeOK /\ CountersExact /\ Limits /\ Places /\ SegmentRefs /\ Wakeups

-----------------------------------------------------------------------------
\* Facts about the segments a task asks for.

\* What a task needs is a number of segments.
LEMMA NeedsType ==
    ASSUME NEW t \in Task
    PROVE  /\ IsFiniteSet(SegmentsOf(t))
           /\ Needs(t) \in Nat
<1>1. SegmentsOf(t) \in SUBSET Segment BY DEF SegmentsOf
<1>2. IsFiniteSet(SegmentsOf(t)) BY <1>1, FS_Subset, SegmentAssumption
<1>3. QED BY <1>2, FS_CardinalityType DEF Needs

\* A queue that is not empty has an entry with the greatest need.
LEMMA LargestExists ==
    ASSUME NEW S, S \subseteq Task, S # {}
    PROVE  \E t \in S : \A u \in S : Needs(u) <= Needs(t)
<1> DEFINE Spare == {MaxInFlight - Needs(t) : t \in S}
<1>1. \A t \in S : MaxInFlight - Needs(t) \in Nat
    BY NeedsType, SegmentAssumption
<1>2. Spare \subseteq Nat /\ Spare # {} BY <1>1
<1> HIDE DEF Spare
<1>3. PICK m \in Spare : \A k \in Spare : ~(<<k, m>> \in OpToRel(<, Nat))
    BY <1>2, WFMin, NatLessThanWellFounded, Zenon
<1>4. \A k \in Spare : ~(k < m) BY <1>2, <1>3, Zenon DEF OpToRel
<1>5. PICK t \in S : m = MaxInFlight - Needs(t) BY DEF Spare
<1>6. ASSUME NEW u \in S PROVE Needs(u) <= Needs(t)
    <2>1. MaxInFlight - Needs(u) \in Spare BY DEF Spare
    <2>2. ~(MaxInFlight - Needs(u) < MaxInFlight - Needs(t)) BY <2>1, <1>4, <1>5
    <2>3. Needs(u) \in Nat /\ Needs(t) \in Nat BY NeedsType
    <2>4. QED BY <2>2, <2>3, SegmentAssumption
<1>7. QED BY <1>6

\* The workers that run a task are finitely many.
LEMMA WorkingFinite ==
    /\ IsFiniteSet(Working)
    /\ \A c : IsFiniteSet(WorkingOn(c))
    /\ Cardinality(Working) \in Nat
    /\ \A c : Cardinality(WorkingOn(c)) \in Nat
<1>1. Working \in SUBSET Worker BY DEF Working
<1>2. \A c : WorkingOn(c) \in SUBSET Worker BY DEF Working, WorkingOn
<1>3. QED BY <1>1, <1>2, FS_Subset, FS_CardinalityType, PoolAssumption

\* So are the segments in flight.
LEMMA LiveFinite ==
    /\ IsFiniteSet(Live)
    /\ Cardinality(Live) \in Nat
<1>1. Live \in SUBSET Segment BY DEF Live
<1>2. QED BY <1>1, FS_Subset, FS_CardinalityType, SegmentAssumption

\* claim_task takes a queued task of the class it looks at, within its limits.
LEMMA EligibleTask ==
    ASSUME NEW c, NEW t \in Eligible(c), TypeOK
    PROVE  /\ t \in tasks_ /\ t \in Task
           /\ TypeOf[t] = c
           /\ classes_[c] < Limit[c]
           /\ Needs(t) <= Avail
BY DEF Eligible, Bucket, Largest, Smallest, TypeOK

-----------------------------------------------------------------------------
\* Type correctness.

\* The initial states.
LEMMA TypeInit == Init => TypeOK
BY TaskAssumption, PoolAssumption DEF Init, TypeOK, TaskType

\* Type correctness is inductive.
LEMMA TypeNext == TypeOK /\ [Next]_vars => TypeOK'
<1> SUFFICES ASSUME TypeOK, [Next]_vars PROVE TypeOK'
    OBVIOUS
<1> USE TaskAssumption, PoolAssumption
<1>1. ASSUME NEW w \in Worker, Claim(w) PROVE TypeOK'
    <2>1. PICK c \in TaskType : \E t \in Eligible(c) : Take(w, c, t)
        BY <1>1 DEF Claim
    <2>2. PICK t \in Eligible(c) : Take(w, c, t)
        BY <2>1
    <2>3. t \in Task /\ Needs(t) \in Nat BY EligibleTask, NeedsType
    <2>4. QED BY <2>2, <2>3 DEF TypeOK, Take
<1>2. ASSUME NEW w \in Worker, Wait(w) PROVE TypeOK'
    BY <1>2 DEF TypeOK, Wait
<1>3. ASSUME NEW w \in Worker, Exit(w) PROVE TypeOK'
    BY <1>3 DEF TypeOK, Exit
<1>4. ASSUME NEW w \in Worker, Schedule(w) PROVE TypeOK'
    <2>1. PICK t \in Task : Submit(w, t) BY <1>4 DEF Schedule
    <2>2. waiting' \subseteq waiting BY <2>1 DEF Submit, NotifyOne
    <2>3. QED BY <2>1, <2>2 DEF TypeOK, Submit
<1>5. ASSUME NEW w \in Worker, Retry(w) PROVE TypeOK'
    BY <1>5 DEF TypeOK, Retry
<1>6. ASSUME NEW w \in Worker, Cleanup(w) PROVE TypeOK'
    <2>1. cur[w] \in Task BY <1>6 DEF TypeOK, Cleanup
    <2>2. waiting' \subseteq waiting BY <1>6 DEF Cleanup, NotifyOne, NotifyAll
    <2>3. QED BY <1>6, <2>1, <2>2 DEF TypeOK, Cleanup
<1>7. ASSUME NEW w \in Worker, ReleaseSegment(w) PROVE TypeOK'
    <2>1. PICK s \in Segment : Drop(w, s) BY <1>7 DEF ReleaseSegment
    <2>2. waiting' \subseteq waiting BY <2>1 DEF Drop, NotifyOne
    <2>3. QED BY <2>1, <2>2 DEF TypeOK, Drop
<1>8. ASSUME NEW w \in Worker, Released(w) PROVE TypeOK'
    BY <1>8 DEF TypeOK, Released
<1>9. ASSUME NEW w \in Worker, SpuriousWake(w) PROVE TypeOK'
    BY <1>9 DEF TypeOK, SpuriousWake
<1>10. CASE ProgressExit
    BY <1>10 DEF TypeOK, ProgressExit
<1>11. CASE RunAgain
    <2>1. round + 1 \in 1..NumRuns BY <1>11 DEF TypeOK, RunAgain
    <2>2. QED BY <1>11, <2>1 DEF TypeOK, RunAgain, Returned
<1>12. CASE UNCHANGED vars
    BY <1>12 DEF TypeOK, vars
<1>13. QED
    BY <1>1, <1>2, <1>3, <1>4, <1>5, <1>6, <1>7, <1>8, <1>9, <1>10, <1>11, <1>12
       DEF Next, WorkerStep, Finished

\* Type correctness of every reachable state.
THEOREM TypeCorrect == Spec => []TypeOK
BY TypeInit, TypeNext, PTL DEF Spec

-----------------------------------------------------------------------------
\* How the sets behind the counters change.

\* A thread that takes a task joins the working ones.
LEMMA CountsOnStart ==
    ASSUME TypeOK, NEW w \in Worker, NEW t, pc[w] # "run",
           pc' = [pc EXCEPT ![w] = "run"], cur' = [cur EXCEPT ![w] = t]
    PROVE  /\ Working' = Working \cup {w}
           /\ Cardinality(Working') = Cardinality(Working) + 1
           /\ \A c : Cardinality(WorkingOn(c)') =
                       IF TypeOf[t] = c THEN Cardinality(WorkingOn(c)) + 1
                                        ELSE Cardinality(WorkingOn(c))
<1>1. Working' = Working \cup {w} /\ w \notin Working
    BY DEF TypeOK, Working
<1>2. ASSUME NEW c, TypeOf[t] = c
      PROVE  WorkingOn(c)' = WorkingOn(c) \cup {w} /\ w \notin WorkingOn(c)
    BY <1>2 DEF TypeOK, Working, WorkingOn
<1>3. ASSUME NEW c, TypeOf[t] # c PROVE WorkingOn(c)' = WorkingOn(c)
    BY <1>3 DEF TypeOK, Working, WorkingOn
<1>4. Cardinality(Working') = Cardinality(Working) + 1
    BY <1>1, WorkingFinite, FS_AddElement
<1>5. ASSUME NEW c, TypeOf[t] = c
      PROVE  Cardinality(WorkingOn(c)') = Cardinality(WorkingOn(c)) + 1
    BY <1>2, <1>5, WorkingFinite, FS_AddElement
<1>6. QED BY <1>1, <1>3, <1>4, <1>5

\* A thread that ends its task leaves them.
LEMMA CountsOnEnd ==
    ASSUME TypeOK, NEW w \in Worker, pc[w] = "run",
           pc' = [pc EXCEPT ![w] = "release"], cur' = cur
    PROVE  /\ Working' = Working \ {w}
           /\ Cardinality(Working') = Cardinality(Working) - 1
           /\ \A c : Cardinality(WorkingOn(c)') =
                       IF TypeOf[cur[w]] = c THEN Cardinality(WorkingOn(c)) - 1
                                             ELSE Cardinality(WorkingOn(c))
<1>1. Working' = Working \ {w} /\ w \in Working
    BY DEF TypeOK, Working
<1>2. ASSUME NEW c, TypeOf[cur[w]] = c
      PROVE  WorkingOn(c)' = WorkingOn(c) \ {w} /\ w \in WorkingOn(c)
    BY <1>2 DEF TypeOK, Working, WorkingOn
<1>3. ASSUME NEW c, TypeOf[cur[w]] # c PROVE WorkingOn(c)' = WorkingOn(c)
    BY <1>3 DEF TypeOK, Working, WorkingOn
<1>4. Cardinality(Working') = Cardinality(Working) - 1
    BY <1>1, WorkingFinite, FS_RemoveElement
<1>5. ASSUME NEW c, TypeOf[cur[w]] = c
      PROVE  Cardinality(WorkingOn(c)') = Cardinality(WorkingOn(c)) - 1
    BY <1>2, <1>5, WorkingFinite, FS_RemoveElement
<1>6. QED BY <1>1, <1>3, <1>4, <1>5

\* A step that starts and ends no task leaves them as they are.
LEMMA CountsKept ==
    ASSUME \A v \in Worker : /\ pc'[v] = "run" <=> pc[v] = "run"
                             /\ pc[v] = "run" => cur'[v] = cur[v]
    PROVE  /\ Working' = Working
           /\ AtWork' = AtWork
           /\ \A c : WorkingOn(c)' = WorkingOn(c)
<1>1. Working' = Working BY DEF Working
<1>2. \A v \in Working : cur'[v] = cur[v] BY DEF Working
<1>3. QED BY <1>1, <1>2 DEF AtWork, WorkingOn

\* The thread that acts is awake after its step.
LEMMA ActorAwake ==
    ASSUME NEW w \in Worker, w \notin waiting', pc'[w] # "exited"
    PROVE  NoStall'
BY DEF NoStall

-----------------------------------------------------------------------------
\* The inductive step, action by action.  TypeOK' is known from TypeNext.

\* Taking a task: the budget was checked, and its segments are new.
LEMMA TakeKeeps ==
    ASSUME IInv, TypeOK', NEW w \in Worker, NEW c \in TaskType,
           NEW t \in Eligible(c), Take(w, c, t)
    PROVE  IInv'
<1> USE DEF IInv
<1>1. /\ t \in tasks_ /\ t \in Task /\ TypeOf[t] = c
      /\ classes_[c] < Limit[c]
      /\ Needs(t) <= Avail /\ Needs(t) \in Nat
    BY EligibleTask, NeedsType
<1>2. pc[w] = "claim" /\ cur[w] = NoTask /\ w \notin waiting
    BY DEF Take, TypeOK
<1>3. \A d \in TaskType :
          /\ classes_'[d] = IF d = c THEN classes_[d] + 1 ELSE classes_[d]
          /\ classes_[d] \in Int /\ Limit[d] \in Nat
    BY PoolAssumption DEF Take, TypeOK
<1>4. /\ Working' = Working \cup {w} /\ w \notin Working
      /\ AtWork' = AtWork \cup {t}
      /\ Holders' = Holders \cup {t}
    <2>1. Working' = Working \cup {w} /\ w \notin Working
        BY <1>2, CountsOnStart DEF Take, Working
    <2>2. \A v \in Worker : v # w => cur'[v] = cur[v] /\ pc'[v] = pc[v]
        BY DEF Take, TypeOK
    <2>3. cur'[w] = t /\ pc'[w] = "run" BY DEF Take, TypeOK
    <2>4. QED BY <1>2, <2>1, <2>2, <2>3 DEF AtWork, Holders, Working
<1>5. CountersExact'
    <2>1. \A s \in SegmentsOf(t) : refs[s] = {}
        BY <1>1 DEF SegmentRefs, SegmentsOf
    <2>2. Live' = Live \cup SegmentsOf(t) /\ Live \cap SegmentsOf(t) = {}
        BY SMTT(30), <2>1 DEF Take, Live, SegmentsOf, TypeOK
    <2>3. Cardinality(Live') = Cardinality(Live) + Needs(t)
        BY <1>1, <2>2, LiveFinite, NeedsType, FS_Union, FS_EmptySet DEF Needs
    <2>4. num_working_' = Cardinality(Working')
        BY <1>2, CountsOnStart DEF Take, CountersExact
    <2>5. \A d \in TaskType : classes_'[d] = Cardinality(WorkingOn(d)')
        <3>1. \A d : Cardinality(WorkingOn(d)') =
                       IF c = d THEN Cardinality(WorkingOn(d)) + 1
                                ELSE Cardinality(WorkingOn(d))
            BY <1>1, <1>2, CountsOnStart DEF Take
        <3>2. QED BY <3>1, <1>3 DEF CountersExact
    <2>6. QED BY <2>3, <2>4, <2>5 DEF Take, CountersExact
<1>6. Limits'
    <2>1. \A d \in TaskType : classes_'[d] <= Limit[d]
        BY <1>1, <1>3 DEF Limits
    <2>2. segments_in_flight_' <= MaxInFlight
        BY <1>1, SegmentAssumption DEF Take, Avail, TypeOK
    <2>3. QED BY <2>1, <2>2 DEF Limits
<1>7. Places'
    <2>1. \A v \in Working : cur'[v] = cur[v] /\ cur[v] # t
        BY <1>1, <1>4 DEF Take, TypeOK, Places, AtWork, Working
    <2>2. cur'[w] = t BY DEF Take, TypeOK
    <2>3. \A u, v \in Working' : cur'[u] = cur'[v] => u = v
        BY <1>4, <2>1, <2>2 DEF Places
    <2>4. \A v \in Worker : pc'[v] = "release" => cur'[v] \in done'
        BY DEF Take, TypeOK, Places
    <2>5. QED BY <1>1, <1>4, <2>3, <2>4 DEF Take, Places
<1>8. SegmentRefs'
    <2> SUFFICES ASSUME NEW s \in Segment
        PROVE  /\ refs'[s] \subseteq tasks_' \cup Holders'
               /\ refs'[s] # {} => Owner[s] \in submitted' \ tasks_'
               /\ \A u \in refs'[s] : u # Owner[s] => Needs(u) = 0
               /\ Owner[s] \in AtWork' => Owner[s] \in refs'[s]
        BY DEF SegmentRefs
    <2>1. refs'[s] = IF Owner[s] = t THEN refs[s] \cup {t} ELSE refs[s]
        BY DEF Take
    <2>2. t \in submitted BY <1>1 DEF Places
    <2>3. QED BY <1>1, <1>4, <2>1, <2>2 DEF Take, SegmentRefs
<1>9. Wakeups'
    <2>1. ~(\E v \in Worker : pc[v] = "exited")
        BY <1>1 DEF Wakeups, Drained
    <2>2. \A v \in Worker : pc'[v] # "exited" BY <2>1 DEF Take, TypeOK
    <2>3. num_working_' # 0 BY <1>5, <1>2, CountsOnStart, WorkingFinite DEF CountersExact, Take
    <2>4. NoStall' BY <1>2, <2>2, ActorAwake DEF Take
    <2>5. \A v \in waiting' : pc'[v] = "claim"
        BY <1>2 DEF Take, TypeOK, Wakeups
    <2>6. QED BY <2>2, <2>3, <2>4, <2>5 DEF Wakeups, Drained
<1>10. QED BY <1>5, <1>6, <1>7, <1>8, <1>9

\* Blocking: had everybody else been asleep, nothing would run, so either no
\* segment would be held or a carrier that needs none would be queued, and in
\* both cases there would have been a task to claim.
LEMMA WaitKeeps ==
    ASSUME IInv, TypeOK', NEW w \in Worker, Wait(w)
    PROVE  IInv'
<1> USE DEF IInv
<1>1. pc[w] = "claim" /\ w \notin waiting /\ ~Drained /\ NothingToClaim
    BY DEF Wait
<1>2. \A v \in Worker : pc[v] # "exited" BY <1>1 DEF Wakeups
<1>3. ASSUME \A v \in Worker \ waiting' : FALSE PROVE FALSE
    <2>1. \A v \in Worker : pc[v] = "claim" BY <1>1, <1>3 DEF Wait, Wakeups
    <2>2. Working = {} /\ Holders = {} BY <2>1 DEF Working, Holders
    <2>3. num_working_ = 0 /\ \A c \in TaskType : classes_[c] = 0
        BY <2>2, FS_EmptySet DEF CountersExact, WorkingOn
    <2>4. tasks_ # {} BY <1>1, <2>3 DEF Drained
    <2>5. PICK l \in tasks_ : \A u \in tasks_ : Needs(u) <= Needs(l)
        BY <2>4, LargestExists DEF TypeOK
    <2>6. Bucket # {}
        <3>1. CASE \A u \in tasks_ : Needs(u) <= Avail
            BY <2>5, <3>1 DEF Bucket, Largest
        <3>2. CASE Live = {}
            <4>1. Avail = MaxInFlight
                BY <3>2, FS_EmptySet, SegmentAssumption DEF Avail, CountersExact
            <4>2. QED BY <3>1, <4>1, SegmentAssumption DEF TypeOK
        <3>3. CASE Live # {} /\ ~(\A u \in tasks_ : Needs(u) <= Avail)
            <4>1. PICK s \in Segment : refs[s] # {} BY <3>3 DEF Live
            <4>2. PICK u \in refs[s] : u \in tasks_
                BY <4>1, <2>2 DEF SegmentRefs
            <4>3. Needs(u) = 0 BY <4>1, <4>2 DEF SegmentRefs
            <4>4. \A x \in tasks_ : Needs(x) \in Nat BY NeedsType DEF TypeOK
            <4>5. u \in Smallest BY <4>2, <4>3, <4>4 DEF Smallest
            <4>6. 0 <= Avail BY SegmentAssumption DEF Avail, Limits, TypeOK
            <4>7. QED BY <3>3, <4>3, <4>5, <4>6 DEF Bucket
        <3>4. QED BY <3>1, <3>2, <3>3
    <2>7. PICK t \in Bucket : t \in tasks_
        BY <2>6 DEF Bucket, Largest, Smallest
    <2>8. TypeOf[t] \in TaskType BY <2>7, TaskAssumption DEF TypeOK
    <2>9. classes_[TypeOf[t]] < Limit[TypeOf[t]]
        BY <2>3, <2>8, PoolAssumption
    <2>10. t \in Eligible(TypeOf[t]) BY <2>7, <2>9 DEF Eligible
    <2>11. QED BY <1>1, <2>8, <2>10 DEF NothingToClaim
<1>4. NoStall' BY <1>2, <1>3 DEF NoStall, Wait
<1>5. /\ Working' = Working /\ AtWork' = AtWork
      /\ \A c : WorkingOn(c)' = WorkingOn(c)
    BY CountsKept DEF Wait
<1>6. Holders' = Holders /\ Live' = Live BY DEF Wait, Holders, Live
<1>7. CountersExact' /\ Limits'
    BY <1>5, <1>6 DEF Wait, CountersExact, Limits
<1>8. Places' /\ SegmentRefs'
    BY <1>5, <1>6 DEF Wait, Places, SegmentRefs
<1>9. Wakeups' BY <1>1, <1>2, <1>4 DEF Wait, Wakeups, Drained
<1>10. QED BY <1>7, <1>8, <1>9

\* Ending a thread: only in a drained pool, where nobody waits.
LEMMA ExitKeeps ==
    ASSUME IInv, TypeOK', NEW w \in Worker, Exit(w)
    PROVE  IInv'
<1> USE DEF IInv
<1>1. pc[w] = "claim" /\ Drained /\ waiting = {} BY DEF Exit, Wakeups
<1>2. \A v \in Worker : pc'[v] = IF v = w THEN "exited" ELSE pc[v]
    BY DEF Exit, TypeOK
<1>3. /\ Working' = Working /\ AtWork' = AtWork
      /\ \A c : WorkingOn(c)' = WorkingOn(c)
    BY <1>1, <1>2, CountsKept DEF Exit
<1>4. Holders' = Holders /\ Live' = Live
    BY <1>1, <1>2 DEF Exit, Holders, Live
<1>5. CountersExact' /\ Limits'
    BY <1>3, <1>4 DEF Exit, CountersExact, Limits
<1>6. Places'
    <2>1. \A v \in Worker : pc'[v] = "release" => cur'[v] \in done'
        BY <1>2 DEF Exit, Places
    <2>2. QED BY <1>3, <2>1 DEF Exit, Places
<1>7. SegmentRefs' BY <1>3, <1>4 DEF Exit, SegmentRefs
<1>8. Wakeups' BY <1>1 DEF Exit, Wakeups, Drained, NoStall
<1>9. QED BY <1>5, <1>6, <1>7, <1>8

\* Scheduling a child: it may get a segment that its running parent still holds.
LEMMA SubmitKeeps ==
    ASSUME IInv, TypeOK', NEW w \in Worker, NEW t \in Task, Submit(w, t)
    PROVE  IInv'
<1> USE DEF IInv
<1>1. pc[w] = "run" /\ cur[w] \in Task /\ w \in Working /\ t \notin submitted
    BY TaskAssumption DEF Submit, TypeOK, Working
<1>2. waiting' \subseteq waiting /\ w \notin waiting'
    BY <1>1 DEF Submit, NotifyOne, Wakeups
<1>3. /\ Working' = Working /\ AtWork' = AtWork
      /\ \A c : WorkingOn(c)' = WorkingOn(c)
    BY CountsKept DEF Submit
<1>4. Holders' = Holders BY DEF Submit, Holders
<1>5. cur[w] \in AtWork /\ t \notin AtWork /\ t \notin done /\ cur[w] \notin tasks_
    BY <1>1 DEF Places, AtWork
<1>6. \A s \in Segment :
        refs'[s] = IF Carrier[s] = t /\ Owner[s] = cur[w]
                   THEN refs[s] \cup {t} ELSE refs[s]
    BY DEF Submit
<1>7. Live' = Live
    BY <1>5, <1>6 DEF Live, SegmentRefs
<1>8. CountersExact' /\ Limits'
    BY <1>3, <1>7 DEF Submit, CountersExact, Limits
<1>9. Places'
    BY <1>3, <1>5 DEF Submit, Places
<1>10. SegmentRefs'
    <2> SUFFICES ASSUME NEW s \in Segment
        PROVE  /\ refs'[s] \subseteq tasks_' \cup Holders'
               /\ refs'[s] # {} => Owner[s] \in submitted' \ tasks_'
               /\ \A u \in refs'[s] : u # Owner[s] => Needs(u) = 0
               /\ Owner[s] \in AtWork' => Owner[s] \in refs'[s]
        BY DEF SegmentRefs
    <2>1. CASE Carrier[s] = t /\ Owner[s] = cur[w]
        <3>1. Needs(t) = 0 BY <2>1, SegmentAssumption, TaskAssumption
        <3>2. cur[w] \in submitted' /\ cur[w] \notin tasks_'
            BY <1>1, <1>5 DEF Submit, Places
        <3>3. QED BY <1>3, <1>4, <1>6, <2>1, <3>1, <3>2 DEF Submit, SegmentRefs
    <2>2. CASE ~(Carrier[s] = t /\ Owner[s] = cur[w])
        BY <1>1, <1>3, <1>4, <1>6, <2>2 DEF Submit, SegmentRefs
    <2>3. QED BY <2>1, <2>2
<1>11. Wakeups'
    <2>1. num_working_ # 0
        BY <1>1, WorkingFinite, FS_EmptySet DEF CountersExact
    <2>2. \A v \in Worker : pc'[v] # "exited"
        BY <2>1 DEF Submit, Wakeups, Drained
    <2>3. NoStall' BY <1>2, <2>2, ActorAwake
    <2>4. QED BY <1>2, <2>1, <2>2, <2>3 DEF Submit, Wakeups, Drained
<1>12. QED BY <1>8, <1>9, <1>10, <1>11

\* Running a task again changes nothing that the counters, the limits, the segments
\* or the wakeups depend on.
LEMMA RetryKeeps ==
    ASSUME IInv, TypeOK', NEW w \in Worker, Retry(w)
    PROVE  IInv'
<1> USE DEF IInv
<1>1. /\ Working' = Working /\ AtWork' = AtWork
      /\ \A c : WorkingOn(c)' = WorkingOn(c)
    BY CountsKept DEF Retry
<1>2. Holders' = Holders /\ Live' = Live BY DEF Retry, Holders, Live
<1>3. CountersExact' /\ Limits' /\ Places' /\ SegmentRefs'
    BY <1>1, <1>2 DEF Retry, CountersExact, Limits, Places, SegmentRefs
<1>4. Wakeups' BY DEF Retry, Wakeups, Drained, NoStall
<1>5. QED BY <1>3, <1>4

\* A thread that wakes up for no reason is one more that is awake.
LEMMA SpuriousWakeKeeps ==
    ASSUME IInv, TypeOK', NEW w \in Worker, SpuriousWake(w)
    PROVE  IInv'
<1> USE DEF IInv
<1>1. /\ Working' = Working /\ AtWork' = AtWork
      /\ \A c : WorkingOn(c)' = WorkingOn(c)
    BY CountsKept DEF SpuriousWake
<1>2. Holders' = Holders /\ Live' = Live BY DEF SpuriousWake, Holders, Live
<1>3. CountersExact' /\ Limits' /\ Places' /\ SegmentRefs'
    BY <1>1, <1>2 DEF SpuriousWake, CountersExact, Limits, Places, SegmentRefs
<1>4. pc'[w] # "exited" BY DEF SpuriousWake, Wakeups
<1>5. Wakeups' BY <1>4, ActorAwake DEF SpuriousWake, Wakeups, Drained
<1>6. QED BY <1>3, <1>5

\* The end of the progress thread is of no concern to the others.
LEMMA ProgressExitKeeps ==
    ASSUME IInv, TypeOK', ProgressExit
    PROVE  IInv'
<1> USE DEF IInv
<1>1. /\ Working' = Working /\ AtWork' = AtWork
      /\ \A c : WorkingOn(c)' = WorkingOn(c)
    BY CountsKept DEF ProgressExit
<1>2. Holders' = Holders /\ Live' = Live BY DEF ProgressExit, Holders, Live
<1>3. CountersExact' /\ Limits' /\ Places' /\ SegmentRefs'
    BY <1>1, <1>2 DEF ProgressExit, CountersExact, Limits, Places, SegmentRefs
<1>4. Wakeups' BY DEF ProgressExit, Wakeups, Drained, NoStall
<1>5. QED BY <1>3, <1>4

\* Ending a task: the thread still has its segments, and wakes everybody when it
\* has drained the pool.
LEMMA CleanupKeeps ==
    ASSUME IInv, TypeOK', NEW w \in Worker, Cleanup(w)
    PROVE  IInv'
<1> USE DEF IInv
<1> DEFINE t == cur[w]
<1>1. /\ pc[w] = "run" /\ t \in Task /\ w \in Working /\ TypeOf[t] \in TaskType
    BY TaskAssumption DEF Cleanup, TypeOK, Working
<1>2. waiting' \subseteq waiting /\ w \notin waiting' /\ cur' = cur
    BY <1>1 DEF Cleanup, NotifyOne, NotifyAll, Wakeups
<1>3. pc' = [pc EXCEPT ![w] = "release"] BY DEF Cleanup
<1>4. \A v \in Worker : pc'[v] = IF v = w THEN "release" ELSE pc[v]
    BY <1>3 DEF TypeOK
<1>5. /\ Working' = Working \ {w}
      /\ num_working_' = Cardinality(Working')
      /\ \A c : Cardinality(WorkingOn(c)') =
                  IF TypeOf[t] = c THEN Cardinality(WorkingOn(c)) - 1
                                   ELSE Cardinality(WorkingOn(c))
    BY <1>1, <1>2, <1>3, CountsOnEnd DEF Cleanup, CountersExact
<1>6. AtWork' = AtWork \ {t} /\ t \in AtWork
    BY <1>1, <1>2, <1>5 DEF AtWork, Places
<1>7. Holders' = Holders /\ Live' = Live
    BY <1>1, <1>2, <1>4 DEF Cleanup, Holders, Live
<1>8. \A c \in TaskType :
        /\ classes_'[c] = IF c = TypeOf[t] THEN classes_[c] - 1 ELSE classes_[c]
        /\ classes_[c] \in Int /\ Limit[c] \in Nat
    BY PoolAssumption DEF Cleanup, TypeOK
<1>9. CountersExact'
    <2>1. \A c \in TaskType : classes_'[c] = Cardinality(WorkingOn(c)')
        BY <1>5, <1>8 DEF CountersExact
    <2>2. QED BY <1>5, <1>7, <2>1 DEF Cleanup, CountersExact
<1>10. Limits' BY <1>8 DEF Cleanup, Limits
<1>11. Places'
    <2>1. done' = done \cup {t} BY DEF Cleanup
    <2>2. \A v \in Worker : pc'[v] = "release" => cur'[v] \in done'
        BY <1>2, <1>4, <2>1 DEF Places
    <2>3. \A u, v \in Working' : cur'[u] = cur'[v] => u = v
        BY <1>2, <1>5 DEF Places
    <2>4. QED BY <1>6, <2>1, <2>2, <2>3 DEF Cleanup, Places
<1>12. SegmentRefs' BY <1>6, <1>7 DEF Cleanup, SegmentRefs
<1>13. Wakeups'
    <2>1. \A v \in Worker : pc[v] # "exited"
        BY <1>1, WorkingFinite, FS_EmptySet DEF CountersExact, Wakeups, Drained
    <2>2. \A v \in Worker : pc'[v] # "exited" BY <1>4, <2>1
    <2>3. NoStall' BY <1>2, <2>2, ActorAwake
    <2>4. Drained' => waiting' = {} BY DEF Cleanup, Drained, NotifyAll
    <2>5. \A v \in waiting' : pc'[v] = "claim" BY <1>2, <1>4 DEF Wakeups, TypeOK
    <2>6. QED BY <2>2, <2>3, <2>4, <2>5 DEF Wakeups
<1>14. QED BY <1>9, <1>10, <1>11, <1>12, <1>13

\* Dropping a pointer: the segment goes when it was the last one.
LEMMA DropKeeps ==
    ASSUME IInv, TypeOK', NEW w \in Worker, NEW s \in Segment, Drop(w, s)
    PROVE  IInv'
<1> USE DEF IInv
<1>1. pc[w] = "release" /\ cur[w] \in done BY DEF Drop, Places
<1>2. waiting' \subseteq waiting /\ w \notin waiting'
    BY <1>1 DEF Drop, NotifyOne, Wakeups
<1>3. /\ Working' = Working /\ AtWork' = AtWork
      /\ \A c : WorkingOn(c)' = WorkingOn(c)
    BY CountsKept DEF Drop
<1>4. Holders' = Holders BY DEF Drop, Holders
<1>5. \A r \in Segment : refs'[r] = IF r = s THEN refs[s] \ {cur[w]} ELSE refs[r]
    BY DEF Drop, TypeOK
<1>6. ASSUME refs[s] = {cur[w]}
      PROVE  /\ segments_in_flight_' = Cardinality(Live')
             /\ segments_in_flight_' <= MaxInFlight
    <2>1. segments_in_flight_' = segments_in_flight_ - 1
        BY <1>6 DEF Drop, LastRef
    <2>2. Live' = Live \ {s} /\ s \in Live BY <1>5, <1>6 DEF Live
    <2>3. Cardinality(Live') = Cardinality(Live) - 1
        BY <2>2, LiveFinite, FS_RemoveElement
    <2>4. QED
        BY <2>1, <2>3, SegmentAssumption DEF CountersExact, Limits, TypeOK
<1>7. ASSUME refs[s] # {cur[w]}
      PROVE  /\ segments_in_flight_' = Cardinality(Live')
             /\ segments_in_flight_' <= MaxInFlight
    <2>1. segments_in_flight_' = segments_in_flight_
        BY <1>7 DEF Drop, LastRef
    <2>2. cur[w] \in refs[s] BY DEF Drop
    <2>3. Live' = Live BY <1>5, <1>7, <2>2 DEF Live
    <2>4. QED BY <2>1, <2>3 DEF CountersExact, Limits
<1>8. CountersExact' /\ Limits'
    BY <1>3, <1>6, <1>7 DEF Drop, CountersExact, Limits
<1>9. Places' BY <1>3 DEF Drop, Places
<1>10. SegmentRefs'
    <2>1. cur[w] \notin AtWork BY <1>1 DEF Places
    <2>2. QED BY <1>3, <1>4, <1>5, <2>1 DEF Drop, SegmentRefs
<1>11. Wakeups'
    <2>1. pc'[w] # "exited" BY <1>1 DEF Drop
    <2>2. NoStall' BY <1>2, <2>1, ActorAwake
    <2>3. QED BY <1>2, <2>2 DEF Drop, Wakeups, Drained
<1>12. QED BY <1>8, <1>9, <1>10, <1>11

\* Going back to claim_task with nothing held.
LEMMA ReleasedKeeps ==
    ASSUME IInv, TypeOK', NEW w \in Worker, Released(w)
    PROVE  IInv'
<1> USE DEF IInv
<1>1. pc[w] = "release" /\ w \notin waiting BY DEF Released, Wakeups
<1>2. \A v \in Worker : /\ pc'[v] = IF v = w THEN "claim" ELSE pc[v]
                        /\ v # w => cur'[v] = cur[v]
    BY DEF Released, TypeOK
<1>3. /\ Working' = Working /\ AtWork' = AtWork
      /\ \A c : WorkingOn(c)' = WorkingOn(c)
    BY <1>1, <1>2, CountsKept
<1>4. Holders \subseteq Holders' \cup {cur[w]} BY <1>2 DEF Holders
<1>5. Live' = Live BY DEF Released, Live
<1>6. CountersExact' /\ Limits'
    BY <1>3, <1>5 DEF Released, CountersExact, Limits
<1>7. Places'
    <2>1. \A v \in Worker : pc'[v] = "release" => cur'[v] \in done'
        BY <1>2 DEF Released, Places
    <2>2. \A u, v \in Working' : cur'[u] = cur'[v] => u = v
        BY <1>1, <1>2, <1>3 DEF Places, Working
    <2>3. QED BY <1>3, <2>1, <2>2 DEF Released, Places
<1>8. SegmentRefs'
    <2>1. \A s \in Segment : cur[w] \notin refs[s] BY DEF Released
    <2>2. QED BY <1>3, <1>4, <2>1 DEF Released, SegmentRefs
<1>9. Wakeups'
    <2>1. NoStall' BY <1>1, <1>2, ActorAwake DEF Released
    <2>2. QED BY <1>1, <1>2, <2>1 DEF Released, Wakeups, Drained
<1>10. QED BY <1>6, <1>7, <1>8, <1>9

\* There is a thread: run() starts at least one per class.
LEMMA SomeWorker == Worker # {}
<1>1. Cardinality(Worker) # 0
    BY PoolAssumption, ThreadAssumption DEF TaskType
<1>2. QED BY <1>1, FS_EmptySet

\* Calling run() again: everything of the previous call is over.
LEMMA RunAgainKeeps ==
    ASSUME IInv, TypeOK', RunAgain
    PROVE  IInv'
<1> USE DEF IInv
<1>1. \A w \in Worker : pc[w] = "exited" /\ pc'[w] = "claim"
    BY DEF RunAgain, Returned
<1>2. Drained /\ waiting = {} BY <1>1, SomeWorker DEF Wakeups
<1>3. /\ Working' = Working /\ AtWork' = AtWork
      /\ \A c : WorkingOn(c)' = WorkingOn(c)
    BY <1>1, CountsKept DEF RunAgain
<1>4. Working = {} /\ AtWork = {} /\ Holders = {} /\ Holders' = {}
    BY <1>1 DEF Working, AtWork, Holders
<1>5. Live' = Live BY DEF RunAgain, Live
<1>6. CountersExact' /\ Limits'
    BY <1>3, <1>5 DEF RunAgain, CountersExact, Limits
<1>7. submitted = done /\ tasks_ = {} BY <1>2, <1>4 DEF Places, Drained
<1>8. Places' BY <1>1, <1>3, <1>4, <1>7 DEF RunAgain, Places
<1>9. \A s \in Segment : refs'[s] = {} BY <1>4, <1>7 DEF RunAgain, SegmentRefs
<1>10. SegmentRefs' BY <1>3, <1>4, <1>9 DEF SegmentRefs
<1>11. Wakeups' BY <1>1, <1>2 DEF RunAgain, Wakeups, NoStall
<1>12. QED BY <1>6, <1>8, <1>10, <1>11

\* The state in which the threads are started.
LEMMA InitInv == Init => IInv
<1> SUFFICES ASSUME Init PROVE IInv OBVIOUS
<1>1. TypeOK BY TypeInit
<1>2. Working = {} /\ AtWork = {} /\ Live = {} /\ \A c : WorkingOn(c) = {}
    BY DEF Init, Working, AtWork, Live, WorkingOn
<1>3. CountersExact BY <1>2, FS_EmptySet DEF Init, CountersExact
<1>4. Limits BY PoolAssumption, SegmentAssumption DEF Init, Limits
<1>5. Places BY <1>2 DEF Init, Places
<1>6. SegmentRefs BY <1>2 DEF Init, SegmentRefs
<1>7. Wakeups BY DEF Init, Wakeups, NoStall
<1>8. QED BY <1>1, <1>3, <1>4, <1>5, <1>6, <1>7 DEF IInv

-----------------------------------------------------------------------------
\* Every step keeps the invariant.
LEMMA NextKeeps == IInv /\ [Next]_vars => IInv'
<1> SUFFICES ASSUME IInv, [Next]_vars PROVE IInv' OBVIOUS
<1>1. TypeOK' BY TypeNext DEF IInv
<1>2. ASSUME NEW w \in Worker, Claim(w) PROVE IInv'
    <2>1. PICK c \in TaskType : \E t \in Eligible(c) : Take(w, c, t)
        BY <1>2 DEF Claim
    <2>2. PICK t \in Eligible(c) : Take(w, c, t) BY <2>1
    <2>3. QED BY <1>1, <2>2, TakeKeeps
<1>3. ASSUME NEW w \in Worker, Schedule(w) PROVE IInv'
    <2>1. PICK t \in Task : Submit(w, t) BY <1>3 DEF Schedule
    <2>2. QED BY <1>1, <2>1, SubmitKeeps
<1>4. ASSUME NEW w \in Worker, ReleaseSegment(w) PROVE IInv'
    <2>1. PICK s \in Segment : Drop(w, s) BY <1>4 DEF ReleaseSegment
    <2>2. QED BY <1>1, <2>1, DropKeeps
<1>5. ASSUME NEW w \in Worker, WorkerStep(w) \/ SpuriousWake(w) PROVE IInv'
    BY <1>1, <1>2, <1>3, <1>4, <1>5, WaitKeeps, ExitKeeps, RetryKeeps, CleanupKeeps,
       ReleasedKeeps, SpuriousWakeKeeps DEF WorkerStep
<1>6. CASE UNCHANGED vars
    <2>1. IInv' = IInv
        BY <1>6 DEF vars, IInv, TypeOK, CountersExact, Limits, Places, SegmentRefs,
            Wakeups, NoStall, Drained, Working, WorkingOn, Live, AtWork, Holders
    <2>2. QED BY <2>1
<1>7. QED
    BY <1>1, <1>5, <1>6, ProgressExitKeeps, RunAgainKeeps DEF Next, Finished

\* The inductive invariant holds in every reachable state.
THEOREM Invariance == Spec => []IInv
BY InitInv, NextKeeps, PTL DEF Spec

\* The counters of claim_task are always exact.
THEOREM CountersAreExact == Spec => []CountersExact
<1>1. IInv => CountersExact BY DEF IInv
<1>2. QED BY <1>1, Invariance, PTL

\* The budget of segments holds: the asserts of agenda.cpp:63 and :224.
THEOREM SegmentBudgetHolds == Spec => []SegmentBudget
<1>1. IInv => SegmentBudget BY DEF IInv, CountersExact, Limits, SegmentBudget
<1>2. QED BY <1>1, Invariance, PTL

\* A thread ends, and run() returns, only when all that was scheduled is done.
THEOREM ReturnsWhenDone == Spec => []DoneAtReturn
<1>1. IInv => DoneAtReturn
    <2> SUFFICES ASSUME IInv PROVE DoneAtReturn OBVIOUS
    <2>1. ASSUME \E w \in Worker : pc[w] = "exited" PROVE submitted = done
        <3>1. Drained BY <2>1 DEF IInv, Wakeups
        <3>2. Working = {}
            BY <3>1, WorkingFinite, FS_EmptySet DEF IInv, CountersExact, Drained
        <3>3. QED BY <3>1, <3>2 DEF IInv, Places, AtWork, Drained
    <2>2. ASSUME Returned
          PROVE  submitted = done /\ segments_in_flight_ = 0 /\ Live = {}
        <3>1. submitted = done BY <2>1, <2>2, SomeWorker DEF Returned
        <3>2. Holders = {} BY <2>2 DEF Returned, Holders
        <3>3. tasks_ = {} BY <2>2, SomeWorker DEF Returned, IInv, Wakeups, Drained
        <3>4. Live = {} BY <3>2, <3>3 DEF IInv, SegmentRefs, Live
        <3>5. QED BY <3>1, <3>4, FS_EmptySet DEF IInv, CountersExact
    <2>3. QED BY <2>1, <2>2 DEF DoneAtReturn
<1>2. QED BY <1>1, Invariance, PTL

\* Whatever tasks there are, the pool never ends up with every thread asleep.
THEOREM NeverStalls == Spec => []NoStall
<1>1. IInv => NoStall BY DEF IInv, Wakeups
<1>2. QED BY <1>1, Invariance, PTL
=============================================================================
