------------------------------- MODULE Listing -------------------------------
(***************************************************************************)
(* What es3 reads out of a bucket, and the commands that are little more   *)
(* than that (connection.cpp, sync.cpp, commands.cpp): the main thread     *)
(* asks for the region and lists the root, tasks list one directory each,  *)
(* page by page, and schedule others for what they find; publish then sets *)
(* the ACL of every file, ls asks for the details of the root's files, du  *)
(* counts them, and a synchronizer resets the pool of CURL handles.        *)
(*                                                                         *)
(* A request is sent and answered in two steps, between which other tasks  *)
(* run and the bucket may change; it borrows a handle of CurlPool for as   *)
(* long.  A page has PageSize entries, the least ones beyond the marker.   *)
(***************************************************************************)
EXTENDS CurlPool, SequencesExt

CONSTANTS Key,         \* keys that the bucket may have: paths, see File
          Excluded,    \* files that check_included refuses
          Command,     \* the commands under consideration
          PageSize,    \* entries of one answer
          LsLimit,     \* 10 in do_ls
          Threads,     \* class_limits_ of unbound tasks
          MaxAttempts, \* attempts of the agenda, 10 in the code
          MaxChanges,  \* bound on the changes of the bucket
          Regions,     \* the zones that the bucket may turn out to be in
          Faults       \* requests that may fail

\* du and the synchronizer do nothing but walk the tree.
CommandKind == {"walk", "publish", "ls"}
FaultKind == {"main", "list", "file"}

\* A path is a sequence of names, which are numbers; the name 0 is that of the
\* directory-like key of a directory, which ends in a slash.
Dir == UNION {{SubSeq(k, 1, n) : n \in 0..(Len(k) - 1)} : k \in Key}
File == {k \in Key : k[Len(k)] # 0}
Root == <<>>

Main == <<"main">>
Lister(d) == IF d = Root THEN Main ELSE <<"list", d>>
Worker(k) == <<"file", k>>
AllClients == {Lister(d) : d \in Dir} \cup {Worker(k) : k \in File}

ASSUME ListingAssumption ==
    /\ Key \subseteq Seq(Nat) /\ Root \notin Key /\ Key # {}
    /\ Zone = {"s3", "other"} /\ Client = AllClients
    /\ Command \subseteq CommandKind
    /\ {PageSize, Threads, MaxAttempts} \subseteq Nat \ {0}
    /\ {LsLimit, MaxChanges} \subseteq Nat
    /\ Faults \subseteq FaultKind
    /\ Regions \subseteq Zone

VARIABLES command, \* the command that runs
          stage,   \* where its main thread is
          zone,    \* the zone of the bucket
          bucket,  \* the keys in the bucket
          kept,    \* those that nobody has added or removed
          ever,    \* those that were there at some time
          changes,
          lister,  \* the listing of each directory: pc, marker, attempt
          entries, \* files_ and subdirs_ of each s3_directory
          worker,  \* publish_file_task or get_file_info of each file
          public,  \* files whose ACL is public
          num,     \* do_publish's count
          desc_map, \* files that get_file_info has described
          failed   \* num_failed_ # 0, or an exception in the main thread

s3 == <<bucket, kept, ever, changes>>
work == <<worker, public, num, desc_map>>
vars == <<pool, command, stage, zone, s3, lister, entries, work, failed>>

-----------------------------------------------------------------------------
\* Entries of a listing in the order of their names: 2n is the file n, and 2n + 1 the
\* common prefix n/.
FileEntry(n) == 2 * n
PrefixEntry(n) == 2 * n + 1
IsDirEntry(e) == e % 2 = 1
Path(d, e) == Append(d, e \div 2)

Contents(d) == {FileEntry(k[Len(k)]) : k \in {k \in bucket : Front(k) = d}}
RolledUp(d) ==
    {PrefixEntry(k[Len(d) + 1]) :
       k \in {k \in bucket : Len(k) > Len(d) + 1 /\ SubSeq(k, 1, Len(d)) = d}}

NoMarker == -1
Beyond(d, marker) == {e \in Contents(d) \cup RolledUp(d) : e > marker}
Page(d, marker) ==
    {e \in Beyond(d, marker) :
       Cardinality({f \in Beyond(d, marker) : f < e}) < PageSize}
IsTruncated(d, marker) == Beyond(d, marker) # Page(d, marker)

\* Mutant of LastNode: the name of a prefix without its slash.
LastNodeNoSlash(page) ==
    IF \E e \in page : IsDirEntry(e)
    THEN Max({e \in page : IsDirEntry(e)}) - 1 ELSE Max(page)

\* The last node of an answer: prefixes follow the files.
LastNode(page) ==
    IF \E e \in page : IsDirEntry(e) THEN Max({e \in page : IsDirEntry(e)}) ELSE Max(page)

\* What a directory has been found to hold: keys with a trailing slash are skipped.
FilesOf(d) == {Path(d, e) : e \in {e \in entries[d] : ~IsDirEntry(e)}} \ {Append(d, 0)}
SubdirsOf(d) == {Path(d, e) : e \in {e \in entries[d] : IsDirEntry(e)}}
Listed == UNION {FilesOf(d) : d \in Dir}

-----------------------------------------------------------------------------
NoTask == [pc |-> "idle", attempt |-> 0]

Init ==
    /\ PoolInit
    /\ command \in Command
    /\ stage = "region"
    /\ zone = "s3"
    /\ bucket \in SUBSET Key
    /\ kept = bucket
    /\ ever = bucket
    /\ changes = 0
    /\ lister = [d \in Dir |-> [pc |-> "idle", attempt |-> 0, marker |-> NoMarker]]
    /\ entries = [d \in Dir |-> {}]
    /\ worker = [k \in File |-> NoTask]
    /\ public = {}
    /\ num = 0
    /\ desc_map = {}
    /\ failed = FALSE

\* Somebody adds or removes a key while the command runs.
Change ==
    /\ changes < MaxChanges /\ stage \notin {"reset", "ended"}
    /\ changes' = changes + 1
    /\ \E k \in Key :
         \/ /\ k \in bucket
            /\ bucket' = bucket \ {k}
            /\ UNCHANGED ever
         \/ /\ k \notin bucket
            /\ bucket' = bucket \cup {k}
            /\ ever' = ever \cup {k}
    /\ kept' = kept \cap bucket'
    /\ public' = public \cap bucket'
    /\ UNCHANGED <<pool, command, stage, zone, lister, entries, worker, num, desc_map, failed>>

-----------------------------------------------------------------------------
\* The main thread before and after run()

AskRegion ==
    /\ stage = "region" /\ Main \notin Borrowers
    /\ GetCurl(Main, "s3")
    /\ UNCHANGED <<command, stage, zone, s3, lister, entries, work, failed>>

\* find_region; then the root is listed.
AnswerRegion ==
    /\ stage = "region" /\ Main \in Borrowers
    /\ ReleaseCurl(Main)
    /\ zone' \in Regions
    /\ stage' = "root"
    /\ lister' = [lister EXCEPT ![Root].pc = "running"]
    /\ UNCHANGED <<command, s3, entries, work, failed>>

\* An exception of a request in the main thread, for whatever reason, is the end.
MainThrows ==
    /\ stage \in {"region", "root"} /\ Main \in Borrowers /\ "main" \in Faults
    /\ ReleaseCurl(Main)
    /\ stage' = "reset"
    /\ failed' = TRUE
    /\ lister' = [lister EXCEPT ![Root].pc = "failed"]
    /\ UNCHANGED <<command, zone, s3, entries, work>>

Pending(S) == \/ \E d \in Dir : lister[d].pc \in S
              \/ \E k \in File : worker[k].pc \in S

\* Mutant of Drained: run() returns when the queue is empty.
DrainedQueueOnly == stage = "run" /\ ~Pending({"queued"})

\* run() returns: nothing is queued and nothing runs.
Drained == stage = "run" /\ ~Pending({"queued", "running", "asked"})

Return ==
    /\ Drained
    /\ stage' = "reset"
    /\ UNCHANGED <<pool, command, zone, s3, lister, entries, work, failed>>

\* The synchronizer's call of reset(), or the end of the context.
Reset ==
    /\ stage = "reset"
    /\ ResetPool
    /\ stage' = "ended"
    /\ UNCHANGED <<command, zone, s3, lister, entries, work, failed>>

-----------------------------------------------------------------------------
\* list_files_shallow, by the main thread for the root, by a task for a subdirectory

\* do_ls uses the agenda only if there are many files.
Parallel == command = "ls" => Cardinality(FilesOf(Root)) > LsLimit

Running == {Lister(d) : d \in {d \in Dir : lister[d].pc \in {"running", "asked"}}} \cup
           {Worker(k) : k \in {k \in File : worker[k].pc \in {"running", "asked"}}}

\* A thread for another task; a task that has been warned about still has its own.
HasThread(pc) ==
    pc = "queued" => Cardinality(Running) < IF Parallel THEN Threads ELSE 1

AskPage(d) ==
    /\ lister[d].pc \in {"queued", "running"} /\ HasThread(lister[d].pc)
    /\ GetCurl(Lister(d), zone)
    /\ lister' = [lister EXCEPT ![d].pc = "asked"]
    /\ UNCHANGED <<command, stage, zone, s3, entries, work, failed>>

\* Mutant of Merged: what the pages before have shown is forgotten.
MergedNot(d, page) == page

\* What is found is added to what the pages before, or an attempt before, have shown.
Merged(d, page) == entries[d] \cup page

\* The tasks that are scheduled when d has been listed.
SubdirsToList(d, found) ==
    IF command = "ls" THEN {} ELSE {Path(d, e) : e \in {e \in found : IsDirEntry(e)}}
FilesToVisit(d, found) ==
    IF command \in {"publish", "ls"}
    THEN {Path(d, e) : e \in {e \in found : ~IsDirEntry(e)}} \ {Append(d, 0)}
    ELSE {}

\* A page arrives; the next one is asked for, or the listing is over.
AnswerPage(d) ==
    LET page == Page(d, lister[d].marker)
        found == Merged(d, page)
    IN /\ lister[d].pc = "asked"
       /\ ReleaseCurl(Lister(d))
       /\ entries' = [entries EXCEPT ![d] = found]
       /\ IF IsTruncated(d, lister[d].marker)
          THEN /\ lister' = [lister EXCEPT ![d].pc = "running", ![d].marker = LastNode(page)]
               /\ UNCHANGED <<stage, worker>>
          ELSE /\ lister' = [c \in Dir |->
                               IF c = d THEN [lister[d] EXCEPT !.pc = "done"]
                               ELSE IF c \in SubdirsToList(d, found)
                               THEN [lister[c] EXCEPT !.pc = "queued"] ELSE lister[c]]
               /\ worker' = [k \in File |->
                               IF k \in FilesToVisit(d, found)
                               THEN [worker[k] EXCEPT !.pc = "queued"] ELSE worker[k]]
               /\ stage' = "run"
    /\ UNCHANGED <<command, zone, s3, public, num, desc_map, failed>>

\* Mutant of LastAttempt: off by one.
LastAttemptLate(attempt) == attempt >= MaxAttempts

LastAttempt(attempt) == attempt + 1 >= MaxAttempts

\* The request of a task fails and the agenda runs the task again, which starts with
\* the first page but keeps the directory as it is.
PageWarns(d) ==
    /\ d # Root /\ lister[d].pc = "asked" /\ "list" \in Faults
    /\ ~LastAttempt(lister[d].attempt)
    /\ ReleaseCurl(Lister(d))
    /\ lister' = [lister EXCEPT ![d] =
                    [pc |-> "running", attempt |-> @.attempt + 1, marker |-> NoMarker]]
    /\ UNCHANGED <<command, stage, zone, s3, entries, work, failed>>

\* It fails for the last time, or with an error that no retry mends.
PageDies(d) ==
    /\ d # Root /\ lister[d].pc = "asked" /\ "list" \in Faults
    /\ ReleaseCurl(Lister(d))
    /\ lister' = [lister EXCEPT ![d].pc = "failed"]
    /\ failed' = TRUE
    /\ UNCHANGED <<command, stage, zone, s3, entries, work>>

-----------------------------------------------------------------------------
\* publish_file_task, or the HEAD of a file by do_ls

\* check_included
SkipFile(k) ==
    /\ worker[k].pc = "queued" /\ command = "publish" /\ k \in Excluded
    /\ worker' = [worker EXCEPT ![k].pc = "done"]
    /\ UNCHANGED <<pool, command, stage, zone, s3, lister, entries, public, num, desc_map, failed>>

AskFile(k) ==
    /\ worker[k].pc \in {"queued", "running"} /\ HasThread(worker[k].pc)
    /\ command = "publish" => k \notin Excluded
    /\ GetCurl(Worker(k), zone)
    /\ worker' = [worker EXCEPT ![k].pc = "asked"]
    /\ UNCHANGED <<command, stage, zone, s3, lister, entries, public, num, desc_map, failed>>

\* set_acl succeeds and the file is counted, or HEAD is answered, even by 404.
AnswerFile(k) ==
    /\ worker[k].pc = "asked"
    /\ command = "publish" => k \in bucket
    /\ ReleaseCurl(Worker(k))
    /\ worker' = [worker EXCEPT ![k].pc = "done"]
    /\ IF command = "publish"
       THEN public' = public \cup {k} /\ num' = num + 1 /\ UNCHANGED desc_map
       ELSE desc_map' = desc_map \cup {k} /\ UNCHANGED <<public, num>>
    /\ UNCHANGED <<command, stage, zone, s3, lister, entries, failed>>

\* A request that fails may have set the ACL all the same.
MayPublish(k) ==
    public' \in {public} \cup
      (IF command = "publish" /\ k \in bucket THEN {public \cup {k}} ELSE {})

\* Mutant of Warned: the file is counted before the request.
WarnedCounted == IF command = "publish" THEN num + 1 ELSE num

\* A request that fails is not counted.
Warned == num

\* The request of a task fails and the task is run again.
FileWarns(k) ==
    /\ worker[k].pc = "asked" /\ "file" \in Faults
    /\ Parallel /\ ~LastAttempt(worker[k].attempt)
    /\ ReleaseCurl(Worker(k))
    /\ MayPublish(k)
    /\ num' = Warned
    /\ worker' = [worker EXCEPT ![k] = [pc |-> "running", attempt |-> @.attempt + 1]]
    /\ UNCHANGED <<command, stage, zone, s3, lister, entries, desc_map, failed>>

\* It fails for good, since the file is gone or for another reason.  If do_ls asks
\* from the main thread, the first failure of any kind is the end of the command.
FileDies(k) ==
    /\ worker[k].pc = "asked"
    /\ "file" \in Faults \/ (command = "publish" /\ k \notin bucket)
    /\ ReleaseCurl(Worker(k))
    /\ MayPublish(k)
    /\ num' = Warned
    /\ failed' = TRUE
    /\ IF Parallel
       THEN worker' = [worker EXCEPT ![k].pc = "failed"] /\ UNCHANGED stage
       ELSE worker' = [f \in File |-> NoTask] /\ stage' = "reset"
    /\ UNCHANGED <<command, zone, s3, lister, entries, desc_map>>

-----------------------------------------------------------------------------
Finished == stage = "ended" /\ UNCHANGED vars

Step ==
    \/ AskRegion \/ AnswerRegion \/ MainThrows
    \/ \E d \in Dir : AskPage(d) \/ AnswerPage(d) \/ PageWarns(d) \/ PageDies(d)
    \/ \E k \in File :
         SkipFile(k) \/ AskFile(k) \/ AnswerFile(k) \/ FileWarns(k) \/ FileDies(k)
    \/ Return \/ Reset

Next == Step \/ Change \/ Finished

Spec == Init /\ [][Next]_vars

\* The agenda runs every task, and a request ends in an answer or an error.
FairSpec == Spec /\ WF_vars(Step)

-----------------------------------------------------------------------------
Pc == {"idle", "queued", "running", "asked", "done", "failed"}
Name == UNION {Range(k) : k \in Key}
Entry == {FileEntry(n) : n \in Name} \cup {PrefixEntry(n) : n \in Name}

\* Type invariant.
TypeOK ==
    /\ PoolTypeOK
    /\ command \in Command
    /\ stage \in {"region", "root", "run", "reset", "ended"}
    /\ zone \in Zone
    /\ bucket \subseteq ever /\ kept \subseteq bucket /\ ever \subseteq Key
    /\ changes \in 0..MaxChanges
    /\ lister \in [Dir -> [pc : Pc, attempt : 0..(MaxAttempts - 1), marker : Entry \cup {NoMarker}]]
    /\ entries \in [Dir -> SUBSET Entry]
    /\ worker \in [File -> [pc : Pc, attempt : 0..(MaxAttempts - 1)]]
    /\ public \subseteq File
    /\ num \in Nat
    /\ desc_map \subseteq File
    /\ failed \in BOOLEAN

Success == stage = "ended" /\ ~failed

\* The pool is reset only when no request has a handle (the assert of context.cpp:22),
\* though requests are sent by many tasks and may end by an exception.
ResetWhenIdle == stage = "reset" => DOMAIN borrowed_curls_ = {}

\* There are never more handles than threads, and one for the other zone, however
\* many requests are sent: those that are returned are used again.
HandlesBounded == Cardinality(error_bufs_) <= Threads + 1

\* A command that succeeds has seen every file that was in the bucket all the time,
\* and none that never was, whatever was added or removed between two pages, however
\* prefixes and files alternate at the end of a page, and whichever page failed.
ListingExact ==
    Success =>
      /\ \A k \in kept \cap File : (command = "ls" => Len(k) = 1) => k \in Listed
      /\ Listed \subseteq ever

\* The files published are exactly those listed and included, each counted once
\* although its request may have been sent several times; ls has described all the
\* files it is about to print (desc_map.at in commands.cpp:497 finds them).
AllVisited ==
    /\ Success /\ command = "publish" =>
         /\ num = Cardinality(Listed \ Excluded)
         /\ \A k \in Listed \ Excluded : k \in bucket /\ k \in kept => k \in public
         /\ public \cap Excluded = {}
    /\ Success /\ command = "ls" => FilesOf(Root) = desc_map

\* The command ends: the marker advances until there are no pages left.
CommandEnds == <>(stage = "ended")
=============================================================================
