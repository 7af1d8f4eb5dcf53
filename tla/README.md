# A verification project for es3

es3 is a command line program that synchronizes directory trees with Amazon S3:
`sync` uploads or downloads, with or without `--delete-missing`, and `rm`, `ls`,
`du`, `cat`, `touch`, `test` and `publish` work on the bucket alone.  Everything
it does is cut into tasks that a pool of threads, the *agenda*, runs in any
order, each task up to ten times.  Most of what can go wrong in it is therefore
a question of order, of retries, and of state that several tasks share, and that
is what these TLA+ modules are about.

## 1. Inventory

| Component | State | Operations | Interacts with |
|---|---|---|---|
| agenda (`agenda.h`, `agenda.cpp`) | `tasks_` by size, `classes_`, `class_limits_`, `num_working_`, `segments_in_flight_`, `num_submitted_`, `num_done_`, `num_failed_`, one mutex `m_` and one `condition_` | `schedule`, `run`, `claim_task`, `cleanup`, `get_segments`, `segment_deleter`, `draw_progress` | every task calls `schedule`; segments travel from task to task by `segment_ptr` |
| uploader (`uploader.cpp`) | `upload_content`: `upload_id_`, `num_parts_`, `num_completed_`, `etags_` under `lock_` | `file_uploader`, `start_upload`, `file_pump`, `part_upload_task`, `remote_file_deleter` | compressor, connection, agenda |
| compressor (`compressor.cpp`) | `file_compressor`: `num_pending_`, `result_` (`scattered_files`, that unlinks its scratch files); `file_decompressor`: its input and output files | `compress_task`, `on_complete`, `do_decompress` | calls `start_upload`; is scheduled by the last writer of a download |
| downloader (`downloader.cpp`) | `download_content`: `num_segments_`, `segments_read_`, `local_file_`, `delete_temp_file_` under `m_` | `file_downloader`, `download_segment_task`, `write_segment_task`, `local_file_deleter`, `do_cat` | connection, agenda, file system |
| synchronizer (`sync.cpp`) | the local tree, the remote tree filled by `list_subdir_task`s, `unseen` sets | `create_schedule`, `process_upload`, `process_downloads`, `delete_possibly_recursive`, `check_included` | lists through the agenda, then schedules transfers and deletions |
| connection (`connection.cpp`) | none that outlives a request | HEAD, GET range, PUT part, initiate and complete, DELETE, listing with pages, `check_for_errors` | S3 |
| connection context (`context.h`, `context.cpp`) | `curls_`, `borrowed_curls_`, `error_bufs_` under `m_`: the CURL handles of each zone and bucket | `get_curl`, `release_curl`, `reset`, `err_buf_for` | every request of a connection borrows a handle; the synchronizer resets the pool |
| commands, main | the options, `publish`'s count, `ls`'s `desc_map` | `do_rsync`, `do_rm`, `do_ls`, `do_du`, `do_publish`, ... | create an agenda, call `run()` up to twice, return its count of failures |
| patterns, mimes, base64, logging | none that changes | matching, tables, encoding | |

Hard behaviours, and what makes each component correct:

* **agenda** - several threads decide by counters that are changed in three
  critical sections, sleep on one condition variable and are woken one at a
  time.  Correct means: the counters are exact, limits and budget hold, no
  thread ends early, `run()` returns, and every task is run exactly once.
* **uploader and compressor** - part tasks find out by counting which of them is
  the last one; requests may be applied although their answer is lost; a file
  may change while it is read.  Correct means: the upload is completed once with
  every part, what will be taken for synchronized is equal to the file, success
  means that there is an object, scratch files do not stay.
* **downloader** - writers end in any order, the temporary file changes hands,
  the command may be killed.  Correct means: the target is never replaced by a
  file with holes, equal times mean equal content, nothing is left behind.
* **synchronizer** - the plan is made from a listing that may be incomplete and
  is then carried out in any order.  Correct means: the source ends up mirrored,
  nothing is removed that should stay.
* **bytes** - a file is cut three times, by rules that divide and round: into
  blocks, into parts that pumps read out of scratch files, and into segments of a
  download.  Correct means: each byte goes to one place and comes back.
* **connection and its context, listings** - a directory is listed in pages while
  the bucket changes, by tasks that are retried and share a pool of handles that
  the main thread resets.  Correct means: nothing is missed or made up, every
  file is visited once, handles are neither lost nor used twice, it ends.

The hazards, each at its line and with the properties that cover it, are listed
in `PROJECT.json`; the uncovered ones carry the reason.

## 2. Modules

| Module | Models | Used by |
|---|---|---|
| `Agenda` | the scheduler, thread by thread | `AgendaMC`, `AgendaPool`, `AgendaProofs` |
| `TaskPool` | what the rest of es3 expects of it: each scheduled task is run once, within its limits, and `run()` returns the number of failures when nothing is left | `AgendaPool` |
| `AgendaPool` | the refinement mapping from `Agenda` to `TaskPool` | `AgendaMC` |
| `AgendaProofs` | theorems about `Agenda` | `AgendaPoolProofs` |
| `AgendaPoolProofs` | that `Agenda` implements `TaskPool` | |
| `AgendaMC` | a workload for TLC | |
| `Upload` | one file on its way to S3, with or without compression | `UploadProofs` |
| `Download` | one object on its way to the disk, with or without compression | `DownloadProofs` |
| `Sync`, `SyncMC` | `sync` and `rm` over two trees: listing, plan, execution | `SyncProofs` |
| `UploadProofs`, `DownloadProofs`, `SyncProofs` | theorems about these three | |
| `Segments` | the bytes of one file: blocks, parts, pumps, ranges, offsets | `SegmentsProofs` |
| `SegmentsProofs` | theorems about where the bytes of a file go, for any sizes | |
| `CurlPool` | the handles of `conn_context` | `Listing` |
| `Listing`, `ListingMC` | pages of listings, and `du`, `ls`, `publish` on top of them | `ListingProofs` |
| `ListingProofs` | theorems about the handles of `CurlPool` under `Listing` | `ListedProofs` |
| `ListedProofs` | theorems about what a command lists and visits | |

`Upload`, `Download` and `Sync` use of the agenda only what `TaskPool` promises:
tasks are run in any order and interleave, a task that warns is run again a
bounded number of times, and a command goes on when everything has ended
(`Drained`, `Return`).  That `Agenda` keeps that promise is what
`ImplementsPool` shows.

`Listing` is composed of the commands and of `CurlPool`: every request is a pair
of actions, one that borrows a handle and sends it, one that returns the handle
with the answer or the error.

### Agenda

A task is an identity with a class, a set of segments that it asks for, a set of
tasks that it may schedule, and at most one task per segment to which it hands
the `segment_ptr`.  These are constants, and the proofs hold for all of them.

* `Take` is `claim_task` up to its `return`, with `get_segments`; `Bucket` is its
  choice between the largest and the smallest task, `FirstClass` the loop over
  the classes.  `Wait` and `Exit` are its other two ways out.
* `Submit` is `schedule()`, `Retry` the loop of `task_executor::operator()`,
  `Cleanup` is `cleanup()`.  `Drop` is the end of one `segment_ptr`, with
  `segment_deleter` when it was the last one; it happens after `cleanup()`, one
  pointer at a time, as `cur_task` goes out of scope.
* `SpuriousWake` is what `condition_variable::wait` may do.
* `ProgressExit` is the end of the progress thread, which polls; `RunAgain` is
  the second `run()` of a command on the same agenda.

Every critical section of `m_` is one action.  The code takes that mutex with
`u_guard_t lock(m_); lock.lock();` (`agenda.cpp:61-62`, `80-81`, `152-153`,
`240-241`), where `u_guard_t` is `boost::unique_lock` (`common.h:53`); both lines
together are modelled as one acquisition, whatever the version of boost makes of
the second one.  Assertions are not modelled as steps, since the default build
(RelWithDebInfo) removes them; two of them are the property `SegmentBudget`.

### Upload

One file.  `version` is at once its modification time and its content, so that a
modification is seen by whoever looks at either.  `Stat`, `Compare`, `Initiate`
are `file_uploader` with a step per request.  `Split`, `Compress`, `CountBlock`,
`FinishBlock` are the compressor; the last two are apart because `on_complete`
tests `num_pending_` after its lock is gone.  `ReadSegment` is one turn of
`file_pump`'s loop.  `SendPart`, `CountPart`, `Complete` are `part_upload_task`,
split where it talks to S3.  S3 is the variable `uploads`, with an `open` flag,
and `object`; an upload remembers which run of the command has begun it, so that
those that nobody completes can be told (`Orphans`).  Answers may be lost after the
fact (`...Warns`), or be errors (`...Dies`).  `UnlinkScratch` is `~scattered_files`.

The loop of `start_upload` that schedules the pumps is one action: until it ends,
other tasks can only see fewer queued pumps, which is one of the orders in which
the pumps may run anyway.  Scratch files and `etags_` keep their identity by
run, block and part only.

### Download

One object, whose `version` is again both its time and its content, and which
may be replaced at any time.  `Compare` and `Create` are `file_downloader` up to
and after HEAD; `Fetch`, `Write` and `CountSegment`/`Install`/`StartDecompress`
are the tasks of a segment, split at the request and at `m_`; `DropContent` is
`~download_content`, `Inflate`, `InstallInflated` and `DropDecompressor` the
decompressor and its destructor.  Temporary files are named by the run of the
command that made them.  `Crash` kills the command: what is in memory goes, files
stay.  The rename is atomic, as rename(2) is.

### Sync

Paths are sequences of numbers, the local tree says what each path is (a file, a
directory, an unsyncable link, nothing), the bucket is a set of keys.  The
options are chosen in `Init`.  `ListRoot` and `ListDir` are the listing tasks, one
per directory, `ListDirDies` one that fails after some pages; `PlanUploads`,
`PlanDownloads` and `PlanDeletions` are the recursive walks of `sync.cpp`, given
in closed form: `Uploading(p)` and `Downloading(p)` say that the walk reaches the
directory of `p`, and the sets after them are what it schedules there.  Then the
tasks are carried out in any order.  Which paths a pattern excludes is the
constant `Excluded`, names with spaces are `Spaced`.

Directories are made while the plan is made, on the main thread: `Made` is the local
tree with them, with `remove_all` of the local file that is in the way.  A local file
with a space in its name is not in the local tree that the plan is made from, so it
is not removed, and `mkdir` of that name returns `EEXIST`, which is tolerated.  Below
it `mkdir` fails (`Obstructed`), and the command ends with some directories made and
no task run (`MkdirDies`).

### Segments

A byte of the file is its offset, a byte of a compressed block its place in the
block, so that sequences of bytes can be compared.  `Split` is `file_compressor`,
`Compress` a block of any packed length (`on_complete` with it), `Start` and
`SchedulePump` are `start_upload` with one action per turn of its loop, `Read` one
`read()` of a `file_pump`, which may return less than it was asked for and may
reach the end of a scratch file.  `NewPump` is the search for the piece in which
the pump begins.  `StartDownload` is `file_downloader` of a later command, with a
segment size of its own and another limit (9999 segments against 10000 parts);
`Fetch` is a segment with its range and the write at its offset.  `IsGzip` and
`Inflated` say what `file_decompressor` makes of members that follow each other.
Failures and the order in which the last part is found are left to `Upload` and
`Download`.  An empty object is asked for with the range `0--1`
(`connection.cpp:624`: `int_to_string` takes a signed number); S3 may ignore that
or refuse it, so `FetchRefused` is possible there.

### Listing and CurlPool

The bucket is a set of keys, paths of numbers; a page has the `PageSize` least
entries beyond the marker, where all keys below a subdirectory are one entry, its
prefix.  `LastNode` is what the code takes for the next marker: the last element
of the answer, in which prefixes follow the files whatever their names are.
`AskRegion`/`AnswerRegion` are `find_region`, `AskPage`/`AnswerPage` one turn of the
loop of `list_files_shallow`, of the main thread for the root and of a task for
every subdirectory; when the last page has arrived, the task schedules others
(`SubdirsToList`, `FilesToVisit`).  `AskFile` and its answers are `set_acl` of
`publish_file_task` and the HEAD of `do_ls`.  `...Warns` runs the task again, with
what it has found so far, `...Dies` gives it up; in the main thread any failure is
the end of the command (`MainThrows`, `FileDies`).  `Change` is another client.
`Parallel` distinguishes the two ways of `do_ls`.  The agenda is reduced to
`HasThread`: a task holds a thread from its first request to its end.

In `CurlPool`, `GetCurl` and `ReleaseCurl` are the two critical sections of `m_`,
`ResetPool` is `reset()`, which does not take the lock; that it does not need it
is `ResetWhenIdle`.

## 3. Runs

| Run | Question | States |
|---|---|---|
| `agenda` | Are counters, budget and the end of threads right in every interleaving, is somebody awake while others sleep, does each `run()` return, and does the agenda implement `TaskPool`, with each task run once within the limit of its class? | 475 000 |
| `upload_plain` | Are parts counted and the upload completed as they should, and are uploads that nobody completes empty, for any failure but that of the completion? | 979 000 |
| `upload_compressed` | The same with a compressor: what holds even though the upload may be started twice? | 792 000 |
| `upload_retry` | Is a completion that failed once tried again? No. | |
| `upload_race` | Is the upload completed with all parts, if blocks end together? No. | |
| `download` | Does the target only ever become a whole file of one version, and do temporary files go? | 1 240 000 |
| `sync` | Is the source mirrored, and nothing else removed? | 1 857 000 |
| `sync_listing` | Does `--delete-missing` remove only what is missing, if a listing fails? No. | |
| `sync_exclude` | Are excluded paths left alone? Not with `--delete-missing`. | |
| `segments` | Does every byte get to its place and back, for any length, any blocks and any two segment sizes? | 154 000 |
| `segments_in_flight` | Does the loop that schedules pumps end for every value of its option? Not for 1. | |
| `listing` | Is what is listed what is there, is every file visited and counted once, are the handles sound, and does the command end? | 845 000 |

**Bounds.**  `agenda` has three threads, one for each class, a pump that asks for
the whole budget against a download that asks for half of it, segments that
outlive their owners, two tasks for one place in two of the classes, tasks that
are scheduled by others and by the main thread, and two calls of `run()`; a retry
changes nothing but the attempt, so one is enough.  Liveness is checked with it,
so there is no symmetry.  `upload_plain` has three parts over two pumps, one of them only half full, and
two runs of the command with a modification in between; two attempts are the
least with which something is tried again and given up.  `upload_compressed` has
two blocks, the fewest that can race.  `download` has three segments, so that one
is neither first nor last, three versions, so that a file can be mixed of two
and out of date with respect to both, and two runs, the first of which may be
killed.  `sync` has all pairs of trees over five paths of three levels, with a
directory of two entries: every way in which a file can shadow a directory at the
root or below it, on either side; beside them a local file with a space in its name,
or nothing, where the bucket has nothing, a file, or directories.  No key of the bucket is also the name of a
directory there; see section 6.

`segments` has every length from 0 to 11, so that there are files below and above
the threshold of compression, with one block, with as many as there are threads,
and with one more because of the rounding; pieces of one to three bytes against
segments of two and three, so that a part spans several pieces, begins and ends
within one, or at its end; pumps of one and of two parts; files of more parts than
are allowed to an upload, and of fewer than that but more segments than a download
may have.  `listing` has every subset of five keys of three levels, a
directory-like key among them, pages of two entries, so that there are pages with
only files, with a file beyond the prefix, and directories of two pages in the
main thread and in a task; one change by another client at any time; two threads
and two attempts; and `ls` with files on both sides of its limit.

**Deadlock** is checked in every run: each module ends in an explicit `Finished`.

**Fairness.**  In `agenda`: weak fairness of every thread, of the progress thread
and of the main thread.  The operating system schedules threads; a thread that can
run stays able to until it does, or until another one has changed the queue.
`SpuriousWake` is not fair: nothing may depend on it.  Behind this stands that a
task ends, that is, that a transfer ends in an answer or an error; es3 sets no
timeout of its own, so TCP has to see to that.  In `segments` and `listing`: weak
fairness of the steps of es3 as a whole, that is, while the command can go on it
does, which the agenda guarantees by `RunReturns` and `ImplementsPool`; `Change`,
the step of another client, is not fair.

**Mutants.**  Definitions marked `Mutant of` are not part of the models.  Each is
a plausible slip in the operator that it is named for (a missing reset, an
off-by-one, a forgotten wakeup), and put in its place it violates the property
that `PROJECT.json` names beside it: that is how the properties were tested.

## 4. Proofs

Eight modules hold proofs.  The constants are any that the named assumptions of the
modules allow, so that the theorems hold for any number of threads, tasks, parts,
blocks, segments, paths, keys, attempts, modifications and runs of the command, and
for files, blocks, parts and pages of any size.  Each safety invariant that a run checks
is the subject of a theorem.

### Agenda

`AgendaProofs` proves, for any tasks, segments, limits and number of threads:

| Theorem | States |
|---|---|
| `TypeCorrect` | `TypeOK` |
| `Invariance` | `IInv`, the inductive invariant |
| `CountersAreExact` | `num_working_`, `classes_` and `segments_in_flight_` are what they count |
| `SegmentBudgetHolds` | the budget of segments; the limits of the classes are part of `IInv` and of `ImplementsPool` |
| `ReturnsWhenDone` | threads end, and `run()` returns, only when everything is done and every segment deleted |
| `NeverStalls` | while a thread sleeps another one is awake |

Assumptions: the tasks, segments and threads are finitely many, the limits are
positive, a task asks for no more segments than there are, what carries a segment
asks for none itself, and `run()` starts as many threads as the limits add up to
(`agenda.cpp:264-272`).

`NoStall` is not inductive.  When the last thread that is awake goes to sleep, it
has found nothing to claim; why can that not happen?  Because then nothing runs,
so all class counters are 0 (`CountersExact`); because segments are held only by
tasks that run, are about to be released, or are queued with a segment that was
handed to them (`SegmentRefs`); in the last case the queue holds a task that asks
for nothing and would have been the smallest one, and in the first two somebody
is awake; so the whole budget is free and the largest task fits.  That argument
needs each queued task to be in one place only (`Places`), and the wakeup of all
by the thread that drains the pool (`Wakeups`).  Hence

    IInv == TypeOK /\ CountersExact /\ Limits /\ Places /\ SegmentRefs /\ Wakeups

with one lemma per action that it is kept.

`AgendaPoolProofs` proves `Refinement`, that `Agenda` implements `TaskPool`
(`ImplementsPool`): the place of a task (queue, thread, `done`, `failed`) is its
status in the pool, and each step of a thread is a step of the pool or changes
nothing there.  Beside `IInv` it needs only that what has failed has been counted by
`cleanup()`: that no task is in two places is part of `IInv` already (`Places`).  That
the pool keeps its limits follows from `CountersExact`, since the threads of a class map
onto its running tasks.  The
result of `run()` is a number or, before it has returned, `Unknown`, which is assumed
not to be a number.

### Download

| Theorem | States |
|---|---|
| `TypeCorrect`, `Invariance` | `TypeOK` and the inductive invariant |
| `FilesHaveNoHoles` | `NoHoles` |
| `SyncedIsEqual` | `SyncedMeansEqual` |
| `SourceIsKept`, `TemporariesRemoved` | `SourceKept`, `TempRemoved` |
| `StoredAtEnd` | `StoredWhenDone` |

That the writer which counts `num_segments_` is the last one is an argument about
cardinalities: `segments_read_` is the number of segments whose writers have counted
themselves, and each of those has written before (`Counting`).  That equal times
mean equal content needs that data are never older than the time that HEAD
returned, and that no object is older than its time: a file with the time of the
present object then has nothing but its content (`Fetched`, `Inflating`, `Target`).
`Temporary` says who has to remove which temporary file, `Stored` that
a task that is given up has been counted as a failure.

### Upload

| Theorem | States | Assumed beside `UploadAssumption` |
|---|---|---|
| `TypeCorrect`, `Invariance` | `TypeOK` and the inductive invariant | |
| `SyncedIsEqual` | `SyncedMeansEqual` | |
| `ScratchIsRemoved` | `ScratchRemoved` | |
| `CompletedWhole` | `CompleteSentWhole` | no compression |
| `StoredAtEnd` | `StoredWhenDone` | no compression, the completion does not fail |
| `OrphansAreEmpty` | `OrphansEmpty` | no compression, the completion does not fail |

The assumptions of the last three are what the findings 1 and 2 show to be necessary.
`SyncedIsEqual` rests, as in a download, on freshness: nothing that a pump or a block
has read, that a part has sent, or that an upload or the object consists of, is
older than the time it is stored with.  For the last three, each part
belongs to exactly one pump (`PumpsApart`; pumps begin at multiples of
`NumPerPump`), a pump has its parts in hand until they have a task (`Scheduled`), and
until the last part has been counted `num_completed_` is the number of etags
(`CountedOnce`), so that whoever counts it has all of them; after that, only a
retried completion counts once more.  `OrphansEmpty` needs besides that an upload
of this command which is open and not the one that the tasks know (`Lost`) belongs to
an attempt of `file_uploader` that came before, so that there are no more of them than
attempts and nothing has been sent to them (`LostUploads`), and that the known one is
closed when the last part has been counted (`ClosedAtLast`).

### Sync

| Theorem | States | Assumed beside the assumptions of `Sync` |
|---|---|---|
| `TypeCorrect`, `Invariance` | `TypeOK` and the inductive invariant | |
| `NothingIsLost` | `NothingLost` | |
| `OnlyMissingIsRemoved` | `OnlyMissingRemoved` | `NoShadow` |
| `MirroredAtEnd` | `Mirrored` | `NoShadow` |

`NoShadow`: no key of the bucket is at first the name of a directory of the bucket.
The paths may be any set that is closed under prefixes, the trees any trees.
`Listing` says that a directory is found before what is in it and that, unless a
listing has failed, everything found is listed or waits for it; by the topmost prefix
that has not been found, a listing that has ended without failure has found the whole
bucket (`ListedAll`).  `Scheduled` gives each task its purpose (`Purpose`): what is
uploaded is a local file, what is deleted has no local file, what is removed has not
been found, and so on; every task keeps it while the others run, in any order.  For
`MirroredAtEnd`, `Left` says that each promise of `Mirrored` is kept, or that a task
is left which will see to it: the closed forms of the plan are shown to schedule one
for every included path that is not blocked, and no step takes the last one away
without keeping the promise.

### Segments

| Theorem | States | Assumed beside `SegmentsAssumption` |
|---|---|---|
| `TypeCorrect`, `Invariance` | `TypeOK` and the inductive invariant | |
| `BlocksAlwaysCoverFile` | `BlocksCoverFile` | |
| `PartsAreInPlace` | `PartsInPlace` | |
| `RoundTripIsExact` | `RoundTrip` | |
| `EachPartHasOnePump` | `OnePumpPerPart` | at least two segments may be in flight |
| `FilesFailForAReason` | `NoOtherEnd`, the safety part of `Arrives` | |

The assumption of `EachPartHasOnePump` is what finding 5 shows to be necessary: with one
segment in flight pumps of no part are scheduled, without end.

The properties compare the final bytes with the first ones, but in between the file
exists only as pieces, and a part is made of reads that may each return less than asked
for.  So the inductive invariant

    IInv == Form /\ Cut /\ Planned /\ Parts /\ Fetched

says where everything is on its way.  `Cut`: the pieces are the file as a whole, or one
packed block for each block that is ready, and the blocks are what `BlockAt` computes.
`Planned`: the pumps begin `NumPerPump` parts apart, and together they have every part
below the loop variable.  `Parts`: a pump stands at a definite place of the whole stream
(`Position`: the lengths of the pieces before its own, and what it has taken of that
one), and what it holds is the slice of the stream from the beginning of its part to
there; a part that has been sent is its slice.  `Fetched`: the object is the stream, and
each segment that has been written is equal to it.

That slices and pieces meet is a matter of sequences of sequences, which are compared by
the places where their elements end when they follow each other (`Ends`, `Composed`):
flattened sequences are so composed (`Flattened`), and what is so composed is the flattened
sequence (`FlattenIs`).  Hence the stream is the file, or its packed blocks in their order
(`PlainData`, `CompressedData`), the slices in all parts are the stream again (`Slicing`),
what has been fetched in all segments is the object (`AllFetched`), and the members of a
compressed stream inflate to the file (`InflatedIsFile`, `BlocksAreFile`).  Where a reader expects an
induction over the length of a sequence, there is a least counterexample instead: a set
of numbers has a least element by the well-foundedness of `<` (`Least`), from which
follows induction over the members of a set of numbers (`UpTo`).  The division in the
number of blocks and parts is used through two inequalities only (`Division`,
`PiecesFit`).  Two facts had to be added to make the invariant inductive: `Read` has no
guard on `stage`, so that outside `"pump"` every pump must be known to have ended; and an
upload that is refused must be known to have had too many parts.

### Listing

`ListingProofs` is about the handles:

| Theorem | States |
|---|---|
| `Invariance` | `IInv`, the inductive invariant |
| `PoolIsAlwaysSound` | `PoolSound` |
| `ResetIsIdle` | `ResetWhenIdle` |
| `HandlesAreBounded` | `HandlesBounded` |

for any bucket that anybody changes at any time, any command, size of page, number of
threads and failures.  `ListingAssumption` asks that the bucket may have some key at
all, since the root is a directory of a key.  `PInv` is `PoolSound` with what keeps it
so: handles are numbered as they are made, so that a new one is really new, and no
stack has a handle twice.  A request returns only what it has borrowed, since exactly
those tasks have a handle that wait for an answer (`Lent`).  That the pool is reset
when idle follows once nothing is queued and nothing runs (`Stages`), and, for `ls`
without the agenda, which gives up at the first exception, because there is at most
one request (`Serial`) and all listings have ended; `Order` says that no task exists
before the listing that has found it.  A zone gets a new handle only if all of its
handles are in use, by tasks that have a thread each; so there are as many as threads
in the zone of the bucket, and the one that has asked for the region (`Bounded`).

`ListedProofs` is about what is read with them, for any keys, any size of a page, any
changes of the bucket and any pages and files asked for again:

| Theorem | States |
|---|---|
| `TypeCorrect` | `TypeOK` |
| `ListingIsExact` | `ListingExact` |
| `AllAreVisited` | `AllVisited` |
| `ListingsAdvance` | `Advances`: a page that is not the last one moves the marker up, within an attempt; the safety part of `CommandEnds` |

The invariant is `LInv`, on top of `IInv`.  `Pages`: up to its marker a listing has
every entry of a key that was there all the time, and it has nothing that never was
there.  A page keeps that since it is a beginning of what lies beyond the marker and its
last node is one of its entries (`PageBegins`), whether that node is a prefix or a file
and whatever files of the page lie beyond it; an attempt that begins again keeps it since
nothing lies below its marker.  `Followed`: the tasks of what a directory has been found
to hold exist once it has been listed, unless `ls` has given up.  A command that succeeds
has listed, from the root down, each directory above a file that was there all the time
(`DirsListed`, by the first one that would be missing).  `Counted`: publish's count is the
number of files whose request has been answered, and none of them is excluded.  For the
type of the pool, a client that borrows a handle has none, so that a zone has no more
handles than there are clients (`Roomy`).

### Only model-checked

`RunReturns`, `CommandEnds` and `Arrives`: liveness is out of reach of the prover; of the
last two the safety part is proved.  Without the assumptions named above, what the
theorems say is false where a finding says so, and is otherwise only checked on the
instance of the run: of an upload with compression, for example, that it is completed
with all of its parts - which it is not.

## 5. Findings

1. `uploader.cpp:86`: a part is counted before the completion is requested and is
   counted again when the task is retried; the equality that triggers the
   completion is then missed, no object appears, and success is reported
   (`upload_retry`).
2. `compressor.cpp:164`: `num_pending_` is read after the lock is released, so two
   blocks may both start the upload, and it is completed before every part has
   been sent (`upload_race`).
3. `sync.cpp:251`: the result of the listing is not looked at, so a directory whose
   listing failed is taken for empty, and `--delete-missing` removes local files
   that are in the bucket (`sync_listing`).
4. `sync.cpp:459`: deletions do not look at the exclude patterns (`sync_exclude`).
5. `uploader.cpp:298`: with `--segments-in-flight 1` a pump gets half a segment, that
   is none, and the loop that schedules pumps never advances (`segments_in_flight`).

One disagreement needs no run to be seen.  The comment of `agenda.cpp:99-100` says that
"Unbound tasks are allowed to exceed their limits and borrow threads from other
classes", but the condition that made them an exception is itself commented out
(`agenda.cpp:101-102`), and `agenda.cpp:103` skips every class that has reached its
limit.  `Agenda` and `TaskPool` follow the code: the limit of `TaskPool` holds for unbound
tasks too, and a thread goes to sleep while an unbound task that fits the budget waits
in the queue.

## 6. Not modelled, and the plan

The plan puts first what everything else relies on, then what moves data, then
what decides what to move:

1. `Agenda`, `TaskPool`, `AgendaPool` and `AgendaProofs` - done.
2. `Upload`, `Download` - done.
3. `Sync` - done but for several sources (`merge_to_left`), `check_mode`, and
   `rm` without a trailing slash, which lists by prefix.
4. `Listing` and `CurlPool` - done; `test` and `touch`, which list once and send at
   most one more request, are left.
5. `Segments` - done.
6. Proofs of every safety invariant and action property that a run checks, and of
   `ImplementsPool` - done.
7. `cat`, which is a download and a copy.

Left out for good: option parsing, logging and progress (no property is about
them); glob patterns, mime types and base64 (pure functions or tables); request
signing; the parsing of answers (an error document without a message dereferences a
null pointer, `connection.cpp:102`); the eight bits of the exit status, which make 256
failed tasks look like success (`commands.cpp:129`).  A modification that does not change the modification time (which has a
granularity of a second) is not seen by es3 and is not modelled: `version` is
both.  A key of the bucket that is also the name of a directory there makes two
tasks race for one local path; the races are in the list of hazards, and trees
without such keys are what `sync` is checked for.
