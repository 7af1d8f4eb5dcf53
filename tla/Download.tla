------------------------------ MODULE Download ------------------------------
(***************************************************************************)
(* The download of one object (downloader.cpp, file_decompressor of        *)
(* compressor.cpp): file_downloader compares the object with the file and  *)
(* creates a temporary file, one task per segment fetches a range of the   *)
(* object, one more writes it into the temporary file, and the writer that *)
(* finds itself the last one renames the file to its target or hands it to *)
(* a decompressor.                                                         *)
(*                                                                         *)
(* Tasks interleave at each request and each lock; a warning runs a task   *)
(* again, at most MaxAttempts times.  The object may be replaced at any    *)
(* time, and the command may be killed at any time and run again.          *)
(***************************************************************************)
EXTENDS Integers, FiniteSets

CONSTANTS NumSegments,  \* num_segments_
          MaxAttempts,  \* attempts of the agenda, 10 in the code
          MaxVersion,   \* bound on the replacements of the object
          NumSyncs,     \* bound on the runs of the command
          Faults        \* requests that may fail, tasks that may die, crashes

FaultKind == {"head", "get", "die", "crash"}

ASSUME DownloadAssumption ==
    /\ NumSegments \in Nat \ {0}
    /\ MaxAttempts \in Nat \ {0}
    /\ MaxVersion \in Nat \ {0}
    /\ NumSyncs \in Nat \ {0}
    /\ Faults \subseteq FaultKind

Version == 1..MaxVersion
Segment == 1..NumSegments
\* Bytes of a preallocated file that nobody has written.
Hole == 0

VARIABLES version,   \* the object: x-amz-meta-last-modified, and its content
          file,      \* the target: modification time, versions found in it
          downloader, \* file_downloader: pc, mtime_ and compressed_ of HEAD, attempt
          segment,   \* the task of each segment: pc, versions in its data, attempt
          segments_read_, \* segments counted under m_
          decompressor, \* the file_decompressor task
          inflated,  \* versions found in its output
          delete_temp_file_,
          temp,      \* temporary files on the disk: the run and the kind
          failed,    \* num_failed_ # 0
          syncs      \* runs of the command

vars == <<version, file, downloader, segment, segments_read_, decompressor, inflated,
          delete_temp_file_, temp, failed, syncs>>

\* local_file_ of download_content, and the output of the decompressor.
Local == <<syncs, "local">>
Output == <<syncs, "output">>

NewDownloader == [pc |-> "head", mtime |-> 0, compressed |-> FALSE, attempt |-> 0]
IdleSegments == [i \in Segment |-> [pc |-> "idle", data |-> {}, attempt |-> 0]]

Init ==
    /\ version = 1
    /\ file = [mtime |-> 0, data |-> {}]
    /\ downloader = NewDownloader
    /\ segment = IdleSegments
    /\ segments_read_ = 0
    /\ decompressor = "idle"
    /\ inflated = {}
    /\ delete_temp_file_ = TRUE
    /\ temp = {}
    /\ failed = FALSE
    /\ syncs = 1

\* Somebody replaces the object.
Replace ==
    /\ version < MaxVersion
    /\ version' = version + 1
    /\ UNCHANGED <<file, downloader, segment, segments_read_, decompressor, inflated,
                   delete_temp_file_, temp, failed, syncs>>

-----------------------------------------------------------------------------
\* file_downloader
tail == <<segments_read_, decompressor, inflated, delete_temp_file_>>

\* Mutant of NeedsDownload: a newer object is taken for an older one.
NeedsDownloadIfAbsent == file.mtime = 0

\* The file is not as old, or not as large, as the object.
NeedsDownload == file.mtime # version

\* Stat of the file, HEAD, and the comparison of the two.  The object may have been
\* uploaded with compression or without.
Compare ==
    /\ downloader.pc = "head"
    /\ \E compressed \in BOOLEAN :
         downloader' = [downloader EXCEPT
                          !.pc = IF NeedsDownload THEN "create" ELSE "done",
                          !.mtime = version, !.compressed = compressed]
    /\ UNCHANGED <<version, file, segment, tail, temp, failed, syncs>>

\* The request fails: the agenda runs the task again or gives it up.
HeadWarns ==
    /\ downloader.pc = "head" /\ "head" \in Faults
    /\ IF downloader.attempt + 1 < MaxAttempts
       THEN downloader' = [downloader EXCEPT !.attempt = @ + 1] /\ UNCHANGED failed
       ELSE downloader' = [downloader EXCEPT !.pc = "failed"] /\ failed' = TRUE
    /\ UNCHANGED <<version, file, segment, tail, temp, syncs>>

\* HEAD is answered with an error other than 404, which nobody looks at: the
\* object seems to be empty and to have no modification time.
HeadRefused ==
    /\ downloader.pc = "head" /\ "head" \in Faults
    /\ downloader' = [downloader EXCEPT !.pc = "create"]
    /\ UNCHANGED <<version, file, segment, tail, temp, failed, syncs>>

\* The temporary file is created and one task per segment scheduled; an object
\* that seems to be empty has one segment.
Create ==
    /\ downloader.pc = "create"
    /\ downloader' = [downloader EXCEPT !.pc = "done"]
    /\ segment' = [i \in Segment |->
                     IF downloader.mtime # 0 \/ i = 1
                     THEN [segment[i] EXCEPT !.pc = "queued"]
                     ELSE segment[i]]
    /\ temp' = temp \cup {Local}
    /\ UNCHANGED <<version, file, tail, failed, syncs>>

\* The object is gone, has too many segments, or the file cannot be created.
DownloaderDies ==
    /\ downloader.pc \in {"head", "create"} /\ "die" \in Faults
    /\ downloader' = [downloader EXCEPT !.pc = "failed"]
    /\ failed' = TRUE
    /\ UNCHANGED <<version, file, segment, tail, temp, syncs>>

-----------------------------------------------------------------------------
\* download_segment_task and write_segment_task of one segment
Move(i, pc) == segment' = [segment EXCEPT ![i].pc = pc]
Fail(i) == Move(i, "failed") /\ failed' = TRUE

\* The range arrives in full: it is of the object as it is now.
Fetch(i) ==
    /\ segment[i].pc = "queued" /\ downloader.mtime # 0
    /\ segment' = [segment EXCEPT ![i].pc = "fetched", ![i].data = {version}]
    /\ UNCHANGED <<version, file, downloader, tail, temp, failed, syncs>>

\* Mutant of WarnSegment: one attempt too many.
WarnSegmentOnceMore(i) ==
    IF segment[i].attempt < MaxAttempts
    THEN segment' = [segment EXCEPT ![i].attempt = @ + 1] /\ UNCHANGED failed
    ELSE Fail(i)

\* A warning: the agenda runs the task again or gives it up.
WarnSegment(i) ==
    IF segment[i].attempt + 1 < MaxAttempts
    THEN segment' = [segment EXCEPT ![i].attempt = @ + 1] /\ UNCHANGED failed
    ELSE Fail(i)

\* The request fails, or the data is not as long as it should be (it never is if
\* the object seemed to be empty).
FetchWarns(i) ==
    /\ segment[i].pc = "queued"
    /\ downloader.mtime # 0 => "get" \in Faults
    /\ WarnSegment(i)
    /\ UNCHANGED <<version, file, downloader, tail, temp, syncs>>

FetchDies(i) ==
    /\ segment[i].pc = "queued" /\ "die" \in Faults
    /\ Fail(i)
    /\ UNCHANGED <<version, file, downloader, tail, temp, syncs>>

\* do_write
Write(i) ==
    /\ segment[i].pc = "fetched" /\ Local \in temp
    /\ Move(i, "written")
    /\ UNCHANGED <<version, file, downloader, tail, temp, failed, syncs>>

\* The temporary file cannot be opened or written.
WriteDies(i) ==
    /\ segment[i].pc = "fetched"
    /\ Local \in temp => "die" \in Faults
    /\ Fail(i)
    /\ UNCHANGED <<version, file, downloader, tail, temp, syncs>>

\* Mutant of Last: off by one.
LastTooEarly == segments_read_ + 2 >= NumSegments

\* segments_read_ == num_segments_, after the segment has been counted.
Last == segments_read_ + 1 = NumSegments

\* What the temporary file holds.
Content ==
    UNION {IF segment[i].pc \in {"written", "done"} THEN segment[i].data ELSE {Hole} :
             i \in Segment}

\* Mutant of Stamp: the time of the object as it is now.
StampNow == version

\* The modification time that the target gets.
Stamp == downloader.mtime

CountSegment(i) ==
    /\ segment[i].pc = "written" /\ ~Last
    /\ segments_read_' = segments_read_ + 1
    /\ Move(i, "done")
    /\ UNCHANGED <<version, file, downloader, decompressor, inflated, delete_temp_file_,
                   temp, failed, syncs>>

\* The file gets the time and mode of the object and its name, m_ still held.
Install(i) ==
    /\ segment[i].pc = "written" /\ Last /\ ~downloader.compressed
    /\ segments_read_' = segments_read_ + 1
    /\ file' = [mtime |-> Stamp, data |-> Content]
    /\ temp' = temp \ {Local}
    /\ Move(i, "done")
    /\ UNCHANGED <<version, downloader, decompressor, inflated, delete_temp_file_,
                   failed, syncs>>

\* The time, the mode or the name cannot be set.
InstallDies(i) ==
    /\ segment[i].pc = "written" /\ Last /\ ~downloader.compressed /\ "die" \in Faults
    /\ segments_read_' = segments_read_ + 1
    /\ Fail(i)
    /\ UNCHANGED <<version, file, downloader, decompressor, inflated, delete_temp_file_,
                   temp, syncs>>

\* Mutant of PassTemp: the content still deletes the file it has given away.
PassTempTwice == UNCHANGED delete_temp_file_

\* From here on it is the decompressor that deletes the temporary file.
PassTemp == delete_temp_file_' = FALSE

StartDecompress(i) ==
    /\ segment[i].pc = "written" /\ Last /\ downloader.compressed
    /\ segments_read_' = segments_read_ + 1
    /\ PassTemp
    /\ decompressor' = "queued"
    /\ Move(i, "done")
    /\ UNCHANGED <<version, file, downloader, inflated, temp, failed, syncs>>

TasksEnded ==
    /\ downloader.pc \in {"done", "failed"}
    /\ \A i \in Segment : segment[i].pc \in {"idle", "done", "failed"}

\* No task refers to the content any more: ~download_content.
DropContent ==
    /\ TasksEnded
    /\ delete_temp_file_ /\ Local \in temp
    /\ temp' = temp \ {Local}
    /\ UNCHANGED <<version, file, downloader, segment, tail, failed, syncs>>

-----------------------------------------------------------------------------
\* file_decompressor

\* The data is inflated into another file, next to the target.
Inflate ==
    /\ decompressor = "queued" /\ Local \in temp
    /\ decompressor' = "inflated"
    /\ inflated' = Content
    /\ temp' = temp \cup {Output}
    /\ UNCHANGED <<version, file, downloader, segment, segments_read_, delete_temp_file_,
                   failed, syncs>>

\* A file cannot be opened or written, or the data is not in gzip format.
InflateDies ==
    /\ decompressor = "queued"
    /\ Local \in temp /\ Cardinality(Content) = 1 => "die" \in Faults
    /\ decompressor' = "failing"
    /\ failed' = TRUE
    /\ UNCHANGED <<version, file, downloader, segment, segments_read_, inflated,
                   delete_temp_file_, temp, syncs>>

\* The output gets its time, mode and name.
InstallInflated ==
    /\ decompressor = "inflated"
    /\ decompressor' = "installed"
    /\ file' = [mtime |-> Stamp, data |-> inflated]
    /\ temp' = temp \ {Output}
    /\ UNCHANGED <<version, downloader, segment, segments_read_, inflated,
                   delete_temp_file_, failed, syncs>>

\* Mutant of UnlinkOutput: the output stays.
KeepOutput == UNCHANGED temp

\* The ON_BLOCK_EXIT of file_decompressor.
UnlinkOutput == temp' = temp \ {Output}

\* That fails: the output is removed on the way out.
InstallInflatedDies ==
    /\ decompressor = "inflated" /\ "die" \in Faults
    /\ decompressor' = "failing"
    /\ UnlinkOutput
    /\ failed' = TRUE
    /\ UNCHANGED <<version, file, downloader, segment, segments_read_, inflated,
                   delete_temp_file_, syncs>>

\* ~file_decompressor
DropDecompressor ==
    /\ decompressor \in {"installed", "failing"}
    /\ decompressor' = "done"
    /\ temp' = temp \ {Local}
    /\ UNCHANGED <<version, file, downloader, segment, segments_read_, inflated,
                   delete_temp_file_, failed, syncs>>

-----------------------------------------------------------------------------
\* run() has returned and every task is gone.
Drained ==
    /\ TasksEnded
    /\ delete_temp_file_ => Local \notin temp
    /\ decompressor \in {"idle", "done"}

\* The command is run again, of which nothing is left but its files.
Restart ==
    /\ syncs < NumSyncs
    /\ syncs' = syncs + 1
    /\ downloader' = NewDownloader
    /\ segment' = IdleSegments
    /\ segments_read_' = 0
    /\ decompressor' = "idle"
    /\ inflated' = {}
    /\ delete_temp_file_' = TRUE
    /\ failed' = FALSE
    /\ UNCHANGED <<version, file, temp>>

SyncAgain == Drained /\ Restart

\* The command is killed.
Crash == "crash" \in Faults /\ ~Drained /\ Restart

Finished == Drained /\ syncs = NumSyncs /\ UNCHANGED vars

DownloaderStep == Compare \/ HeadWarns \/ HeadRefused \/ Create \/ DownloaderDies
SegmentStep(i) ==
    \/ Fetch(i) \/ FetchWarns(i) \/ FetchDies(i)
    \/ Write(i) \/ WriteDies(i)
    \/ CountSegment(i)
    \/ Install(i) \/ InstallDies(i) \/ StartDecompress(i)
DecompressorStep ==
    \/ Inflate \/ InflateDies
    \/ InstallInflated \/ InstallInflatedDies
    \/ DropDecompressor

Next ==
    \/ Replace
    \/ DownloaderStep
    \/ \E i \in Segment : SegmentStep(i)
    \/ DropContent
    \/ DecompressorStep
    \/ SyncAgain
    \/ Crash
    \/ Finished

Spec == Init /\ [][Next]_vars

-----------------------------------------------------------------------------
\* Type invariant.
TypeOK ==
    /\ version \in Version
    /\ file \in [mtime : Version \cup {0}, data : SUBSET (Version \cup {Hole})]
    /\ downloader \in [pc : {"head", "create", "done", "failed"},
                       mtime : Version \cup {0}, compressed : BOOLEAN,
                       attempt : 0..(MaxAttempts - 1)]
    /\ segment \in [Segment -> [pc : {"idle", "queued", "fetched", "written", "done", "failed"},
                                data : SUBSET Version, attempt : 0..(MaxAttempts - 1)]]
    /\ segments_read_ \in 0..NumSegments
    /\ decompressor \in {"idle", "queued", "inflated", "installed", "failing", "done"}
    /\ inflated \in SUBSET (Version \cup {Hole})
    /\ delete_temp_file_ \in BOOLEAN
    /\ temp \subseteq (1..NumSyncs) \X {"local", "output"}
    /\ failed \in BOOLEAN
    /\ syncs \in 1..NumSyncs

\* What es3 takes for synchronized is equal: a file with the modification time of
\* the object as it is now holds nothing but that version of it, however often
\* the object was replaced while its segments were fetched.
SyncedMeansEqual == file.mtime = version => file.data = {version}

\* The target is replaced only by a file of which every segment has been written,
\* in whatever order the writers end and whichever of them fails or is run again
\* (downloader.cpp:73-96).
NoHoles == Hole \notin file.data

\* A command that has nothing left to do and no failure to report has left the
\* file with the time of the object that it has seen.
StoredWhenDone == Drained /\ ~failed => file.mtime = downloader.mtime /\ file.data # {}

\* The temporary file outlives the content that created it, whose destructor runs
\* at any time after the last count, until the decompressor has read it
\* (downloader.cpp:41, 85).
SourceKept == decompressor \in {"queued", "inflated"} => Local \in temp

\* Temporary files do not outlive the command, whatever fails.
TempRemoved == Drained => Local \notin temp /\ Output \notin temp
=============================================================================
