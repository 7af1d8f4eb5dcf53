------------------------------- MODULE Upload -------------------------------
(***************************************************************************)
(* The upload of one file (uploader.cpp, the compressing half of           *)
(* compressor.cpp): file_uploader compares the file with the object and    *)
(* initiates a multipart upload; compress tasks, if any, write scratch     *)
(* files; start_upload schedules pumps, these read the data and schedule   *)
(* one task per part, and the part task that finds itself the last one     *)
(* completes the upload.                                                   *)
(*                                                                         *)
(* Tasks run in any order and interleave at each request and each lock, as *)
(* the agenda lets them; a warning runs the task again, at most            *)
(* MaxAttempts times.  The file may be modified at any time, and S3 is a   *)
(* service that may refuse a request or apply it and lose the answer.      *)
(***************************************************************************)
EXTENDS Integers, FiniteSets, Sequences

CONSTANTS NumParts,     \* segments of the data that is uploaded
          NumBlocks,    \* blocks compressed separately, 0 without compression
          NumPerPump,   \* num_per_pump
          MaxAttempts,  \* attempts of the agenda, 10 in the code
          MaxVersion,   \* bound on the modifications of the file
          NumSyncs,     \* bound on the runs of the command
          Faults        \* requests that may fail with a warning, tasks that may die

FaultKind == {"head", "initiate", "part", "complete", "die"}

ASSUME UploadAssumption ==
    /\ NumParts \in Nat \ {0}
    /\ NumBlocks \in Nat
    /\ NumPerPump \in Nat \ {0}
    /\ MaxAttempts \in Nat \ {0}
    /\ MaxVersion \in Nat \ {0}
    /\ NumSyncs \in Nat \ {0}
    /\ Faults \subseteq FaultKind

Version == 1..MaxVersion
Part == 1..NumParts
Block == 1..NumBlocks
\* Calls of start_upload: one, or one per block that sees the count at zero.
Start == IF NumBlocks = 0 THEN {1} ELSE Block
\* Offset of a pump's first part: the loop of start_upload.
Pump == {f \in Part : (f - 1) % NumPerPump = 0}
PartsOf(f) == {i \in Part : f <= i /\ i < f + NumPerPump}

NoObject == [meta |-> 0, data |-> {}]

VARIABLES version,   \* modification time, and content, of the local file
          object,    \* the remote object: x-amz-meta-last-modified, versions in it
          uploads,   \* the multipart uploads that S3 knows of
          uploader,  \* file_uploader: pc, the mtime it has read, attempt
          id,        \* upload_id_
          num_completed_, \* parts counted under lock_
          etags_,    \* parts whose etag is known
          compressor, \* the file_compressor task
          block,     \* the compress task of each block
          data,      \* versions found in the scratch file of each block
          num_pending_,   \* blocks that are not compressed yet
          starts,    \* calls of start_upload
          pump,      \* the file_pump of each start and offset
          part,      \* the part_upload_task of each start and part
          scratch,   \* scratch files on the disk: run and block
          result_,   \* blocks whose scratch file is named in result_
          failed,    \* num_failed_ # 0
          syncs      \* runs of the command

vars == <<version, object, uploads, uploader, id, num_completed_, etags_, compressor, block, data,
          num_pending_, starts, pump, part, scratch, result_, failed, syncs>>

local == <<compressor, block, data, num_pending_, starts, scratch, result_>>
remote == <<object, uploads>>
content == <<id, num_completed_, etags_>>

Ended == {"idle", "done", "failed"}

\* The agenda has nothing left: what run() waits for.
Drained ==
    /\ uploader.pc \in {"done", "failed"}
    /\ compressor \in Ended
    /\ \A b \in Block : block[b] \in Ended
    /\ \A k \in Start : \A f \in Pump : pump[k][f].pc \in Ended
    /\ \A k \in Start : \A i \in Part : part[k][i].pc \in Ended

-----------------------------------------------------------------------------
IdleBlocks == [b \in Block |-> "idle"]
IdlePumps == [k \in Start |-> [f \in Pump |-> [pc |-> "idle", todo |-> {}]]]
IdleParts ==
    [k \in Start |-> [i \in Part |-> [pc |-> "idle", data |-> {}, attempt |-> 0]]]
NewUploader == [pc |-> "stat", mtime |-> 0, attempt |-> 0]

Init ==
    /\ version = 1
    /\ object = NoObject
    /\ uploads = <<>>
    /\ uploader = NewUploader
    /\ id = 0
    /\ num_completed_ = 0
    /\ etags_ = {}
    /\ compressor = "idle"
    /\ block = IdleBlocks
    /\ data = [b \in Block |-> {}]
    /\ num_pending_ = 0
    /\ starts = 0
    /\ pump = IdlePumps
    /\ part = IdleParts
    /\ scratch = {}
    /\ result_ = {}
    /\ failed = FALSE
    /\ syncs = 1

\* Somebody modifies the file.
Modify ==
    /\ version < MaxVersion
    /\ version' = version + 1
    /\ UNCHANGED <<object, uploads, uploader, content, local, pump, part, failed, syncs>>

-----------------------------------------------------------------------------
\* file_uploader

\* Mutant of WarnUploader: one attempt too many.
WarnUploaderOnceMore ==
    IF uploader.attempt < MaxAttempts
    THEN /\ uploader' = [NewUploader EXCEPT !.attempt = uploader.attempt + 1]
         /\ UNCHANGED failed
    ELSE /\ uploader' = [uploader EXCEPT !.pc = "failed"]
         /\ failed' = TRUE

\* A warning: the agenda runs the task again from its start, or gives it up.
WarnUploader ==
    IF uploader.attempt + 1 < MaxAttempts
    THEN /\ uploader' = [NewUploader EXCEPT !.attempt = uploader.attempt + 1]
         /\ UNCHANGED failed
    ELSE /\ uploader' = [uploader EXCEPT !.pc = "failed"]
         /\ failed' = TRUE

\* Size, modification time and mode of the file.
Stat ==
    /\ uploader.pc = "stat"
    /\ uploader' = [uploader EXCEPT !.pc = "head", !.mtime = version]
    /\ UNCHANGED <<version, remote, content, local, pump, part, failed, syncs>>

\* HEAD: the object is as old as the file, or it has to be uploaded.
Compare ==
    /\ uploader.pc = "head"
    /\ uploader' = [uploader EXCEPT !.pc =
                      IF object.meta = uploader.mtime THEN "done" ELSE "initiate"]
    /\ UNCHANGED <<version, remote, content, local, pump, part, failed, syncs>>

HeadWarns ==
    /\ uploader.pc = "head" /\ "head" \in Faults
    /\ WarnUploader
    /\ UNCHANGED <<version, remote, content, local, pump, part, syncs>>

\* HEAD is answered with an error other than 404, which nobody looks at: there is
\* no modification time in the answer.
HeadRefused ==
    /\ uploader.pc = "head" /\ "head" \in Faults
    /\ uploader' = [uploader EXCEPT !.pc = "initiate"]
    /\ UNCHANGED <<version, remote, content, local, pump, part, failed, syncs>>

\* What S3 keeps of an upload that it has initiated: the headers, the parts to come,
\* and when it was, of which the run of the command matters.
NewUpload == [meta |-> uploader.mtime, parts |-> [i \in Part |-> {}], open |-> TRUE,
              run |-> syncs]

\* Mutant of StartPumps: one pump too few when the parts do not divide evenly.
StartPumpsRoundedDown(k) ==
    /\ starts' = k
    /\ pump' = [pump EXCEPT ![k] =
                  [f \in Pump |->
                     IF f + NumPerPump - 1 <= NumParts
                     THEN [pc |-> "queued", todo |-> PartsOf(f)] ELSE pump[k][f]]]

\* start_upload: num_parts_ and etags_ get their size and the pumps are scheduled.
StartPumps(k) ==
    /\ starts' = k
    /\ pump' = [pump EXCEPT ![k] = [f \in Pump |-> [pc |-> "queued", todo |-> PartsOf(f)]]]

\* POST ?uploads; then the compression, or start_upload, is started.
Initiate ==
    /\ uploader.pc = "initiate"
    /\ uploads' = Append(uploads, NewUpload)
    /\ id' = Len(uploads) + 1
    /\ uploader' = [uploader EXCEPT !.pc = "done"]
    /\ IF NumBlocks = 0
       THEN StartPumps(1) /\ UNCHANGED compressor
       ELSE compressor' = "queued" /\ UNCHANGED <<starts, pump>>
    /\ UNCHANGED <<version, object, num_completed_, etags_, block, data, num_pending_,
                   part, scratch, result_, failed, syncs>>

\* The request fails, or S3 has initiated an upload whose id does not arrive.
InitiateWarns ==
    /\ uploader.pc = "initiate" /\ "initiate" \in Faults
    /\ uploads' \in {uploads, Append(uploads, NewUpload)}
    /\ WarnUploader
    /\ UNCHANGED <<version, object, content, local, pump, part, syncs>>

\* The file cannot be read any more, or S3 refuses the upload for good; the file
\* that start_upload takes is opened when the upload has been initiated.
UploaderDies ==
    /\ uploader.pc \in {"stat", "initiate"} /\ "die" \in Faults
    /\ \/ UNCHANGED uploads
       \/ /\ uploader.pc = "initiate" /\ NumBlocks = 0
          /\ uploads' = Append(uploads, NewUpload)
    /\ uploader' = [uploader EXCEPT !.pc = "failed"]
    /\ failed' = TRUE
    /\ UNCHANGED <<version, object, content, local, pump, part, syncs>>

-----------------------------------------------------------------------------
\* file_compressor and its compress tasks

\* The file is split into blocks, one task each.
Split ==
    /\ compressor = "queued"
    /\ compressor' = "done"
    /\ block' = [b \in Block |-> "queued"]
    /\ num_pending_' = NumBlocks
    /\ UNCHANGED <<version, remote, uploader, content, data, starts, pump, part,
                   scratch, result_, failed, syncs>>

\* The file is gone.
SplitDies ==
    /\ compressor = "queued" /\ "die" \in Faults
    /\ compressor' = "failed"
    /\ failed' = TRUE
    /\ UNCHANGED <<version, remote, uploader, content, block, data, num_pending_,
                   starts, pump, part, scratch, result_, syncs>>

\* do_compress: the block is read and written to a scratch file.
Compress(b) ==
    /\ block[b] = "queued"
    /\ block' = [block EXCEPT ![b] = "compressed"]
    /\ data' = [data EXCEPT ![b] = {version}]
    /\ scratch' = scratch \cup {<<syncs, b>>}
    /\ UNCHANGED <<version, remote, uploader, content, compressor, num_pending_, starts, pump, part,
                   result_, failed, syncs>>

\* do_compress throws, after it has created the scratch file or before.
CompressDies(b) ==
    /\ block[b] = "queued" /\ "die" \in Faults
    /\ block' = [block EXCEPT ![b] = "failed"]
    /\ scratch' \in {scratch, scratch \cup {<<syncs, b>>}}
    /\ failed' = TRUE
    /\ UNCHANGED <<version, remote, uploader, content, compressor, data, num_pending_, starts, pump,
                   part, result_, syncs>>

\* Mutant of NameScratch: the last block forgets to record its file.
NameScratchUnlessLast(b) == IF num_pending_ = 1 THEN result_ ELSE result_ \cup {b}

\* result_->files_.at(num) = name
NameScratch(b) == result_ \cup {b}

\* on_complete, under the lock.
CountBlock(b) ==
    /\ block[b] = "compressed"
    /\ block' = [block EXCEPT ![b] = "counted"]
    /\ num_pending_' = num_pending_ - 1
    /\ result_' = NameScratch(b)
    /\ UNCHANGED <<version, remote, uploader, content, compressor, data, starts, pump, part,
                   scratch, failed, syncs>>

\* on_complete, after the lock has been released: num_pending_ is read again.
FinishBlock(b) ==
    /\ block[b] = "counted"
    /\ block' = [block EXCEPT ![b] = "done"]
    /\ IF num_pending_ = 0
       THEN StartPumps(starts + 1)
       ELSE UNCHANGED <<starts, pump>>
    /\ UNCHANGED <<version, remote, uploader, content, compressor, data, num_pending_, part,
                   scratch, result_, failed, syncs>>

\* The last task that refers to result_ is gone: ~scattered_files unlinks its files.
UnlinkScratch ==
    /\ result_ # {}
    /\ \A b \in Block : block[b] \in Ended
    /\ \A k \in Start : \A f \in Pump : pump[k][f].pc \in Ended
    /\ scratch' = scratch \ {<<syncs, b>> : b \in result_}
    /\ result_' = {}
    /\ UNCHANGED <<version, remote, uploader, content, compressor, block, data, num_pending_,
                   starts, pump, part, failed, syncs>>

-----------------------------------------------------------------------------
\* file_pump

\* What a pump finds: the file as it is now, or what the compression found.
Content == IF NumBlocks = 0 THEN {version} ELSE UNION {data[b] : b \in Block}

\* One segment is read and its part task scheduled; parts go in order.
ReadSegment(k, f) ==
    /\ pump[k][f].pc = "queued"
    /\ \E i \in pump[k][f].todo :
         /\ \A j \in pump[k][f].todo : i <= j
         /\ part' = [part EXCEPT ![k][i] = [pc |-> "queued", data |-> Content, attempt |-> 0]]
         /\ pump' = [pump EXCEPT ![k][f] =
                       [pc |-> IF @.todo = {i} THEN "done" ELSE "queued",
                        todo |-> @.todo \ {i}]]
    /\ UNCHANGED <<version, remote, uploader, content, local, failed, syncs>>

\* The file cannot be opened or read.
PumpDies(k, f) ==
    /\ pump[k][f].pc = "queued" /\ "die" \in Faults
    /\ pump' = [pump EXCEPT ![k][f].pc = "failed"]
    /\ failed' = TRUE
    /\ UNCHANGED <<version, remote, uploader, content, local, part, syncs>>

-----------------------------------------------------------------------------
\* part_upload_task

\* The task ends, is run again after a warning, or is given up.
EndPart(k, i) ==
    part' = [part EXCEPT ![k][i].pc = "done"] /\ UNCHANGED failed

FailPart(k, i) ==
    part' = [part EXCEPT ![k][i].pc = "failed"] /\ failed' = TRUE

WarnPart(k, i) ==
    IF part[k][i].attempt + 1 < MaxAttempts
    THEN /\ part' = [part EXCEPT ![k][i].pc = "queued", ![k][i].attempt = @ + 1]
         /\ UNCHANGED failed
    ELSE FailPart(k, i)

Stored(k, i) == [uploads EXCEPT ![id].parts[i] = part[k][i].data]

\* upload_data: S3 has the part, and its etag has arrived.
SendPart(k, i) ==
    /\ part[k][i].pc = "queued" /\ uploads[id].open
    /\ uploads' = Stored(k, i)
    /\ part' = [part EXCEPT ![k][i].pc = "sent"]
    /\ UNCHANGED <<version, object, uploader, content, local, pump, failed, syncs>>

\* upload_data fails: S3 may have the part all the same.
SendPartWarns(k, i) ==
    /\ part[k][i].pc = "queued" /\ uploads[id].open /\ "part" \in Faults
    /\ uploads' \in {uploads, Stored(k, i)}
    /\ WarnPart(k, i)
    /\ UNCHANGED <<version, object, uploader, content, local, pump, syncs>>

\* S3 refuses the part for good: the upload is over, or any other 4xx answer.
SendPartDies(k, i) ==
    /\ part[k][i].pc = "queued"
    /\ uploads[id].open => "die" \in Faults
    /\ FailPart(k, i)
    /\ UNCHANGED <<version, remote, uploader, content, local, pump, syncs>>

\* Under lock_: the part is counted and its etag kept.
Count(i) ==
    /\ num_completed_' = num_completed_ + 1
    /\ etags_' = etags_ \cup {i}

\* Mutant of Last: off by one.
LastTooEarly == num_completed_ + 2 >= NumParts

\* Mutant of Last: the part is compared before it is counted.
LastUncounted == num_completed_ = NumParts

\* num_completed_ == num_parts_, after the part has been counted.
Last == num_completed_ + 1 = NumParts

CountPart(k, i) ==
    /\ part[k][i].pc = "sent" /\ ~Last
    /\ Count(i)
    /\ EndPart(k, i)
    /\ UNCHANGED <<version, remote, uploader, id, local, pump, syncs>>

\* Mutant of Assembled: the time of the file when the upload ends.
AssembledNow == [meta |-> version, data |-> UNION {uploads[id].parts[i] : i \in Part}]

\* What S3 makes of the parts, with the headers of initiate_multipart.
Assembled == [meta |-> uploads[id].meta,
              data |-> UNION {uploads[id].parts[i] : i \in Part}]

\* S3 completes an upload that is open, given the etags of all its parts.
Accepted(i) == uploads[id].open /\ etags_ \cup {i} = Part

StoreObject ==
    /\ object' = Assembled
    /\ uploads' = [uploads EXCEPT ![id].open = FALSE]

\* The last part is counted and complete_multipart called, lock_ still held.
CompleteUpload(k, i) ==
    /\ part[k][i].pc = "sent" /\ Last
    /\ Count(i)
    /\ Accepted(i)
    /\ StoreObject
    /\ EndPart(k, i)
    /\ UNCHANGED <<version, uploader, id, local, pump, syncs>>

\* complete_multipart fails: S3 may have completed the upload all the same.
CompleteWarns(k, i) ==
    /\ part[k][i].pc = "sent" /\ Last /\ "complete" \in Faults
    /\ Count(i)
    /\ \/ Accepted(i) /\ StoreObject
       \/ UNCHANGED remote
    /\ WarnPart(k, i)
    /\ UNCHANGED <<version, uploader, id, local, pump, syncs>>

\* S3 refuses to complete it.
CompleteDies(k, i) ==
    /\ part[k][i].pc = "sent" /\ Last
    /\ Count(i)
    /\ Accepted(i) => "die" \in Faults
    /\ FailPart(k, i)
    /\ UNCHANGED <<version, remote, uploader, id, local, pump, syncs>>

-----------------------------------------------------------------------------
\* The command is run again; nothing is kept but the file, the object and S3's
\* uploads (and the scratch files that were left behind).
SyncAgain ==
    /\ Drained /\ result_ = {}
    /\ syncs < NumSyncs
    /\ syncs' = syncs + 1
    /\ uploader' = NewUploader
    /\ id' = 0
    /\ num_completed_' = 0
    /\ etags_' = {}
    /\ compressor' = "idle"
    /\ block' = IdleBlocks
    /\ data' = [b \in Block |-> {}]
    /\ num_pending_' = 0
    /\ starts' = 0
    /\ pump' = IdlePumps
    /\ part' = IdleParts
    /\ failed' = FALSE
    /\ UNCHANGED <<version, remote, scratch, result_>>

Finished == Drained /\ result_ = {} /\ syncs = NumSyncs /\ UNCHANGED vars

UploaderStep ==
    \/ Stat \/ Compare \/ HeadWarns \/ HeadRefused
    \/ Initiate \/ InitiateWarns \/ UploaderDies
CompressorStep == Split \/ SplitDies
BlockStep(b) == Compress(b) \/ CompressDies(b) \/ CountBlock(b) \/ FinishBlock(b)
PumpStep(k, f) == ReadSegment(k, f) \/ PumpDies(k, f)
PartStep(k, i) ==
    \/ SendPart(k, i) \/ SendPartWarns(k, i) \/ SendPartDies(k, i)
    \/ CountPart(k, i)
    \/ CompleteUpload(k, i) \/ CompleteWarns(k, i) \/ CompleteDies(k, i)

Next ==
    \/ Modify
    \/ UploaderStep
    \/ CompressorStep
    \/ \E b \in Block : BlockStep(b)
    \/ UnlinkScratch
    \/ \E k \in Start : \E f \in Pump : PumpStep(k, f)
    \/ \E k \in Start : \E i \in Part : PartStep(k, i)
    \/ SyncAgain
    \/ Finished

Spec == Init /\ [][Next]_vars

-----------------------------------------------------------------------------
\* Type invariant.
TypeOK ==
    /\ version \in Version
    /\ object \in [meta : Version \cup {0}, data : SUBSET Version]
    /\ uploads \in Seq([meta : Version, parts : [Part -> SUBSET Version], open : BOOLEAN,
                        run : 1..NumSyncs])
    /\ uploader \in [pc : {"stat", "head", "initiate", "done", "failed"},
                     mtime : Version \cup {0}, attempt : 0..(MaxAttempts - 1)]
    /\ id \in 0..Len(uploads)
    /\ num_completed_ \in Nat
    /\ etags_ \subseteq Part
    /\ compressor \in {"idle", "queued", "done", "failed"}
    /\ block \in [Block -> {"idle", "queued", "compressed", "counted", "done", "failed"}]
    /\ data \in [Block -> SUBSET Version]
    /\ num_pending_ \in 0..NumBlocks
    /\ starts \in 0..Cardinality(Start)
    /\ pump \in [Start -> [Pump -> [pc : {"idle", "queued", "done", "failed"},
                                    todo : SUBSET Part]]]
    /\ part \in [Start -> [Part -> [pc : {"idle", "queued", "sent", "done", "failed"},
                                    data : SUBSET Version, attempt : 0..(MaxAttempts - 1)]]]
    /\ scratch \subseteq (1..NumSyncs) \X Block
    /\ result_ \subseteq Block
    /\ failed \in BOOLEAN
    /\ syncs \in 1..NumSyncs

\* A command that has nothing left to do and no failure to report has stored the
\* object that goes with the file it has seen: the test under lock_
\* (uploader.cpp:76-92) completes every upload, whatever was retried before.
StoredWhenDone ==
    Drained /\ ~failed => object.meta = uploader.mtime /\ object.data # {}

\* The uploads of this command that nobody has completed.
Orphans == {n \in DOMAIN uploads : uploads[n].open /\ uploads[n].run = syncs}

\* Nothing ever aborts an upload.  A command that has nothing left to do and no failure
\* to report leaves at most one open for each time that file_uploader was run again,
\* and no part in any of them: they are those whose answer was lost
\* (connection.cpp:533), and all parts went to the one that was completed.
OrphansEmpty ==
    Drained /\ ~failed =>
        /\ \A n \in Orphans : \A i \in Part : uploads[n].parts[i] = {}
        /\ Cardinality(Orphans) <= uploader.attempt

\* complete_multipart is called with the etags of all parts: whatever was retried
\* or answered late, the counter reaches num_parts_ only when every part has been
\* uploaded (uploader.cpp:78-92).
CompleteSentWhole ==
    [][\A k \in Start : \A i \in Part :
         part[k][i].pc = "sent" /\ part'[k][i].pc # "sent" /\ Last
            => etags_' = Part]_vars

\* What es3 takes for synchronized is equal: an object with the modification time
\* of the file as it is now holds nothing but that version of it, however often
\* the file was modified while it was uploaded.
SyncedMeansEqual == object.meta = version => object.data = {version}

\* Scratch files do not outlive the command: what is left was left by a compress
\* task that failed.
ScratchRemoved ==
    Drained /\ result_ = {} =>
        \A b \in Block : <<syncs, b>> \in scratch => block[b] = "failed"
=============================================================================
