---------------------------- MODULE UploadProofs ----------------------------
(***************************************************************************)
(* Theorems about Upload, for any number of parts, blocks, attempts,       *)
(* modifications of the file and runs of the command, and any faults.      *)
(***************************************************************************)
EXTENDS Upload, FiniteSetTheorems, SequenceTheorems, TLAPS

\* Versions found in something that was read after the file was looked at.
Fresh(found) ==
    /\ found # {}
    /\ \A v \in found : uploader.mtime <= v /\ v <= version

Counted == {b \in Block : block[b] \in {"counted", "done"}}
DoneBlocks == {b \in Block : block[b] = "done"}
DoneParts == {i \in Part : part[1][i].pc = "done"}

\* The command has not initiated an upload.
NothingYet ==
    /\ compressor = "idle" /\ num_pending_ = 0 /\ starts = 0 /\ result_ = {}
    /\ num_completed_ = 0 /\ etags_ = {}
    /\ \A b \in Block : block[b] = "idle" /\ data[b] = {}
    /\ \A k \in Start : \A f \in Pump : pump[k][f].pc = "idle"
    /\ \A k \in Start : \A i \in Part : part[k][i].pc = "idle"

\* The uploader ends when it has initiated the upload, which has the time it has read.
Initiated ==
    /\ uploader.mtime <= version
    /\ uploader.pc \in {"head", "initiate", "done"} => uploader.mtime # 0
    /\ id = 0 => NothingYet
    /\ id # 0 => uploader.pc = "done" /\ uploads[id].meta = uploader.mtime

\* num_pending_ and the calls of start_upload.
Counting ==
    /\ compressor = "done" => num_pending_ = NumBlocks - Cardinality(Counted)
    /\ compressor # "done" => num_pending_ = 0 /\ \A b \in Block : block[b] = "idle"
    /\ IF NumBlocks = 0 THEN starts <= 1 ELSE starts <= Cardinality(DoneBlocks)

\* Nothing that has been read is older than the time the uploader has read.
Compressing ==
    \A b \in Block :
      /\ \A v \in data[b] : uploader.mtime <= v /\ v <= version
      /\ block[b] \in {"compressed", "counted", "done"} => data[b] # {}

Pumping ==
    \A k \in Start : \A f \in Pump : pump[k][f].pc # "idle" => Fresh(Content)

\* Neither is what S3 has.  The parts that are counted have arrived.
Sending ==
    /\ \A n \in DOMAIN uploads : \A i \in Part : \A v \in uploads[n].parts[i] :
         uploads[n].meta <= v /\ v <= version
    /\ \A k \in Start : \A i \in Part :
         /\ part[k][i].pc \in {"queued", "sent"} => Fresh(part[k][i].data)
         /\ part[k][i].pc = "sent" => uploads[id].parts[i] # {}
    /\ \A i \in etags_ : uploads[id].parts[i] # {}

Object ==
    /\ object.meta <= version
    /\ object.meta # 0 =>
         object.data # {} /\ \A v \in object.data : object.meta <= v /\ v <= version

\* A scratch file of this command has a task that is about to record its name, or the
\* name is recorded, or the task has failed.
Scratched ==
    /\ \A s \in scratch : s[1] <= syncs
    /\ \A b \in Block : <<syncs, b>> \in scratch =>
         block[b] \in {"compressed", "failed"} \/ b \in result_

IInv == /\ TypeOK /\ Initiated /\ Counting /\ Compressing /\ Pumping
        /\ Sending /\ Object /\ Scratched

\* Parts that are counted once, as without compression, where there is one start_upload.
CountedOnce ==
    num_completed_ < NumParts =>
      num_completed_ = Cardinality(etags_) /\ etags_ = DoneParts

\* A pump has its parts in hand until they have a task.
Scheduled ==
    /\ \A f \in Pump : \A i \in pump[1][f].todo : i \in PartsOf(f) /\ part[1][i].pc = "idle"
    /\ id # 0 =>
         \A f \in Pump :
           /\ pump[1][f].pc # "idle"
           /\ pump[1][f].pc = "done" => pump[1][f].todo = {}
           /\ \A i \in PartsOf(f) : i \in pump[1][f].todo \/ part[1][i].pc # "idle"

SInv == IInv /\ Scheduled /\ CountedOnce

\* Every failure has been counted.
FailuresCounted ==
    /\ uploader.pc = "failed" => failed
    /\ \A f \in Pump : pump[1][f].pc = "failed" => failed
    /\ \A i \in Part : part[1][i].pc = "failed" => failed

\* Without a failure the upload is completed when the last part is counted.
Completed ==
    /\ uploader.pc = "done" /\ id = 0 => object.meta = uploader.mtime
    /\ num_completed_ >= NumParts /\ ~failed => object.meta = uploader.mtime

EInv == SInv /\ FailuresCounted /\ Completed

\* The uploads of this command but for the one that its parts go to: they were
\* initiated by attempts of the uploader that were repeated, and have no parts.
Lost == {n \in DOMAIN uploads : uploads[n].run = syncs} \ {id}

LostUploads ==
    /\ \A n \in DOMAIN uploads : uploads[n].run <= syncs
    /\ \A n \in Lost : \A i \in Part : uploads[n].parts[i] = {}
    /\ ~failed => Cardinality(Lost) <= uploader.attempt

\* The other one is closed when the last part has been counted.
ClosedAtLast == num_completed_ >= NumParts /\ ~failed => ~uploads[id].open

OInv == EInv /\ LostUploads /\ ClosedAtLast

-----------------------------------------------------------------------------
UploaderType == [pc : {"stat", "head", "initiate", "done", "failed"},
                 mtime : Version \cup {0}, attempt : 0..(MaxAttempts - 1)]
ObjectType == [meta : Version \cup {0}, data : SUBSET Version]
UploadType == [meta : Version, parts : [Part -> SUBSET Version], open : BOOLEAN,
               run : 1..NumSyncs]
BlockPc == {"idle", "queued", "compressed", "counted", "done", "failed"}
PumpType == [pc : {"idle", "queued", "done", "failed"}, todo : SUBSET Part]
PartType == [pc : {"idle", "queued", "sent", "done", "failed"},
             data : SUBSET Version, attempt : 0..(MaxAttempts - 1)]

\* The type invariant with names for the records.
TypeParts ==
    /\ version \in Version
    /\ object \in ObjectType
    /\ uploads \in Seq(UploadType)
    /\ uploader \in UploaderType
    /\ id \in 0..Len(uploads)
    /\ num_completed_ \in Nat
    /\ etags_ \subseteq Part
    /\ compressor \in {"idle", "queued", "done", "failed"}
    /\ block \in [Block -> BlockPc]
    /\ data \in [Block -> SUBSET Version]
    /\ num_pending_ \in 0..NumBlocks
    /\ starts \in 0..Cardinality(Start)
    /\ pump \in [Start -> [Pump -> PumpType]]
    /\ part \in [Start -> [Part -> PartType]]
    /\ scratch \subseteq (1..NumSyncs) \X Block
    /\ result_ \subseteq Block
    /\ failed \in BOOLEAN
    /\ syncs \in 1..NumSyncs

\* The type invariant with its sets of records named.
LEMMA TypeNamed == (TypeOK <=> TypeParts) /\ (TypeOK' <=> TypeParts')
  BY DEF TypeOK, TypeParts, UploaderType, ObjectType, UploadType, BlockPc, PumpType, PartType

\* Blocks, and the calls of start_upload, are finitely many.
LEMMA BlocksFinite ==
  /\ IsFiniteSet(Block) /\ Cardinality(Block) = NumBlocks
  /\ Cardinality(Start) = IF NumBlocks = 0 THEN 1 ELSE NumBlocks
<1>1. IsFiniteSet(Block) /\ Cardinality(Block) = NumBlocks
  BY UploadAssumption, FS_Interval DEF Block
<1>2. Cardinality({1}) = 1
  BY FS_Singleton
<1> QED BY <1>1, <1>2 DEF Start

\* So are parts.
LEMMA PartsFinite == IsFiniteSet(Part) /\ Cardinality(Part) = NumParts
  BY UploadAssumption, FS_Interval DEF Part

\* The tasks at the start of a command.
LEMMA NewTasks ==
  /\ NewUploader \in UploaderType
  /\ IdleBlocks \in [Block -> BlockPc]
  /\ IdlePumps \in [Start -> [Pump -> PumpType]]
  /\ IdleParts \in [Start -> [Part -> PartType]]
<1>1. 0 \in 0..(MaxAttempts - 1)
  BY UploadAssumption
<1>2. NewUploader \in UploaderType
  BY <1>1 DEF NewUploader, UploaderType
<1>3. [pc |-> "idle", todo |-> {}] \in PumpType
  BY DEF PumpType
<1>4. [pc |-> "idle", data |-> {}, attempt |-> 0] \in PartType
  BY <1>1 DEF PartType
<1>5. IdleBlocks \in [Block -> BlockPc]
  BY DEF IdleBlocks, BlockPc
<1> HIDE DEF PumpType, PartType
<1> QED BY <1>2, <1>3, <1>4, <1>5 DEF IdlePumps, IdleParts

Closed == [uploads EXCEPT ![id].open = FALSE]

\* A part that S3 stores, or the end of an upload, changes one upload and no time.
LEMMA UploadChanges ==
  ASSUME TypeOK, id # 0, NEW k \in Start, NEW i \in Part
  PROVE  /\ id \in DOMAIN uploads
         /\ uploads[id] \in UploadType
         /\ Stored(k, i) \in Seq(UploadType) /\ Len(Stored(k, i)) = Len(uploads)
         /\ DOMAIN Stored(k, i) = DOMAIN uploads
         /\ \A n \in DOMAIN uploads :
              /\ Stored(k, i)[n].meta = uploads[n].meta
              /\ Stored(k, i)[n].run = uploads[n].run
              /\ Stored(k, i)[n].open => uploads[n].open
              /\ \A j \in Part :
                   Stored(k, i)[n].parts[j] =
                     IF n = id /\ j = i THEN part[k][i].data ELSE uploads[n].parts[j]
         /\ Closed \in Seq(UploadType)
         /\ Len(Closed) = Len(uploads)
         /\ DOMAIN Closed = DOMAIN uploads
         /\ \A n \in DOMAIN uploads :
              /\ Closed[n].meta = uploads[n].meta
              /\ Closed[n].run = uploads[n].run
              /\ Closed[n].parts = uploads[n].parts
              /\ Closed[n].open => uploads[n].open /\ n # id
<1>1. /\ uploads \in Seq(UploadType) /\ id \in 1..Len(uploads)
      /\ DOMAIN uploads = 1..Len(uploads) /\ part[k][i].data \in SUBSET Version
  BY TypeNamed DEF TypeParts, PartType
<1>2. \A n \in DOMAIN uploads : uploads[n] \in UploadType
  BY <1>1, ElementOfSeq
<1> DEFINE stored == [uploads[id] EXCEPT !.parts[i] = part[k][i].data]
<1> DEFINE closed == [uploads[id] EXCEPT !.open = FALSE]
<1>3. stored \in UploadType /\ closed \in UploadType
  BY <1>1, <1>2 DEF UploadType
<1>4. /\ Stored(k, i) = [uploads EXCEPT ![id] = stored]
      /\ Closed = [uploads EXCEPT ![id] = closed]
  BY <1>1 DEF Stored, Closed
<1>5. /\ stored.meta = uploads[id].meta /\ stored.run = uploads[id].run
      /\ stored.open = uploads[id].open /\ closed.run = uploads[id].run
      /\ ~closed.open
      /\ \A j \in Part : stored.parts[j] = IF j = i THEN part[k][i].data ELSE uploads[id].parts[j]
      /\ closed.meta = uploads[id].meta /\ closed.parts = uploads[id].parts
  BY <1>1, <1>2 DEF UploadType
<1>6. ASSUME NEW u \in UploadType
      PROVE  /\ [uploads EXCEPT ![id] = u] \in Seq(UploadType)
             /\ Len([uploads EXCEPT ![id] = u]) = Len(uploads)
             /\ DOMAIN [uploads EXCEPT ![id] = u] = DOMAIN uploads
             /\ \A n \in DOMAIN uploads :
                  [uploads EXCEPT ![id] = u][n] = IF n = id THEN u ELSE uploads[n]
  BY <1>1, ExceptSeq
<1>7. /\ Stored(k, i) \in Seq(UploadType) /\ Len(Stored(k, i)) = Len(uploads)
      /\ DOMAIN Stored(k, i) = DOMAIN uploads
      /\ \A n \in DOMAIN uploads :
           Stored(k, i)[n] = IF n = id THEN stored ELSE uploads[n]
  <2> HIDE DEF stored, closed, UploadType
  <2> QED BY <1>3, <1>4, <1>6
<1>8. /\ Closed \in Seq(UploadType)
      /\ Len(Closed) = Len(uploads)
      /\ DOMAIN Closed = DOMAIN uploads
      /\ \A n \in DOMAIN uploads :
           Closed[n] = IF n = id THEN closed ELSE uploads[n]
  <2> HIDE DEF stored, closed, UploadType
  <2> QED BY <1>3, <1>4, <1>6
<1>9. id \in DOMAIN uploads /\ uploads[id] \in UploadType
  BY <1>1, <1>2
<1>10. \A n \in DOMAIN uploads :
         /\ Stored(k, i)[n].meta = uploads[n].meta
         /\ Stored(k, i)[n].run = uploads[n].run
         /\ Stored(k, i)[n].open => uploads[n].open
         /\ \A j \in Part :
              Stored(k, i)[n].parts[j] =
                IF n = id /\ j = i THEN part[k][i].data ELSE uploads[n].parts[j]
  <2> HIDE DEF stored
  <2> QED BY <1>5, <1>7
<1>11. \A n \in DOMAIN uploads :
         /\ Closed[n].meta = uploads[n].meta
         /\ Closed[n].run = uploads[n].run
         /\ Closed[n].parts = uploads[n].parts
         /\ Closed[n].open => uploads[n].open /\ n # id
  <2> HIDE DEF closed
  <2> QED BY <1>5, <1>8
<1> HIDE DEF stored, closed, UploadType
<1> QED BY <1>7, <1>8, <1>9, <1>10, <1>11

\* An upload that S3 initiates is the last one, and has no parts.
LEMMA UploadInitiated ==
  ASSUME TypeOK, uploader.mtime # 0
  PROVE  LET more == Append(uploads, NewUpload) IN
         /\ more \in Seq(UploadType) /\ Len(more) = Len(uploads) + 1
         /\ DOMAIN more = 1..(Len(uploads) + 1) /\ DOMAIN uploads = 1..Len(uploads)
         /\ \A n \in DOMAIN uploads : more[n] = uploads[n]
         /\ more[Len(uploads) + 1] = NewUpload
         /\ NewUpload.meta = uploader.mtime /\ NewUpload.run = syncs
         /\ \A i \in Part : NewUpload.parts[i] = {}
<1>1. uploads \in Seq(UploadType) /\ uploader \in UploaderType /\ syncs \in 1..NumSyncs
  BY TypeNamed DEF TypeParts
<1>2. NewUpload \in UploadType
  BY <1>1 DEF NewUpload, UploadType, UploaderType
<1>3. NewUpload.meta = uploader.mtime /\ NewUpload.run = syncs /\ \A i \in Part : NewUpload.parts[i] = {}
  BY DEF NewUpload
<1>4. LET more == Append(uploads, NewUpload) IN
      /\ more \in Seq(UploadType) /\ Len(more) = Len(uploads) + 1
      /\ \A n \in 1..Len(uploads) : more[n] = uploads[n]
      /\ more[Len(uploads) + 1] = NewUpload
  BY <1>1, <1>2, AppendProperties
<1>5. DOMAIN Append(uploads, NewUpload) = 1..(Len(uploads) + 1) /\ DOMAIN uploads = 1..Len(uploads)
  BY <1>1, <1>4
<1> HIDE DEF UploadType
<1> QED BY <1>3, <1>4, <1>5

-----------------------------------------------------------------------------
\* Before the upload is initiated only the uploader does anything.
LEMMA UploaderAlone ==
  ASSUME TypeOK, Initiated, UploaderStep
  PROVE  /\ id = 0 /\ NothingYet /\ uploader.pc \in {"stat", "head", "initiate"}
         /\ UNCHANGED <<version, object, num_completed_, etags_, block, data, num_pending_,
                        part, scratch, result_, syncs>>
<1>1. uploader.pc \in {"stat", "head", "initiate"}
  BY DEF UploaderStep, Stat, Compare, HeadWarns, HeadRefused, Initiate, InitiateWarns,
     UploaderDies
<1>2. id = 0 /\ NothingYet
  BY <1>1 DEF Initiated
<1> QED BY <1>1, <1>2 DEF UploaderStep, Stat, Compare, HeadWarns, HeadRefused, Initiate,
     InitiateWarns, UploaderDies, local, remote, content

\* Afterwards it does nothing any more.
LEMMA OthersAfter ==
  ASSUME TypeOK, Initiated,
         \/ CompressorStep \/ UnlinkScratch
         \/ \E b \in Block : BlockStep(b)
         \/ \E k \in Start : \E f \in Pump : PumpStep(k, f)
         \/ \E k \in Start : \E i \in Part : PartStep(k, i)
  PROVE  /\ id # 0 /\ uploader.pc = "done" /\ uploads[id].meta = uploader.mtime
         /\ UNCHANGED <<version, uploader, id, syncs>>
<1> USE DEF remote, content, local
<1>1. CASE CompressorStep
  BY <1>1 DEF CompressorStep, Split, SplitDies, Initiated, NothingYet
<1>2. CASE UnlinkScratch
  BY <1>2 DEF UnlinkScratch, Initiated, NothingYet
<1>3. ASSUME NEW b \in Block, BlockStep(b)
      PROVE  block[b] # "idle" /\ UNCHANGED <<version, uploader, id, syncs>>
  BY <1>3 DEF BlockStep, Compress, CompressDies, CountBlock, FinishBlock
<1>4. ASSUME NEW k \in Start, NEW f \in Pump, PumpStep(k, f)
      PROVE  pump[k][f].pc # "idle" /\ UNCHANGED <<version, uploader, id, syncs>>
  BY <1>4 DEF PumpStep, ReadSegment, PumpDies
<1>5. ASSUME NEW k \in Start, NEW i \in Part, PartStep(k, i)
      PROVE  part[k][i].pc # "idle" /\ UNCHANGED <<version, uploader, id, syncs>>
  BY <1>5 DEF PartStep, SendPart, SendPartWarns, SendPartDies, CountPart, CompleteUpload,
     CompleteWarns, CompleteDies
<1> QED BY <1>1, <1>2, <1>3, <1>4, <1>5 DEF Initiated, NothingYet

\* What a part task makes of what S3 has.
LEMMA PartChanges ==
  ASSUME TypeOK, Initiated, NEW k \in Start, NEW i \in Part, PartStep(k, i)
  PROVE  /\ uploads' \in Seq(UploadType) /\ Len(uploads') = Len(uploads)
         /\ DOMAIN uploads' = DOMAIN uploads
         /\ \A n \in DOMAIN uploads :
              /\ uploads'[n].meta = uploads[n].meta
              /\ uploads'[n].run = uploads[n].run
              /\ uploads'[n].open => uploads[n].open
         /\ \A n \in DOMAIN uploads : \A j \in Part :
              \/ uploads'[n].parts[j] = uploads[n].parts[j]
              \/ /\ n = id /\ j = i /\ part[k][i].pc = "queued"
                 /\ uploads'[n].parts[j] = part[k][i].data
         /\ SendPart(k, i) => uploads'[id].parts[i] = part[k][i].data
         /\ CompleteUpload(k, i) => ~uploads'[id].open
         /\ UNCHANGED <<compressor, block, data, num_pending_, starts, pump, scratch, result_>>
<1>1. id # 0
  BY OthersAfter
<1>2. uploads \in Seq(UploadType)
  BY TypeNamed DEF TypeParts
<1> USE DEF local, remote
<1>3. UNCHANGED <<compressor, block, data, num_pending_, starts, pump, scratch, result_>>
  BY DEF PartStep, SendPart, SendPartWarns, SendPartDies, CountPart, CompleteUpload,
     CompleteWarns, CompleteDies
<1>4. CASE part[k][i].pc = "queued"
  <2>1. /\ uploads' \in {uploads, Stored(k, i)} /\ (SendPart(k, i) => uploads' = Stored(k, i))
        /\ ~CompleteUpload(k, i)
    BY <1>4 DEF PartStep, SendPart, SendPartWarns, SendPartDies, CountPart, CompleteUpload,
       CompleteWarns, CompleteDies
  <2> HIDE DEF UploadType
  <2> QED BY <1>1, <1>2, <1>3, <1>4, <2>1, UploadChanges
<1>5. CASE part[k][i].pc # "queued"
  <2>1. /\ uploads' \in {uploads, Closed} /\ ~SendPart(k, i)
        /\ CompleteUpload(k, i) => uploads' = Closed
    BY <1>5 DEF PartStep, SendPart, SendPartWarns, SendPartDies, CountPart, CompleteUpload,
       CompleteWarns, CompleteDies, StoreObject, Closed
  <2> HIDE DEF UploadType
  <2> QED BY <1>1, <1>2, <1>3, <2>1, UploadChanges
<1> QED BY <1>4, <1>5

\* One block more.
LEMMA OneMore ==
  ASSUME NEW S \in SUBSET Block, NEW b \in Block \ S
  PROVE  /\ Cardinality(S) \in Nat
         /\ Cardinality(S \cup {b}) = Cardinality(S) + 1
         /\ Cardinality(S) + 1 <= NumBlocks
<1>1. IsFiniteSet(S) /\ Cardinality(S) \in Nat
  BY BlocksFinite, FS_Subset, FS_CardinalityType
<1>2. Cardinality(S \cup {b}) = Cardinality(S) + 1
  BY <1>1, FS_AddElement
<1>3. Cardinality(S \cup {b}) <= NumBlocks
  BY BlocksFinite, FS_Subset
<1> QED BY <1>1, <1>2, <1>3

-----------------------------------------------------------------------------
\* The command starts in a state of the invariant.
LEMMA InitHolds == Init => IInv
<1> SUFFICES ASSUME Init PROVE IInv
  OBVIOUS
<1>1. TypeOK
  <2>1. /\ version \in Version /\ object \in ObjectType
        /\ 1 \in 1..NumSyncs /\ 0 \in 0..NumBlocks /\ 0 \in 0..Cardinality(Start)
    BY UploadAssumption, BlocksFinite DEF Init, Version, ObjectType, NoObject
  <2>2. <<>> \in Seq(UploadType) /\ Len(<<>>) = 0
    BY EmptySeq
  <2>3. data \in [Block -> SUBSET Version]
    BY DEF Init
  <2>4. id \in 0..Len(uploads)
    BY <2>2 DEF Init
  <2> HIDE DEF UploadType
  <2> QED BY <2>1, <2>2, <2>3, <2>4, NewTasks, TypeNamed DEF Init, TypeParts
<1> USE DEF Init, NewUploader, IdleBlocks, IdlePumps, IdleParts
<1>2. Initiated
  BY DEF Initiated, NothingYet
<1>3. Counting
  <2>1. IsFiniteSet(DoneBlocks)
    BY BlocksFinite, FS_Subset DEF DoneBlocks
  <2> QED BY <2>1, FS_CardinalityType DEF Counting
<1>4. Compressing /\ Pumping /\ Object /\ Scratched
  BY DEF Compressing, Pumping, Object, NoObject, Scratched
<1>5. Sending
  BY DEF Sending
<1> QED BY <1>1, <1>2, <1>3, <1>4, <1>5 DEF IInv

\* num_pending_ counts the blocks that are not counted yet, and start_upload is called
\* by blocks that are done.
LEMMA CountingStep == IInv /\ [Next]_vars => Counting'
<1> SUFFICES ASSUME IInv, [Next]_vars PROVE Counting'
  OBVIOUS
<1>a. TypeOK /\ Initiated /\ Counting
  BY DEF IInv
<1>b. /\ block \in [Block -> BlockPc] /\ starts \in Nat /\ num_pending_ \in 0..NumBlocks
      /\ NumBlocks = 0 => Block = {}
  BY <1>a, TypeNamed, BlocksFinite, UploadAssumption DEF TypeParts, Block
<1>c. ASSUME UNCHANGED <<compressor, block, num_pending_, starts>> PROVE Counting'
  BY <1>a, <1>c DEF Counting, Counted, DoneBlocks
<1>d. Cardinality(Counted) \in Nat /\ Cardinality(DoneBlocks) \in Nat
  BY BlocksFinite, FS_Subset, FS_CardinalityType DEF Counted, DoneBlocks
<1> USE DEF local
<1>1. CASE UploaderStep
  <2>1. /\ compressor = "idle" /\ starts = 0 /\ block' = block /\ num_pending_' = num_pending_
        /\ num_pending_ = 0 /\ \A b \in Block : block[b] = "idle"
    BY <1>1, <1>a, UploaderAlone DEF NothingYet
  <2>2. compressor' # "done" /\ (starts' # starts => NumBlocks = 0 /\ starts' = 1)
    BY <1>1, <2>1 DEF UploaderStep, Stat, Compare, HeadWarns, HeadRefused, Initiate, StartPumps,
       InitiateWarns, UploaderDies
  <2> QED BY <1>a, <2>1, <2>2 DEF Counting, DoneBlocks
<1>2. CASE CompressorStep
  <2>1. CASE Split
    <3>1. /\ \A b \in Block : block'[b] = "queued"
          /\ compressor' = "done" /\ num_pending_' = NumBlocks /\ starts' = starts
      BY <2>1 DEF Split
    <3>2. Counted' = {} /\ DoneBlocks' = {}
      BY <3>1 DEF Counted, DoneBlocks
    <3>3. DoneBlocks = {}
      BY <2>1, <1>a DEF Split, Counting, DoneBlocks
    <3> QED BY <1>a, <3>1, <3>2, <3>3, FS_EmptySet, UploadAssumption DEF Counting
  <2>2. CASE SplitDies
    <3>1. /\ compressor = "queued" /\ compressor' = "failed"
          /\ UNCHANGED <<block, num_pending_, starts>>
      BY <2>2 DEF SplitDies
    <3> QED BY <1>a, <3>1 DEF Counting, DoneBlocks
  <2> QED BY <1>2, <2>1, <2>2 DEF CompressorStep
<1>3. ASSUME NEW b \in Block, BlockStep(b) PROVE Counting'
  <2>1. compressor = "done" /\ compressor' = "done" /\ NumBlocks # 0
    BY <1>3, <1>a, <1>b DEF BlockStep, Compress, CompressDies, CountBlock, FinishBlock, Counting
  <2>2. CASE Compress(b) \/ CompressDies(b)
    <3>1. /\ block[b] = "queued" /\ block'[b] \in {"compressed", "failed"}
          /\ \A c \in Block \ {b} : block'[c] = block[c]
          /\ UNCHANGED <<num_pending_, starts>>
      BY <2>2, <1>b DEF Compress, CompressDies
    <3>2. Counted' = Counted /\ DoneBlocks' = DoneBlocks
      BY <3>1 DEF Counted, DoneBlocks
    <3> QED BY <1>a, <2>1, <3>1, <3>2 DEF Counting
  <2>3. CASE CountBlock(b)
    <3>1. /\ block[b] = "compressed" /\ block'[b] = "counted"
          /\ \A c \in Block \ {b} : block'[c] = block[c]
          /\ num_pending_' = num_pending_ - 1 /\ starts' = starts
      BY <2>3, <1>b DEF CountBlock
    <3>2. Counted' = Counted \cup {b} /\ b \notin Counted /\ DoneBlocks' = DoneBlocks
      BY <3>1 DEF Counted, DoneBlocks
    <3>3. Cardinality(Counted') = Cardinality(Counted) + 1
      BY <3>2, OneMore DEF Counted
    <3> QED BY <1>a, <1>d, <2>1, <3>1, <3>2, <3>3, UploadAssumption DEF Counting
  <2>4. CASE FinishBlock(b)
    <3>1. /\ block[b] = "counted" /\ block'[b] = "done"
          /\ \A c \in Block \ {b} : block'[c] = block[c]
          /\ num_pending_' = num_pending_ /\ starts' \in {starts, starts + 1}
      BY <2>4, <1>b DEF FinishBlock, StartPumps
    <3>2. Counted' = Counted /\ DoneBlocks' = DoneBlocks \cup {b} /\ b \notin DoneBlocks
      BY <3>1 DEF Counted, DoneBlocks
    <3>3. Cardinality(DoneBlocks') = Cardinality(DoneBlocks) + 1
      BY <3>2, OneMore DEF DoneBlocks
    <3> QED BY <1>a, <1>b, <1>d, <2>1, <3>1, <3>2, <3>3 DEF Counting
  <2> QED BY <1>3, <2>2, <2>3, <2>4 DEF BlockStep
<1>4. CASE Modify \/ UnlinkScratch \/ Finished \/ UNCHANGED vars
  BY <1>4, <1>c DEF Modify, UnlinkScratch, Finished, vars
<1>5. ASSUME NEW k \in Start, NEW f \in Pump, PumpStep(k, f) PROVE Counting'
  BY <1>5, <1>c DEF PumpStep, ReadSegment, PumpDies
<1>6. ASSUME NEW k \in Start, NEW i \in Part, PartStep(k, i) PROVE Counting'
  BY <1>6, <1>a, <1>c, PartChanges
<1>7. CASE SyncAgain
  <2>1. /\ compressor' = "idle" /\ num_pending_' = 0 /\ starts' = 0
        /\ \A b \in Block : block'[b] = "idle"
    BY <1>7 DEF SyncAgain, IdleBlocks
  <2>2. DoneBlocks' = {}
    BY <2>1 DEF DoneBlocks
  <2> QED BY <2>1, <2>2, FS_EmptySet DEF Counting
<1> QED BY <1>1, <1>2, <1>3, <1>4, <1>5, <1>6, <1>7 DEF Next

\* Parts, the pieces of code that run for each, and their records.
LEMMA PartTypes ==
  ASSUME TypeOK, NEW k \in Start, NEW i \in Part
  PROVE  /\ \A c \in {"queued", "sent", "done", "failed"} :
              [part EXCEPT ![k][i].pc = c] \in [Start -> [Part -> PartType]]
         /\ EndPart(k, i) \/ FailPart(k, i) \/ WarnPart(k, i) =>
              part' \in [Start -> [Part -> PartType]] /\ failed' \in BOOLEAN
         /\ \A d \in SUBSET Version :
              [part EXCEPT ![k][i] = [pc |-> "queued", data |-> d, attempt |-> 0]]
                \in [Start -> [Part -> PartType]]
<1>1. part \in [Start -> [Part -> PartType]]
  BY TypeNamed DEF TypeParts
<1>2. ASSUME NEW p \in PartType
      PROVE  [part EXCEPT ![k][i] = p] \in [Start -> [Part -> PartType]]
  <2> HIDE DEF PartType
  <2> QED BY <1>1
<1>p. part[k][i] \in PartType
  BY <1>1
<1>3. ASSUME NEW c \in {"queued", "sent", "done", "failed"}
      PROVE  [part[k][i] EXCEPT !.pc = c] \in PartType
  BY <1>p DEF PartType
<1>4. ASSUME part[k][i].attempt + 1 < MaxAttempts
      PROVE  [part[k][i] EXCEPT !.pc = "queued", !.attempt = part[k][i].attempt + 1] \in PartType
  <2>1. part[k][i].attempt + 1 \in 0..(MaxAttempts - 1)
    BY <1>p, <1>4, UploadAssumption DEF PartType
  <2> QED BY <1>p, <2>1 DEF PartType
<1>5. [part EXCEPT ![k][i].pc = "queued", ![k][i].attempt = @ + 1]
        = [part EXCEPT ![k][i] = [@ EXCEPT !.pc = "queued", !.attempt = @ + 1]]
  BY <1>1 DEF PartType
<1>6. ASSUME NEW d \in SUBSET Version
      PROVE  [pc |-> "queued", data |-> d, attempt |-> 0] \in PartType
  BY UploadAssumption DEF PartType
<1> HIDE DEF PartType
<1>7. \A c \in {"queued", "sent", "done", "failed"} :
        [part EXCEPT ![k][i].pc = c] \in [Start -> [Part -> PartType]]
  BY <1>2, <1>3
<1>8. part[k][i].attempt + 1 < MaxAttempts =>
        [part EXCEPT ![k][i].pc = "queued", ![k][i].attempt = @ + 1]
          \in [Start -> [Part -> PartType]]
  <2> DEFINE warned == [part[k][i] EXCEPT !.pc = "queued", !.attempt = part[k][i].attempt + 1]
  <2>1. [part EXCEPT ![k][i].pc = "queued", ![k][i].attempt = @ + 1]
          = [part EXCEPT ![k][i] = warned]
    BY <1>1, <1>p DEF PartType
  <2>2. part[k][i].attempt + 1 < MaxAttempts => warned \in PartType
    BY <1>4
  <2> HIDE DEF warned
  <2> QED BY <1>2, <2>1, <2>2
<1>9. failed \in BOOLEAN
  BY TypeNamed DEF TypeParts
<1> QED BY <1>2, <1>6, <1>7, <1>8, <1>9 DEF EndPart, FailPart, WarnPart

\* Nobody invents versions.
LEMMA ContentType == TypeOK => Content \in SUBSET Version
  BY DEF TypeOK, Content

\* Pumps that start_upload schedules.
LEMMA PumpTypes ==
  TypeOK => \A k : [pump EXCEPT ![k] = [f \in Pump |-> [pc |-> "queued", todo |-> PartsOf(f)]]]
                    \in [Start -> [Pump -> PumpType]]
<1> SUFFICES ASSUME TypeOK, NEW k
             PROVE  [pump EXCEPT ![k] = [f \in Pump |-> [pc |-> "queued", todo |-> PartsOf(f)]]]
                      \in [Start -> [Pump -> PumpType]]
  OBVIOUS
<1>1. \A f \in Pump : [pc |-> "queued", todo |-> PartsOf(f)] \in PumpType
  BY DEF PumpType, PartsOf
<1>2. pump \in [Start -> [Pump -> PumpType]]
  BY TypeNamed DEF TypeParts
<1>3. [f \in Pump |-> [pc |-> "queued", todo |-> PartsOf(f)]] \in [Pump -> PumpType]
  <2> HIDE DEF PumpType
  <2> QED BY <1>1
<1> DEFINE new == [f \in Pump |-> [pc |-> "queued", todo |-> PartsOf(f)]]
<1> HIDE DEF PumpType, new
<1> QED BY <1>2, <1>3 DEF new

\* Every step keeps the types.
LEMMA TypeStep == IInv /\ [Next]_vars => TypeOK'
<1> SUFFICES ASSUME IInv, [Next]_vars PROVE TypeParts'
  BY TypeNamed
<1>a. TypeOK /\ TypeParts /\ Initiated /\ Counting /\ Counting'
  BY TypeNamed, CountingStep DEF IInv
<1>b. starts \in Nat /\ num_pending_ \in Nat /\ NumBlocks \in Nat
  BY <1>a, BlocksFinite, UploadAssumption DEF TypeParts
<1> HIDE DEF UploadType, PartType, PumpType, BlockPc
<1>1. CASE Modify
  BY <1>1, <1>a, UploadAssumption DEF Modify, TypeParts, Version, remote, content, local
<1>2. CASE UploaderStep
  <2>1. /\ id = 0 /\ NothingYet /\ uploader.pc \in {"stat", "head", "initiate"}
        /\ UNCHANGED <<version, object, num_completed_, etags_, block, data, num_pending_,
                       part, scratch, result_, syncs>>
    BY <1>2, <1>a, UploaderAlone
  <2>2. uploader' \in UploaderType /\ failed' \in BOOLEAN
    <3> USE <1>a DEF TypeParts, UploaderType
    <3>1. CASE Stat \/ Compare \/ HeadRefused \/ Initiate \/ UploaderDies
      BY <3>1 DEF Stat, Compare, HeadRefused, Initiate, UploaderDies
    <3>2. CASE HeadWarns \/ InitiateWarns
      <4>1. CASE uploader.attempt + 1 < MaxAttempts
        BY <3>2, <4>1, UploadAssumption DEF HeadWarns, InitiateWarns, WarnUploader, NewUploader
      <4>2. CASE ~(uploader.attempt + 1 < MaxAttempts)
        BY <3>2, <4>2 DEF HeadWarns, InitiateWarns, WarnUploader
      <4> QED BY <4>1, <4>2
    <3> QED BY <1>2, <3>1, <3>2 DEF UploaderStep
  <2>3. uploads' \in {uploads, Append(uploads, NewUpload)} /\
        (uploads' # uploads => uploader.pc = "initiate")
    BY <1>2 DEF UploaderStep, Stat, Compare, HeadWarns, HeadRefused, Initiate, InitiateWarns,
       UploaderDies, remote
  <2>4. /\ uploads' \in Seq(UploadType) /\ Len(uploads) \in Nat
        /\ Len(uploads') \in {Len(uploads), Len(uploads) + 1}
    BY <1>a, <2>3, UploadInitiated, LenProperties DEF TypeParts, Initiated
  <2>5. id' \in 0..Len(uploads')
    BY <1>2, <1>a, <2>1, <2>4, UploadInitiated DEF UploaderStep, Stat, Compare, HeadWarns,
       HeadRefused, Initiate, InitiateWarns, UploaderDies, content, Initiated
  <2>6. starts' \in 0..Cardinality(Start) /\ pump' \in [Start -> [Pump -> PumpType]]
    <3>1. CASE starts' = starts /\ pump' = pump
      BY <3>1, <1>a DEF TypeParts
    <3>2. CASE NumBlocks = 0 /\ StartPumps(1)
      <4>1. 1 \in 0..Cardinality(Start)
        BY <3>2, BlocksFinite
      <4> QED BY <3>2, <1>a, <4>1, PumpTypes DEF StartPumps
    <3> QED BY <1>2, <3>1, <3>2 DEF UploaderStep, Stat, Compare, HeadWarns, HeadRefused,
         Initiate, InitiateWarns, UploaderDies, local
  <2>7. compressor' \in {"idle", "queued", "done", "failed"}
    BY <1>2, <1>a DEF UploaderStep, Stat, Compare, HeadWarns, HeadRefused, Initiate,
       InitiateWarns, UploaderDies, local, TypeParts
  <2> HIDE DEF UploaderType
  <2> QED BY <1>a, <2>1, <2>2, <2>4, <2>5, <2>6, <2>7 DEF TypeParts
<1>3. CASE CompressorStep \/ UnlinkScratch
  <2>1. CASE Split
    BY <2>1, <1>a, <1>b DEF Split, remote, content, TypeParts, BlockPc
  <2>2. CASE SplitDies
    BY <2>2, <1>a DEF SplitDies, remote, content, TypeParts
  <2>3. CASE UnlinkScratch
    BY <2>3, <1>a DEF UnlinkScratch, remote, content, TypeParts
  <2> QED BY <1>3, <2>1, <2>2, <2>3 DEF CompressorStep
<1>4. ASSUME NEW b \in Block, BlockStep(b) PROVE TypeParts'
  <2> USE DEF remote, content
  <2>1. CASE Compress(b) \/ CompressDies(b)
    <3>1. block' \in [Block -> BlockPc]
      BY <2>1, <1>a DEF Compress, CompressDies, TypeParts, BlockPc
    <3>2. data' \in [Block -> SUBSET Version]
      BY <2>1, <1>a DEF Compress, CompressDies, TypeParts
    <3>3. scratch' \subseteq (1..NumSyncs) \X Block /\ failed' \in BOOLEAN
      <4>1. <<syncs, b>> \in (1..NumSyncs) \X Block /\ failed \in BOOLEAN
        BY <1>a DEF TypeParts
      <4>2. scratch' \in {scratch, scratch \cup {<<syncs, b>>}} /\ failed' \in {failed, TRUE}
        BY <2>1 DEF Compress, CompressDies
      <4>3. scratch \subseteq (1..NumSyncs) \X Block
        BY <1>a DEF TypeParts
      <4> QED BY <4>1, <4>2, <4>3
    <3>4. UNCHANGED <<version, object, uploads, uploader, id, num_completed_, etags_, compressor,
                      num_pending_, starts, pump, part, result_, syncs>>
      BY <2>1 DEF Compress, CompressDies
    <3> QED BY <1>a, <3>1, <3>2, <3>3, <3>4 DEF TypeParts
  <2>2. CASE CountBlock(b)
    <3>1. block[b] = "compressed" /\ num_pending_' = num_pending_ - 1
      BY <2>2 DEF CountBlock
    <3>2. compressor = "done" /\ b \notin Counted
      BY <1>a, <3>1 DEF Counting, Counted
    <3>3. num_pending_' \in 0..NumBlocks
      <4>1. Counted \in SUBSET Block /\ b \in Block \ Counted
        BY <3>2 DEF Counted
      <4>2. Cardinality(Counted) \in Nat /\ Cardinality(Counted) + 1 <= NumBlocks
        BY <4>1, OneMore
      <4>3. num_pending_ = NumBlocks - Cardinality(Counted)
        BY <1>a, <3>2 DEF Counting
      <4> QED BY <1>b, <3>1, <4>2, <4>3
    <3> QED BY <2>2, <1>a, <3>3 DEF CountBlock, NameScratch, TypeParts, BlockPc
  <2>3. CASE FinishBlock(b)
    <3>1. NumBlocks # 0
      BY <1>b DEF Block
    <3>2. starts' <= Cardinality(DoneBlocks') /\ starts' \in Nat
      BY <2>3, <1>a, <1>b, <3>1 DEF FinishBlock, StartPumps, Counting
    <3>3. Cardinality(DoneBlocks') <= NumBlocks /\ Cardinality(DoneBlocks') \in Nat
      BY BlocksFinite, FS_Subset, FS_CardinalityType DEF DoneBlocks
    <3>4. starts' \in 0..Cardinality(Start)
      BY <1>b, <3>1, <3>2, <3>3, BlocksFinite
    <3>5. pump' \in [Start -> [Pump -> PumpType]]
      <4>1. CASE starts' = starts /\ pump' = pump
        BY <4>1, <1>a DEF TypeParts
      <4>2. CASE StartPumps(starts + 1)
        BY <4>2, <1>a, PumpTypes DEF StartPumps
      <4> QED BY <2>3, <4>1, <4>2 DEF FinishBlock
    <3> QED BY <2>3, <1>a, <3>4, <3>5 DEF FinishBlock, TypeParts, BlockPc
  <2> QED BY <1>4, <2>1, <2>2, <2>3 DEF BlockStep
<1>5. ASSUME NEW k \in Start, NEW f \in Pump, PumpStep(k, f) PROVE TypeParts'
  <2> USE DEF remote, content, local
  <2>1. pump' \in [Start -> [Pump -> PumpType]]
    <3>1. \A p \in PumpType : [pump EXCEPT ![k][f] = p] \in [Start -> [Pump -> PumpType]]
      BY <1>a DEF TypeParts
    <3>2. pump[k][f] \in PumpType
      BY <1>a DEF TypeParts
    <3>3. \E p \in PumpType : pump' = [pump EXCEPT ![k][f] = p]
      <4>1. CASE PumpDies(k, f)
        <5>1. [pump[k][f] EXCEPT !.pc = "failed"] \in PumpType
          BY <3>2 DEF PumpType
        <5>2. pump' = [pump EXCEPT ![k][f] = [pump[k][f] EXCEPT !.pc = "failed"]]
          BY <4>1, <1>a DEF PumpDies, TypeParts
        <5> QED BY <5>1, <5>2
      <4>2. CASE ReadSegment(k, f)
        <5>1. PICK i \in pump[k][f].todo :
                pump' = [pump EXCEPT ![k][f] =
                           [pc |-> IF @.todo = {i} THEN "done" ELSE "queued",
                            todo |-> @.todo \ {i}]]
          BY <4>2 DEF ReadSegment
        <5>2. [pc |-> IF pump[k][f].todo = {i} THEN "done" ELSE "queued",
               todo |-> pump[k][f].todo \ {i}] \in PumpType
          BY <3>2 DEF PumpType
        <5>3. pump' = [pump EXCEPT ![k][f] =
                         [pc |-> IF pump[k][f].todo = {i} THEN "done" ELSE "queued",
                          todo |-> pump[k][f].todo \ {i}]]
          BY <5>1, <1>a DEF TypeParts
        <5> QED BY <5>2, <5>3
      <4> QED BY <1>5, <4>1, <4>2 DEF PumpStep
    <3> QED BY <3>1, <3>3
  <2>2. part' \in [Start -> [Part -> PartType]]
    <3>1. pump[k][f].todo \subseteq Part
      BY <1>a DEF TypeParts, PumpType
    <3>2. CASE PumpDies(k, f)
      BY <3>2, <1>a DEF PumpDies, TypeParts
    <3>3. CASE ReadSegment(k, f)
      <4>1. PICK i \in Part :
              part' = [part EXCEPT ![k][i] = [pc |-> "queued", data |-> Content, attempt |-> 0]]
        BY <3>1, <3>3 DEF ReadSegment
      <4> QED BY <1>a, <4>1, PartTypes, ContentType
    <3> QED BY <1>5, <3>2, <3>3 DEF PumpStep
  <2>3. failed' \in BOOLEAN
    BY <1>5, <1>a DEF PumpStep, ReadSegment, PumpDies, TypeParts
  <2>4. UNCHANGED <<version, object, uploads, uploader, id, num_completed_, etags_, compressor,
                    block, data, num_pending_, starts, scratch, result_, syncs>>
    BY <1>5 DEF PumpStep, ReadSegment, PumpDies
  <2> QED BY <1>a, <2>1, <2>2, <2>3, <2>4 DEF TypeParts
<1>6. ASSUME NEW k \in Start, NEW i \in Part, PartStep(k, i) PROVE TypeParts'
  <2>1. part' \in [Start -> [Part -> PartType]] /\ failed' \in BOOLEAN
    <3>1. failed \in BOOLEAN
      BY <1>a DEF TypeParts
    <3>2. \/ part' = [part EXCEPT ![k][i].pc = "sent"] /\ failed' = failed
          \/ EndPart(k, i) \/ FailPart(k, i) \/ WarnPart(k, i)
      BY <1>6 DEF PartStep, SendPart, SendPartWarns, SendPartDies, CountPart, CompleteUpload,
         CompleteWarns, CompleteDies
    <3>3. [part EXCEPT ![k][i].pc = "sent"] \in [Start -> [Part -> PartType]]
      BY <1>a, PartTypes
    <3>4. EndPart(k, i) \/ FailPart(k, i) \/ WarnPart(k, i) =>
            part' \in [Start -> [Part -> PartType]] /\ failed' \in BOOLEAN
      BY <1>a, PartTypes
    <3> QED BY <3>1, <3>2, <3>3, <3>4
  <2>2. num_completed_' \in Nat /\ etags_' \subseteq Part
    BY <1>6, <1>a DEF PartStep, SendPart, SendPartWarns, SendPartDies, CountPart,
       CompleteUpload, CompleteWarns, CompleteDies, Count, TypeParts, content
  <2>3. /\ id # 0 /\ UNCHANGED <<version, uploader, id, syncs>>
    BY <1>6, <1>a, OthersAfter
  <2>4. /\ uploads' \in Seq(UploadType) /\ Len(uploads') = Len(uploads)
        /\ UNCHANGED <<compressor, block, data, num_pending_, starts, pump, scratch, result_>>
    BY <1>6, <1>a, PartChanges
  <2>5. object' \in ObjectType
    <3>1. uploads[id] \in UploadType
      BY <1>a, <2>3, UploadChanges, <1>6
    <3>2. Assembled \in ObjectType
      BY <3>1 DEF Assembled, ObjectType, UploadType
    <3>3. object' \in {object, Assembled}
      BY <1>6 DEF PartStep, SendPart, SendPartWarns, SendPartDies, CountPart, CompleteUpload,
         CompleteWarns, CompleteDies, StoreObject, remote
    <3> QED BY <1>a, <3>2, <3>3 DEF TypeParts
  <2> QED BY <1>a, <2>1, <2>2, <2>3, <2>4, <2>5 DEF TypeParts
<1>7. CASE SyncAgain
  <2>1. /\ UNCHANGED <<version, object, uploads, scratch, result_>> /\ syncs < NumSyncs
        /\ uploader' = NewUploader /\ id' = 0 /\ num_completed_' = 0 /\ etags_' = {}
        /\ compressor' = "idle" /\ block' = IdleBlocks /\ data' = [b \in Block |-> {}]
        /\ num_pending_' = 0 /\ starts' = 0 /\ pump' = IdlePumps /\ part' = IdleParts
        /\ failed' = FALSE /\ syncs' = syncs + 1
    BY <1>7 DEF SyncAgain, remote
  <2>2. /\ 0 \in 0..Len(uploads) /\ 0 \in 0..NumBlocks /\ 0 \in 0..Cardinality(Start)
        /\ syncs' \in 1..NumSyncs
    BY <1>a, <1>b, <2>1, BlocksFinite, LenProperties, UploadAssumption DEF TypeParts
  <2>3. data' \in [Block -> SUBSET Version]
    BY <2>1
  <2> HIDE DEF UploaderType
  <2> QED BY <1>a, <2>1, <2>2, <2>3, NewTasks DEF TypeParts
<1>8. CASE Finished \/ UNCHANGED vars
  BY <1>8, <1>a DEF Finished, vars, TypeParts
<1> QED BY <1>1, <1>2, <1>3, <1>4, <1>5, <1>6, <1>7, <1>8 DEF Next

\* The upload that is initiated has the time that the uploader has read, and stays.
LEMMA InitiatedStep == IInv /\ [Next]_vars => Initiated'
<1> SUFFICES ASSUME IInv, [Next]_vars PROVE Initiated'
  OBVIOUS
<1>a. TypeOK /\ TypeOK' /\ Initiated
  BY TypeStep DEF IInv
<1>b. /\ uploader \in UploaderType /\ version \in Nat \ {0} /\ version' \in Nat \ {0}
      /\ Len(uploads) \in Nat /\ DOMAIN uploads = 1..Len(uploads)
      /\ id \in 0..Len(uploads)
  BY SMTT(30), <1>a, TypeNamed, LenProperties, UploadAssumption DEF TypeParts, Version
<1>1. CASE Modify
  BY <1>1, <1>a, <1>b DEF Modify, Initiated, NothingYet, remote, content, local, UploaderType,
     Version
<1>2. CASE UploaderStep
  <2>1. /\ id = 0 /\ NothingYet /\ uploader.pc \in {"stat", "head", "initiate"}
        /\ UNCHANGED <<version, object, num_completed_, etags_, block, data, num_pending_,
                       part, scratch, result_, syncs>>
    BY <1>2, <1>a, UploaderAlone
  <2>2. CASE Initiate
    <3>1. id' = Len(uploads) + 1 /\ uploads' = Append(uploads, NewUpload)
      BY <2>2 DEF Initiate
    <3>2. uploader.mtime # 0
      BY <2>2, <1>a DEF Initiate, Initiated
    <3>3. uploads'[id'].meta = uploader.mtime
      BY <1>a, <3>1, <3>2, UploadInitiated
    <3>4. uploader'.pc = "done" /\ uploader'.mtime = uploader.mtime
      BY <2>2, <1>b DEF Initiate, UploaderType
    <3> QED BY <1>a, <1>b, <2>1, <3>1, <3>2, <3>3, <3>4 DEF Initiated
  <2>3. CASE ~Initiate
    <3>1. UNCHANGED <<id, compressor, starts, pump>>
      BY <1>2, <2>3 DEF UploaderStep, Stat, Compare, HeadWarns, HeadRefused, InitiateWarns,
         UploaderDies, content, local
    <3>2. NothingYet'
      BY <2>1, <3>1 DEF NothingYet
    <3>3. /\ uploader'.mtime \in {0, uploader.mtime, version}
          /\ uploader'.pc \in {"head", "initiate", "done"} => uploader'.mtime # 0
      BY <1>2, <1>a, <1>b, <2>3 DEF UploaderStep, Stat, Compare, HeadWarns, HeadRefused,
         InitiateWarns, UploaderDies, WarnUploader, NewUploader, UploaderType, Initiated
    <3> QED BY <1>a, <1>b, <2>1, <3>1, <3>2, <3>3 DEF Initiated
  <2> QED BY <2>2, <2>3
<1>3. ASSUME id # 0, uploader.pc = "done", UNCHANGED <<version, uploader, id>>,
             uploads'[id].meta = uploads[id].meta
      PROVE  Initiated'
  BY <1>3, <1>a DEF Initiated
<1>4. CASE CompressorStep \/ UnlinkScratch
  BY <1>4, <1>3, <1>a, OthersAfter DEF CompressorStep, Split, SplitDies, UnlinkScratch, remote
<1>5. ASSUME NEW b \in Block, BlockStep(b) PROVE Initiated'
  BY <1>5, <1>3, <1>a, OthersAfter DEF BlockStep, Compress, CompressDies, CountBlock,
     FinishBlock, remote
<1>6. ASSUME NEW k \in Start, NEW f \in Pump, PumpStep(k, f) PROVE Initiated'
  BY <1>6, <1>3, <1>a, OthersAfter DEF PumpStep, ReadSegment, PumpDies, remote
<1>7. ASSUME NEW k \in Start, NEW i \in Part, PartStep(k, i) PROVE Initiated'
  <2>1. /\ id # 0 /\ uploader.pc = "done"
        /\ UNCHANGED <<version, uploader, id>>
    BY <1>7, <1>a, OthersAfter
  <2>2. uploads'[id].meta = uploads[id].meta
    BY <1>7, <1>a, <1>b, <2>1, PartChanges
  <2> QED BY <1>3, <2>1, <2>2
<1>8. CASE SyncAgain
  BY <1>8, <1>b DEF SyncAgain, Initiated, NothingYet, NewUploader, IdleBlocks, IdlePumps,
     IdleParts, remote
<1>9. CASE Finished \/ UNCHANGED vars
  BY <1>9, <1>a DEF Finished, vars, Initiated, NothingYet
<1> QED BY <1>1, <1>2, <1>4, <1>5, <1>6, <1>7, <1>8, <1>9 DEF Next

\* A block is read after the uploader has read the time.
LEMMA CompressingStep == IInv /\ [Next]_vars => Compressing'
<1> SUFFICES ASSUME IInv, [Next]_vars PROVE Compressing'
  OBVIOUS
<1>a. TypeOK /\ Initiated /\ Compressing
  BY DEF IInv
<1>b. /\ uploader \in UploaderType /\ version \in Nat \ {0} /\ block \in [Block -> BlockPc]
      /\ data \in [Block -> SUBSET Version] /\ uploader.mtime <= version
  BY <1>a, TypeNamed, UploadAssumption DEF TypeParts, Version, Initiated
<1>c. ASSUME UNCHANGED <<version, uploader, block, data>> PROVE Compressing'
  BY <1>a, <1>c DEF Compressing
<1> USE DEF remote, content, local
<1>1. CASE Modify
  BY <1>1, <1>a, <1>b, UploadAssumption DEF Modify, Compressing, Version, UploaderType
<1>2. CASE UploaderStep
  <2>1. \A b \in Block : block'[b] = "idle" /\ data'[b] = {}
    BY <1>2, <1>a, UploaderAlone DEF NothingYet
  <2> QED BY <2>1 DEF Compressing
<1>3. CASE CompressorStep
  BY <1>3, <1>a DEF CompressorStep, Split, SplitDies, Compressing
<1>4. ASSUME NEW b \in Block, BlockStep(b) PROVE Compressing'
  <2>1. UNCHANGED <<version, uploader>>
    BY <1>4, <1>a, OthersAfter
  <2>2. CASE Compress(b)
    <3>1. /\ data'[b] = {version}
          /\ \A c \in Block \ {b} : data'[c] = data[c] /\ block'[c] = block[c]
      BY <2>2, <1>b DEF Compress
    <3> QED BY <1>a, <1>b, <2>1, <3>1 DEF Compressing, UploaderType
  <2>3. CASE ~Compress(b)
    <3>1. /\ data' = data
          /\ block'[b] \in {"compressed", "counted", "done"} =>
               block[b] \in {"compressed", "counted", "done"}
          /\ \A c \in Block \ {b} : block'[c] = block[c]
      BY <1>4, <2>3, <1>b DEF BlockStep, CompressDies, CountBlock, FinishBlock
    <3> QED BY <1>a, <2>1, <3>1 DEF Compressing
  <2> QED BY <2>2, <2>3
<1>5. CASE UnlinkScratch \/ Finished \/ UNCHANGED vars
  BY <1>5, <1>c DEF UnlinkScratch, Finished, vars
<1>6. ASSUME NEW k \in Start, NEW f \in Pump, PumpStep(k, f) PROVE Compressing'
  BY <1>6, <1>c DEF PumpStep, ReadSegment, PumpDies
<1>7. ASSUME NEW k \in Start, NEW i \in Part, PartStep(k, i) PROVE Compressing'
  BY <1>7, <1>a, <1>c, PartChanges, OthersAfter
<1>8. CASE SyncAgain
  BY <1>8 DEF SyncAgain, Compressing, IdleBlocks
<1> QED BY <1>1, <1>2, <1>3, <1>4, <1>5, <1>6, <1>7, <1>8 DEF Next

\* A pump that has been scheduled finds something to read.
LEMMA PumpingStep == IInv /\ [Next]_vars => Pumping'
<1> SUFFICES ASSUME IInv, [Next]_vars PROVE Pumping'
  OBVIOUS
<1>a. /\ TypeOK /\ TypeOK' /\ Initiated /\ Initiated' /\ Compressing /\ Compressing'
      /\ Pumping
  BY TypeStep, InitiatedStep, CompressingStep DEF IInv
<1>b. /\ uploader \in UploaderType /\ uploader' \in UploaderType
      /\ version \in Nat \ {0} /\ version' \in Nat \ {0}
      /\ pump \in [Start -> [Pump -> PumpType]]
  BY SMTT(30), <1>a, TypeNamed, UploadAssumption DEF TypeParts, Version
<1>c. Content' # {} => Fresh(Content)'
  <2>1. uploader'.mtime <= version'
    BY <1>a DEF Initiated
  <2>2. CASE NumBlocks = 0
    BY <1>b, <2>1, <2>2 DEF Content, Fresh
  <2>3. CASE NumBlocks # 0
    <3>1. Content' = UNION {data'[b] : b \in Block}
      BY <2>3 DEF Content
    <3>2. \A b \in Block : \A v \in data'[b] : uploader'.mtime <= v /\ v <= version'
      BY <1>a DEF Compressing
    <3> QED BY <3>1, <3>2 DEF Fresh
  <2> QED BY <2>2, <2>3
<1>d. ASSUME UNCHANGED <<version, uploader, data, pump>> PROVE Pumping'
  BY <1>a, <1>d DEF Pumping, Fresh, Content
<1> USE DEF remote, content, local
<1>1. CASE Modify
  <2>1. Content # {} => Content' # {}
    BY <1>1 DEF Modify, Content
  <2>2. pump' = pump
    BY <1>1 DEF Modify
  <2> QED BY <1>a, <1>c, <2>1, <2>2 DEF Pumping, Fresh
<1>2. CASE UploaderStep
  <2>1. CASE NumBlocks = 0
    <3>1. Content' # {}
      BY <2>1 DEF Content
    <3> QED BY <1>c, <3>1 DEF Pumping
  <2>2. CASE NumBlocks # 0
    <3>1. pump' = pump
      BY <1>2, <2>2 DEF UploaderStep, Stat, Compare, HeadWarns, HeadRefused, Initiate,
         InitiateWarns, UploaderDies
    <3>2. NothingYet
      BY <1>2, <1>a, UploaderAlone
    <3> QED BY <3>1, <3>2 DEF NothingYet, Pumping
  <2> QED BY <2>1, <2>2
<1>3. CASE CompressorStep \/ UnlinkScratch
  BY <1>3, <1>d DEF CompressorStep, Split, SplitDies, UnlinkScratch
<1>4. ASSUME NEW b \in Block, BlockStep(b) PROVE Pumping'
  <2>1. CASE FinishBlock(b)
    <3>1. block[b] = "counted" /\ data' = data /\ NumBlocks # 0
      BY <2>1, UploadAssumption DEF FinishBlock, Block
    <3>2. Content' # {}
      BY <1>a, <3>1 DEF Content, Compressing
    <3> QED BY <1>c, <3>2 DEF Pumping
  <2>2. CASE ~FinishBlock(b)
    <3>1. pump' = pump
      BY <1>4, <2>2 DEF BlockStep, Compress, CompressDies, CountBlock
    <3>2. Content # {} => Content' # {}
      <4>1. CASE NumBlocks = 0
        BY <4>1 DEF Content
      <4>2. CASE NumBlocks # 0
        <5>1. \A c \in Block : data[c] # {} => data'[c] # {}
          BY <1>4, <1>a, TypeNamed DEF BlockStep, Compress, CompressDies, CountBlock,
             FinishBlock, TypeParts
        <5> QED BY <4>2, <5>1 DEF Content
      <4> QED BY <4>1, <4>2
    <3> QED BY <1>a, <1>c, <3>1, <3>2 DEF Pumping, Fresh
  <2> QED BY <2>1, <2>2
<1>5. ASSUME NEW k \in Start, NEW f \in Pump, PumpStep(k, f) PROVE Pumping'
  <2>1. UNCHANGED <<version, uploader, data>> /\ pump[k][f].pc # "idle"
    BY <1>5 DEF PumpStep, ReadSegment, PumpDies
  <2>2. Content' = Content /\ Fresh(Content)
    BY <1>a, <2>1 DEF Content, Pumping
  <2> QED BY <1>c, <2>2 DEF Pumping, Fresh
<1>6. ASSUME NEW k \in Start, NEW i \in Part, PartStep(k, i) PROVE Pumping'
  BY <1>6, <1>a, <1>d, PartChanges, OthersAfter
<1>7. CASE SyncAgain
  BY <1>7 DEF SyncAgain, Pumping, IdlePumps
<1>8. CASE Finished \/ UNCHANGED vars
  BY <1>8, <1>d DEF Finished, vars
<1> QED BY <1>1, <1>2, <1>3, <1>4, <1>5, <1>6, <1>7, <1>8 DEF Next

\* What a part task makes of its record, and that it counts its failure.
LEMMA PartRecord ==
  ASSUME TypeOK, NEW k \in Start, NEW i \in Part, PartStep(k, i)
  PROVE  /\ part'[k][i].data = part[k][i].data
         /\ part[k][i].pc \in {"queued", "sent"}
         /\ part'[k][i].pc \in {"queued", "sent", "done", "failed"}
         /\ part'[k][i].pc = "sent" => SendPart(k, i)
         /\ part'[k][i].pc = "done" <=> CountPart(k, i) \/ CompleteUpload(k, i)
         /\ part'[k][i].pc = "failed" => failed'
         /\ failed => failed'
         /\ \A m \in Start, j \in Part : part'[m][j] = part[m][j] \/ (m = k /\ j = i)
<1>1. part \in [Start -> [Part -> PartType]]
  BY TypeNamed DEF TypeParts
<1>2. part[k][i] \in PartType /\ \A m \in Start : part[m] \in [Part -> PartType]
  BY <1>1
<1>3. /\ part[k][i].pc \in {"queued", "sent"}
      /\ SendPart(k, i) \/ SendPartWarns(k, i) \/ SendPartDies(k, i) => part[k][i].pc = "queued"
      /\ CountPart(k, i) \/ CompleteUpload(k, i) \/ CompleteWarns(k, i) \/ CompleteDies(k, i) =>
           part[k][i].pc = "sent"
  BY DEF PartStep, SendPart, SendPartWarns, SendPartDies, CountPart, CompleteUpload,
     CompleteWarns, CompleteDies
<1> DEFINE Frame == /\ part'[k][i].data = part[k][i].data
                    /\ \A m \in Start, j \in Part :
                         part'[m][j] = part[m][j] \/ (m = k /\ j = i)
<1>4. /\ part' = [part EXCEPT ![k][i].pc = "sent"] => part'[k][i].pc = "sent" /\ Frame
      /\ part' = [part EXCEPT ![k][i].pc = "done"] => part'[k][i].pc = "done" /\ Frame
      /\ part' = [part EXCEPT ![k][i].pc = "failed"] => part'[k][i].pc = "failed" /\ Frame
  BY <1>1, <1>2 DEF PartType
<1>5. ASSUME part' = [part EXCEPT ![k][i].pc = "queued", ![k][i].attempt = @ + 1]
      PROVE  part'[k][i].pc = "queued" /\ Frame
  BY <1>1, <1>2, <1>5 DEF PartType
<1>6. CASE SendPart(k, i)
  <2>1. part' = [part EXCEPT ![k][i].pc = "sent"] /\ failed' = failed
    BY <1>6 DEF SendPart
  <2> QED BY <1>3, <1>4, <1>6, <2>1 DEF CountPart, CompleteUpload
<1>7. CASE CountPart(k, i) \/ CompleteUpload(k, i)
  <2>1. part' = [part EXCEPT ![k][i].pc = "done"] /\ failed' = failed
    BY <1>7 DEF CountPart, CompleteUpload, EndPart
  <2> QED BY <1>3, <1>4, <1>7, <2>1
<1>8. CASE SendPartWarns(k, i) \/ CompleteWarns(k, i) \/ SendPartDies(k, i) \/ CompleteDies(k, i)
  <2>1. \/ /\ part' = [part EXCEPT ![k][i].pc = "queued", ![k][i].attempt = @ + 1]
           /\ failed' = failed
        \/ /\ part' = [part EXCEPT ![k][i].pc = "failed"]
           /\ failed'
    BY <1>8 DEF SendPartWarns, CompleteWarns, SendPartDies, CompleteDies, WarnPart, FailPart
  <2>2. part'[k][i].pc \in {"queued", "failed"} /\ Frame
    BY <1>4, <1>5, <2>1
  <2>3. ~CountPart(k, i) /\ ~CompleteUpload(k, i)
    <3>1. CountPart(k, i) \/ CompleteUpload(k, i) => part' = [part EXCEPT ![k][i].pc = "done"]
      BY DEF CountPart, CompleteUpload, EndPart
    <3> QED BY <1>4, <2>2, <3>1
  <2>4. part'[k][i].pc = "failed" => failed'
    BY <1>5, <2>1
  <2> QED BY <1>3, <2>1, <2>2, <2>3, <2>4
<1> QED BY <1>6, <1>7, <1>8 DEF PartStep

\* What S3 has of this upload, and of those before it, is no older than its time.
LEMMA SendingStep == IInv /\ [Next]_vars => Sending'
<1> SUFFICES ASSUME IInv, [Next]_vars PROVE Sending'
  OBVIOUS
<1>a. /\ TypeOK /\ Initiated /\ Initiated' /\ Pumping /\ Sending
  BY InitiatedStep DEF IInv
<1>b. /\ uploader \in UploaderType /\ version \in Nat \ {0} /\ uploads \in Seq(UploadType)
      /\ id \in 0..Len(uploads) /\ Len(uploads) \in Nat /\ DOMAIN uploads = 1..Len(uploads)
      /\ part \in [Start -> [Part -> PartType]] /\ pump \in [Start -> [Pump -> PumpType]]
      /\ etags_ \subseteq Part
  BY <1>a, TypeNamed, UploadAssumption, LenProperties DEF TypeParts, Version
<1>c. ASSUME UNCHANGED <<version, uploads, uploader, id, part, etags_>> PROVE Sending'
  BY <1>a, <1>c DEF Sending, Fresh
<1> USE DEF remote, content, local
<1>1. CASE Modify
  <2>1. version' = version + 1 /\ UNCHANGED <<uploads, uploader, id, part, etags_>>
    BY <1>1 DEF Modify
  <2>2. \A n \in DOMAIN uploads : \A i \in Part : \A v \in uploads[n].parts[i] : v \in Nat
    <3>1. \A n \in DOMAIN uploads : uploads[n] \in UploadType
      BY <1>b, ElementOfSeq
    <3> QED BY <3>1, UploadAssumption DEF UploadType, Version
  <2>3. \A k \in Start : \A i \in Part : \A v \in part[k][i].data : v \in Nat
    <3>1. \A k \in Start : \A i \in Part : part[k][i] \in PartType
      BY <1>b
    <3> QED BY <3>1, UploadAssumption DEF PartType, Version
  <2>4. ASSUME NEW v \in Nat, v <= version PROVE v <= version'
    BY <1>b, <2>1, <2>4
  <2> QED BY <1>a, <2>1, <2>2, <2>3, <2>4 DEF Sending, Fresh
<1>2. CASE UploaderStep
  <2>1. id = 0 /\ NothingYet /\ UNCHANGED <<version, part, etags_>>
    BY <1>2, <1>a, UploaderAlone
  <2>2. /\ \A k \in Start : \A i \in Part : part'[k][i].pc = "idle"
        /\ etags_' = {}
    BY <2>1 DEF NothingYet
  <2>3. uploads' = uploads \/ (uploads' = Append(uploads, NewUpload) /\ uploader.mtime # 0)
    BY <1>2, <1>a DEF UploaderStep, Stat, Compare, HeadWarns, HeadRefused, Initiate,
       InitiateWarns, UploaderDies, Initiated
  <2>4. \A n \in DOMAIN uploads' : \A i \in Part : \A v \in uploads'[n].parts[i] :
          uploads'[n].meta <= v /\ v <= version'
    <3>1. CASE uploads' = uploads
      BY <1>a, <2>1, <3>1 DEF Sending
    <3>2. CASE uploads' = Append(uploads, NewUpload) /\ uploader.mtime # 0
      <4>1. /\ DOMAIN uploads' = 1..(Len(uploads) + 1)
            /\ \A n \in 1..Len(uploads) : uploads'[n] = uploads[n]
            /\ \A i \in Part : uploads'[Len(uploads) + 1].parts[i] = {}
        BY <3>2, <1>a, UploadInitiated
      <4> QED BY <1>a, <1>b, <2>1, <4>1 DEF Sending
    <3> QED BY <2>3, <3>1, <3>2
  <2> QED BY <2>2, <2>4 DEF Sending
<1>3. CASE CompressorStep \/ UnlinkScratch \/ Finished \/ UNCHANGED vars
  BY <1>3, <1>c DEF CompressorStep, Split, SplitDies, UnlinkScratch, Finished, vars
<1>4. ASSUME NEW b \in Block, BlockStep(b) PROVE Sending'
  BY <1>4, <1>c DEF BlockStep, Compress, CompressDies, CountBlock, FinishBlock
<1>5. ASSUME NEW k \in Start, NEW f \in Pump, PumpStep(k, f) PROVE Sending'
  <2>1. UNCHANGED <<version, uploads, uploader, id, etags_>>
    BY <1>5 DEF PumpStep, ReadSegment, PumpDies
  <2>2. CASE PumpDies(k, f)
    BY <2>1, <2>2, <1>c DEF PumpDies
  <2>3. CASE ReadSegment(k, f)
    <3>1. PICK i \in pump[k][f].todo :
            part' = [part EXCEPT ![k][i] = [pc |-> "queued", data |-> Content, attempt |-> 0]]
      BY <2>3 DEF ReadSegment
    <3>2. i \in Part
      BY <1>b DEF PumpType
    <3>3. Fresh(Content)
      BY <2>3, <1>a DEF ReadSegment, Pumping
    <3>4. /\ part'[k][i] = [pc |-> "queued", data |-> Content, attempt |-> 0]
          /\ \A m \in Start, j \in Part :
               part'[m][j] = part[m][j] \/ (m = k /\ j = i)
      BY <1>b, <3>1, <3>2
    <3>5. part'[k][i].pc = "queued" /\ part'[k][i].data = Content
      BY <3>4
    <3> QED BY <1>a, <2>1, <3>3, <3>4, <3>5 DEF Sending, Fresh
  <2> QED BY <1>5, <2>2, <2>3 DEF PumpStep
<1>6. ASSUME NEW k \in Start, NEW i \in Part, PartStep(k, i) PROVE Sending'
  <2>1. /\ id # 0 /\ uploads[id].meta = uploader.mtime /\ id \in DOMAIN uploads
        /\ UNCHANGED <<version, uploader, id>>
    BY <1>6, <1>a, <1>b, OthersAfter
  <2>2. /\ DOMAIN uploads' = DOMAIN uploads
        /\ \A n \in DOMAIN uploads : uploads'[n].meta = uploads[n].meta
        /\ \A n \in DOMAIN uploads : \A j \in Part :
             \/ uploads'[n].parts[j] = uploads[n].parts[j]
             \/ /\ n = id /\ j = i /\ part[k][i].pc = "queued"
                /\ uploads'[n].parts[j] = part[k][i].data
        /\ SendPart(k, i) => uploads'[id].parts[i] = part[k][i].data
    BY <1>6, <1>a, PartChanges
  <2>3. part[k][i].pc = "queued" => Fresh(part[k][i].data)
    BY <1>a DEF Sending
  <2>4. \A n \in DOMAIN uploads' : \A j \in Part : \A v \in uploads'[n].parts[j] :
          uploads'[n].meta <= v /\ v <= version'
    BY <1>a, <2>1, <2>2, <2>3 DEF Sending, Fresh
  <2>5. \A j \in Part : uploads[id].parts[j] # {} => uploads'[id].parts[j] # {}
    BY <2>1, <2>2, <2>3 DEF Fresh
  <2>6. /\ part'[k][i].data = part[k][i].data
        /\ part[k][i].pc \in {"queued", "sent"}
        /\ part'[k][i].pc = "sent" => SendPart(k, i)
        /\ \A m \in Start, j \in Part : part'[m][j] = part[m][j] \/ (m = k /\ j = i)
    BY <1>6, <1>a, PartRecord
  <2>7. etags_' \subseteq etags_ \cup {i} /\ (etags_' # etags_ => part[k][i].pc = "sent")
    BY <1>6 DEF PartStep, SendPart, SendPartWarns, SendPartDies, CountPart,
       CompleteUpload, CompleteWarns, CompleteDies, Count
  <2>8. \A j \in etags_' : uploads'[id].parts[j] # {}
    BY <1>a, <1>b, <2>5, <2>7 DEF Sending
  <2>9. SendPart(k, i) => uploads'[id].parts[i] # {}
    BY <2>2, <2>3 DEF SendPart, Fresh
  <2>10. ASSUME NEW m \in Start, NEW j \in Part
         PROVE  /\ part'[m][j].pc \in {"queued", "sent"} => Fresh(part'[m][j].data)
                /\ part'[m][j].pc = "sent" => uploads'[id].parts[j] # {}
    BY <1>a, <2>5, <2>6, <2>9 DEF Sending
  <2> QED BY <2>1, <2>4, <2>8, <2>10 DEF Sending, Fresh
<1>7. CASE SyncAgain
  <2>1. /\ UNCHANGED <<version, uploads>> /\ etags_' = {}
        /\ \A k \in Start : \A i \in Part : part'[k][i].pc = "idle"
    BY <1>7 DEF SyncAgain, IdleParts
  <2> QED BY <1>a, <2>1 DEF Sending
<1> QED BY <1>1, <1>2, <1>3, <1>4, <1>5, <1>6, <1>7 DEF Next

\* The object is put together from parts that have all arrived.
LEMMA ObjectStep == IInv /\ [Next]_vars => Object'
<1> SUFFICES ASSUME IInv, [Next]_vars PROVE Object'
  OBVIOUS
<1>a. TypeOK /\ Initiated /\ Sending /\ Object
  BY DEF IInv
<1>b. /\ uploader \in UploaderType /\ version \in Nat \ {0} /\ object \in ObjectType
      /\ Len(uploads) \in Nat /\ DOMAIN uploads = 1..Len(uploads) /\ id \in 0..Len(uploads)
  BY <1>a, TypeNamed, UploadAssumption, LenProperties DEF TypeParts, Version
<1>c. ASSUME UNCHANGED <<version, object>> PROVE Object'
  BY <1>a, <1>c DEF Object
<1> USE DEF remote, content, local
<1>1. CASE Modify
  BY <1>1, <1>a, <1>b, UploadAssumption DEF Modify, Object, ObjectType, Version
<1>2. CASE UploaderStep
  BY <1>2, <1>a, <1>c, UploaderAlone
<1>3. CASE CompressorStep \/ UnlinkScratch \/ SyncAgain \/ Finished \/ UNCHANGED vars
  BY <1>3, <1>c DEF CompressorStep, Split, SplitDies, UnlinkScratch, SyncAgain, Finished, vars
<1>4. ASSUME NEW b \in Block, BlockStep(b) PROVE Object'
  BY <1>4, <1>c DEF BlockStep, Compress, CompressDies, CountBlock, FinishBlock
<1>5. ASSUME NEW k \in Start, NEW f \in Pump, PumpStep(k, f) PROVE Object'
  BY <1>5, <1>c DEF PumpStep, ReadSegment, PumpDies
<1>6. ASSUME NEW k \in Start, NEW i \in Part, PartStep(k, i) PROVE Object'
  <2>1. /\ id \in DOMAIN uploads /\ uploads[id].meta = uploader.mtime /\ version' = version
    BY <1>6, <1>a, <1>b, OthersAfter
  <2>2. CASE object' = object
    BY <1>c, <2>1, <2>2
  <2>3. CASE object' # object
    <3>1. object' = Assembled /\ part[k][i].pc = "sent" /\ etags_ \cup {i} = Part
      BY <1>6, <2>3 DEF PartStep, SendPart, SendPartWarns, SendPartDies, CountPart,
         CompleteUpload, CompleteWarns, CompleteDies, StoreObject, Accepted
    <3>2. \A j \in Part : uploads[id].parts[j] # {}
      BY <1>a, <3>1 DEF Sending
    <3>3. /\ object'.meta = uploader.mtime
          /\ object'.data = UNION {uploads[id].parts[j] : j \in Part}
      BY <2>1, <3>1 DEF Assembled
    <3>4. uploader.mtime <= version
      BY <1>a DEF Initiated
    <3>5. object'.data # {}
      <4>1. 1 \in Part
        BY UploadAssumption DEF Part
      <4> QED BY <3>2, <3>3, <4>1
    <3>6. \A v \in object'.data : uploader.mtime <= v /\ v <= version
      BY <1>a, <2>1, <3>3 DEF Sending
    <3> QED BY <2>1, <3>3, <3>4, <3>5, <3>6 DEF Object
  <2> QED BY <2>2, <2>3
<1> QED BY <1>1, <1>2, <1>3, <1>4, <1>5, <1>6 DEF Next

\* A scratch file is in the hands of a task, or named in result_, until it is unlinked.
LEMMA ScratchedStep == IInv /\ [Next]_vars => Scratched'
<1> SUFFICES ASSUME IInv, [Next]_vars PROVE Scratched'
  OBVIOUS
<1>a. TypeOK /\ Initiated /\ Counting /\ Scratched
  BY DEF IInv
<1>b. /\ block \in [Block -> BlockPc] /\ syncs \in Nat
      /\ scratch \subseteq Nat \X Block
  BY <1>a, TypeNamed, UploadAssumption DEF TypeParts
<1>c. ASSUME UNCHANGED <<scratch, block, result_, syncs>> PROVE Scratched'
  BY <1>a, <1>c DEF Scratched
<1> USE DEF remote, content, local
<1>1. CASE Modify \/ Finished \/ UNCHANGED vars
  BY <1>1, <1>c DEF Modify, Finished, vars
<1>2. CASE UploaderStep
  BY <1>2, <1>a, <1>c, UploaderAlone
<1>3. CASE CompressorStep
  <2>1. CASE Split
    <3>1. \A b \in Block : block[b] = "idle"
      BY <2>1, <1>a DEF Split, Counting
    <3>2. UNCHANGED <<scratch, result_, syncs>>
      BY <2>1 DEF Split
    <3> QED BY <1>a, <3>1, <3>2 DEF Scratched
  <2>2. CASE SplitDies
    BY <2>2, <1>c DEF SplitDies
  <2> QED BY <1>3, <2>1, <2>2 DEF CompressorStep
<1>4. ASSUME NEW b \in Block, BlockStep(b) PROVE Scratched'
  <2>1. /\ syncs' = syncs /\ \A c \in Block \ {b} : block'[c] = block[c]
        /\ result_ \subseteq result_' /\ scratch' \subseteq scratch \cup {<<syncs, b>>}
    BY <1>4, <1>b DEF BlockStep, Compress, CompressDies, CountBlock, FinishBlock, NameScratch
  <2>2. <<syncs, b>> \in scratch' => block'[b] \in {"compressed", "failed"} \/ b \in result_'
    BY <1>4, <1>a, <1>b DEF BlockStep, Compress, CompressDies, CountBlock, FinishBlock,
       NameScratch, Scratched
  <2> QED BY <1>a, <1>b, <2>1, <2>2 DEF Scratched
<1>5. CASE UnlinkScratch
  <2>1. /\ scratch' = scratch \ {<<syncs, b>> : b \in result_}
        /\ result_' = {} /\ UNCHANGED <<block, syncs>>
    BY <1>5 DEF UnlinkScratch
  <2> QED BY <1>a, <2>1 DEF Scratched
<1>6. ASSUME NEW k \in Start, NEW f \in Pump, PumpStep(k, f) PROVE Scratched'
  BY <1>6, <1>c DEF PumpStep, ReadSegment, PumpDies
<1>7. ASSUME NEW k \in Start, NEW i \in Part, PartStep(k, i) PROVE Scratched'
  BY <1>7, <1>a, <1>c, PartChanges, OthersAfter
<1>8. CASE SyncAgain
  <2>1. scratch' = scratch /\ syncs' = syncs + 1
    BY <1>8 DEF SyncAgain
  <2>2. \A s \in scratch : s[1] \in Nat /\ s[1] <= syncs
    BY <1>a, <1>b DEF Scratched
  <2>3. \A b \in Block : <<syncs', b>> \notin scratch
    <3>1. SUFFICES ASSUME NEW b \in Block, <<syncs', b>> \in scratch PROVE FALSE
      OBVIOUS
    <3>2. <<syncs', b>>[1] <= syncs
      BY <3>1, <2>2
    <3> QED BY <1>b, <2>1, <3>2
  <2> QED BY <1>b, <2>1, <2>2, <2>3 DEF Scratched
<1> QED BY <1>1, <1>2, <1>3, <1>4, <1>5, <1>6, <1>7, <1>8 DEF Next

-----------------------------------------------------------------------------
\* The inductive invariant holds in every reachable state of an upload: parts and blocks
\* are counted, and nothing S3 has is older than the time it is stored with.
THEOREM Invariance == Spec => []IInv
<1>1. IInv /\ [Next]_vars => IInv'
  BY TypeStep, InitiatedStep, CountingStep, CompressingStep, PumpingStep, SendingStep,
     ObjectStep, ScratchedStep DEF IInv
<1> QED BY InitHolds, <1>1, PTL DEF Spec

\* Every variable of an upload has its type; num_pending_ is never negative, and
\* start_upload is not called more often than there are blocks.
THEOREM TypeCorrect == Spec => []TypeOK
<1>1. IInv => TypeOK
  BY DEF IInv
<1> QED BY Invariance, <1>1, PTL

\* An object that the next run takes for synchronized is equal to the file, whenever
\* and however often the file was modified, and whatever was retried.
THEOREM SyncedIsEqual == Spec => []SyncedMeansEqual
<1>1. IInv => SyncedMeansEqual
  <2> SUFFICES ASSUME IInv, object.meta = version PROVE object.data = {version}
    BY DEF SyncedMeansEqual
  <2>1. version \in Nat \ {0} /\ object.data \subseteq Version
    BY UploadAssumption DEF IInv, TypeOK, Version
  <2>2. object.data # {} /\ \A v \in object.data : version <= v /\ v <= version
    BY <2>1 DEF IInv, Object
  <2>3. \A v \in object.data : v = version
    BY <2>1, <2>2, UploadAssumption DEF Version
  <2> QED BY <2>2, <2>3
<1> QED BY Invariance, <1>1, PTL

\* The scratch files of a command that has returned are gone, but those of compress
\* tasks that failed.
THEOREM ScratchIsRemoved == Spec => []ScratchRemoved
<1>1. IInv => ScratchRemoved
  BY DEF IInv, Scratched, ScratchRemoved, Drained, Ended
<1> QED BY Invariance, <1>1, PTL

-----------------------------------------------------------------------------
\* Multiples of a number are that far apart.
LEMMA Multiples ==
  ASSUME NEW N \in Nat \ {0}, NEW a \in Nat, NEW b \in Nat, a % N = 0, b % N = 0, a < b
  PROVE  a + N <= b
<1>1. a = N * (a \div N) /\ b = N * (b \div N)
  BY Z3T(30)
<1>2. a \div N \in Int /\ b \div N \in Int
  OBVIOUS
<1> DEFINE q == a \div N
<1> DEFINE r == b \div N
<1>3. q \in Int /\ r \in Int /\ a = N * q /\ b = N * r
  BY <1>1, <1>2
<1> HIDE DEF q, r
<1>4. q < r
  BY <1>3
<1>5. N * (q + 1) <= N * r
  <2>1. q + 1 <= r
    BY <1>3, <1>4
  <2> QED BY <1>3, <2>1
<1>6. N * (q + 1) = N * q + N
  BY <1>3
<1> QED BY <1>3, <1>5, <1>6

\* Each part has exactly one pump.
LEMMA PartsCovered == \A i \in Part : \E f \in Pump : i \in PartsOf(f)
<1> SUFFICES ASSUME NEW i \in Part PROVE \E f \in Pump : i \in PartsOf(f)
  OBVIOUS
<1> DEFINE a == i - 1
<1> DEFINE rest == a % NumPerPump
<1> DEFINE f == 1 + (a - rest)
<1>1. a \in Nat /\ i \in 1..NumParts /\ NumParts \in Nat /\ NumPerPump \in Nat \ {0}
  BY UploadAssumption DEF Part
<1>2. rest \in 0..(NumPerPump - 1) /\ rest <= a
  <2> HIDE DEF a
  <2> QED BY <1>1
<1>3. (a - rest) % NumPerPump = 0
  <2> HIDE DEF a
  <2> QED BY <1>1
<1> HIDE DEF rest
<1>4. f \in 1..NumParts /\ f <= i /\ i < f + NumPerPump
  BY <1>1, <1>2
<1>5. f - 1 = a - rest
  BY <1>1, <1>2
<1> HIDE DEF f
<1> QED BY <1>3, <1>4, <1>5 DEF Pump, PartsOf, Part

\* Two pumps have no part in common.
LEMMA PumpsApart ==
  ASSUME NEW f \in Pump, NEW g \in Pump, f # g
  PROVE  PartsOf(f) \cap PartsOf(g) = {}
<1> DEFINE a == f - 1
<1> DEFINE b == g - 1
<1>1. /\ NumPerPump \in Nat \ {0} /\ f - 1 \in Nat /\ g - 1 \in Nat /\ f \in Nat /\ g \in Nat
      /\ a % NumPerPump = 0 /\ b % NumPerPump = 0 /\ NumParts \in Nat
  BY UploadAssumption DEF Pump, Part
<1>2. CASE f < g
  <2>1. a + NumPerPump <= b
    <3>1. a < b /\ a \in Nat /\ b \in Nat
      BY <1>1, <1>2
    <3> HIDE DEF a, b
    <3> QED BY <1>1, <3>1, Multiples
  <2> QED BY <1>1, <2>1 DEF PartsOf, Part
<1>3. CASE g < f
  <2>1. b + NumPerPump <= a
    <3>1. b < a /\ a \in Nat /\ b \in Nat
      BY <1>1, <1>3
    <3> HIDE DEF a, b
    <3> QED BY <1>1, <3>1, Multiples
  <2> QED BY <1>1, <2>1 DEF PartsOf, Part
<1> QED BY <1>1, <1>2, <1>3

\* Without compression start_upload is called once.
LEMMA OneStart == NumBlocks = 0 => Start = {1} /\ Block = {} /\ 1 \in Start
  BY DEF Start, Block

\* Before the first step no pump has anything to do.
LEMMA ScheduledInit == Init => Scheduled /\ CountedOnce /\ FailuresCounted /\ Completed
<1> SUFFICES ASSUME Init PROVE Scheduled /\ CountedOnce /\ FailuresCounted /\ Completed
  OBVIOUS
<1>1. 1 \in Start
  BY UploadAssumption DEF Start, Block
<1>2. /\ \A f \in Pump : pump[1][f].pc = "idle" /\ pump[1][f].todo = {}
      /\ \A i \in Part : part[1][i].pc = "idle"
      /\ id = 0 /\ uploader.pc = "stat" /\ num_completed_ = 0 /\ etags_ = {}
  BY <1>1 DEF Init, NewUploader, IdlePumps, IdleParts
<1>3. Scheduled /\ FailuresCounted
  BY <1>2 DEF Scheduled, FailuresCounted
<1>4. DoneParts = {}
  BY <1>2 DEF DoneParts
<1>5. CountedOnce
  BY <1>2, <1>4, FS_EmptySet DEF CountedOnce
<1> QED BY <1>2, <1>3, <1>5, UploadAssumption DEF Completed

\* A part is in the hands of its own pump until it has a task.
LEMMA ScheduledStep ==
  ASSUME NumBlocks = 0, IInv, Scheduled, [Next]_vars
  PROVE  Scheduled'
<1>a. TypeOK /\ Initiated
  BY DEF IInv
<1>b. /\ pump \in [Start -> [Pump -> PumpType]] /\ part \in [Start -> [Part -> PartType]]
      /\ Start = {1} /\ Block = {} /\ 1 \in Start
      /\ pump[1] \in [Pump -> PumpType] /\ part[1] \in [Part -> PartType]
  BY <1>a, TypeNamed, OneStart DEF TypeParts
<1>c. ASSUME UNCHANGED <<id, pump, part>> PROVE Scheduled'
  BY <1>c DEF Scheduled
<1> USE DEF remote, content, local
<1>1. CASE UploaderStep
  <2>1. CASE Initiate
    <3>1. /\ \A f \in Pump : pump'[1][f].pc = "queued" /\ pump'[1][f].todo = PartsOf(f)
          /\ part' = part
      BY <2>1, <1>b DEF Initiate, StartPumps
    <3>2. \A i \in Part : part[1][i].pc = "idle"
      BY <1>1, <1>a, <1>b, UploaderAlone DEF NothingYet
    <3> QED BY <3>1, <3>2 DEF Scheduled, PartsOf
  <2>2. CASE ~Initiate
    BY <1>1, <2>2, <1>c DEF UploaderStep, Stat, Compare, HeadWarns, HeadRefused, InitiateWarns,
       UploaderDies
  <2> QED BY <2>1, <2>2
<1>2. CASE Modify \/ CompressorStep \/ UnlinkScratch \/ Finished \/ UNCHANGED vars
  BY <1>2, <1>c DEF Modify, CompressorStep, Split, SplitDies, UnlinkScratch, Finished, vars
<1>3. ASSUME NEW f \in Pump, PumpStep(1, f) PROVE Scheduled'
  <2>1. CASE PumpDies(1, f)
    <3>1. /\ UNCHANGED <<id, part>> /\ pump'[1][f].pc = "failed"
          /\ \A g \in Pump : pump'[1][g].todo = pump[1][g].todo
          /\ \A g \in Pump \ {f} : pump'[1][g] = pump[1][g]
      BY <2>1, <1>b DEF PumpDies, PumpType
    <3> QED BY <3>1 DEF Scheduled
  <2>2. CASE ReadSegment(1, f)
    <3>1. PICK i \in pump[1][f].todo :
            /\ part' = [part EXCEPT ![1][i] = [pc |-> "queued", data |-> Content, attempt |-> 0]]
            /\ pump' = [pump EXCEPT ![1][f] =
                          [pc |-> IF @.todo = {i} THEN "done" ELSE "queued",
                           todo |-> @.todo \ {i}]]
      BY <2>2 DEF ReadSegment
    <3>2. i \in PartsOf(f) /\ i \in Part
      BY <3>1 DEF Scheduled, PartsOf
    <3>3. /\ part'[1][i].pc = "queued" /\ \A j \in Part \ {i} : part'[1][j] = part[1][j]
      BY <3>1, <3>2, <1>b
    <3>4. /\ pump'[1][f].pc = IF pump[1][f].todo = {i} THEN "done" ELSE "queued"
          /\ pump'[1][f].todo = pump[1][f].todo \ {i}
          /\ \A g \in Pump \ {f} : pump'[1][g] = pump[1][g]
      BY <3>1, <1>b
    <3>5. \A g \in Pump \ {f} : i \notin PartsOf(g)
      BY <3>2, PumpsApart
    <3>6. id' = id
      BY <2>2 DEF ReadSegment
    <3>7. \A g \in Pump : PartsOf(g) \subseteq Part
      BY DEF PartsOf
    <3>8. \A g \in Pump : \A j \in pump'[1][g].todo : j \in PartsOf(g) /\ part'[1][j].pc = "idle"
      BY <3>3, <3>4, <3>5, <3>7 DEF Scheduled
    <3>9. ASSUME id # 0, NEW g \in Pump
          PROVE  /\ pump'[1][g].pc # "idle"
                 /\ pump'[1][g].pc = "done" => pump'[1][g].todo = {}
                 /\ \A j \in PartsOf(g) : j \in pump'[1][g].todo \/ part'[1][j].pc # "idle"
      BY <3>3, <3>4, <3>7, <3>9 DEF Scheduled
    <3> QED BY <3>6, <3>8, <3>9 DEF Scheduled
  <2> QED BY <1>3, <2>1, <2>2 DEF PumpStep
<1>4. ASSUME NEW i \in Part, PartStep(1, i) PROVE Scheduled'
  <2>1. /\ part[1][i].pc # "idle" /\ part'[1][i].pc # "idle"
        /\ \A j \in Part \ {i} : part'[1][j] = part[1][j]
    BY <1>4, <1>a, <1>b, PartRecord
  <2>2. UNCHANGED <<id, pump>>
    BY <1>4, <1>a, <1>b, PartChanges, OthersAfter
  <2>3. \A g \in Pump : PartsOf(g) \subseteq Part
    BY DEF PartsOf
  <2> QED BY <2>1, <2>2, <2>3 DEF Scheduled
<1>5. CASE SyncAgain
  <2>1. id' = 0 /\ \A f \in Pump : pump'[1][f].todo = {}
    BY <1>5, <1>b DEF SyncAgain, IdlePumps
  <2> QED BY <2>1 DEF Scheduled
<1> QED BY <1>1, <1>2, <1>3, <1>4, <1>5, <1>b DEF Next

\* When the last part is about to be counted, all others have been.
LEMMA CountedBefore ==
  ASSUME TypeOK, CountedOnce, Last, NEW i \in Part, part[1][i].pc # "done"
  PROVE  etags_ \cup {i} = Part
<1>1. NumParts \in Nat /\ num_completed_ \in Nat /\ etags_ \subseteq Part
  BY UploadAssumption, TypeNamed DEF TypeParts
<1>2. num_completed_ = NumParts - 1
  BY <1>1 DEF Last
<1>3. Cardinality(etags_) = NumParts - 1 /\ i \notin etags_
  BY <1>1, <1>2 DEF CountedOnce, DoneParts
<1>4. IsFiniteSet(etags_)
  BY <1>1, PartsFinite, FS_Subset
<1>5. Cardinality(etags_ \cup {i}) = NumParts
  <2>1. Cardinality(etags_ \cup {i}) = Cardinality(etags_) + 1
    BY <1>3, <1>4, FS_AddElement
  <2> QED BY <1>1, <1>3, <2>1
<1>6. etags_ \cup {i} \subseteq Part
  BY <1>1
<1> QED BY <1>5, <1>6, PartsFinite, FS_Subset

\* A part is counted once, until a completion has failed.
LEMMA CountedOnceStep ==
  ASSUME NumBlocks = 0, IInv, Scheduled, CountedOnce, [Next]_vars
  PROVE  CountedOnce'
<1>a. TypeOK /\ Initiated
  BY DEF IInv
<1>b. /\ part \in [Start -> [Part -> PartType]] /\ part[1] \in [Part -> PartType]
      /\ Start = {1} /\ 1 \in Start /\ Block = {} /\ etags_ \subseteq Part
      /\ num_completed_ \in Nat /\ NumParts \in Nat \ {0}
  BY <1>a, TypeNamed, OneStart, UploadAssumption DEF TypeParts
<1>c. ASSUME UNCHANGED <<num_completed_, etags_>>, DoneParts' = DoneParts PROVE CountedOnce'
  BY <1>c DEF CountedOnce
<1> USE DEF remote, content, local
<1>1. CASE Modify \/ UploaderStep \/ CompressorStep \/ UnlinkScratch \/ Finished \/ UNCHANGED vars
  <2>1. UNCHANGED <<num_completed_, etags_, part>>
    <3>1. CASE UploaderStep
      BY <3>1, <1>a, UploaderAlone
    <3>2. CASE ~UploaderStep
      BY <1>1, <3>2 DEF Modify, CompressorStep, Split, SplitDies, UnlinkScratch, Finished, vars
    <3> QED BY <3>1, <3>2
  <2> QED BY <1>c, <2>1 DEF DoneParts
<1>2. ASSUME NEW f \in Pump, PumpStep(1, f) PROVE CountedOnce'
  <2>1. UNCHANGED <<num_completed_, etags_>>
    BY <1>2 DEF PumpStep, ReadSegment, PumpDies
  <2>2. CASE PumpDies(1, f)
    BY <1>c, <2>1, <2>2 DEF PumpDies, DoneParts
  <2>3. CASE ReadSegment(1, f)
    <3>1. PICK i \in pump[1][f].todo :
            part' = [part EXCEPT ![1][i] = [pc |-> "queued", data |-> Content, attempt |-> 0]]
      BY <2>3 DEF ReadSegment
    <3>2. i \in Part /\ part[1][i].pc = "idle"
      BY <3>1 DEF Scheduled, PartsOf
    <3>3. part'[1][i].pc = "queued" /\ \A j \in Part \ {i} : part'[1][j] = part[1][j]
      BY <3>1, <3>2, <1>b
    <3>4. DoneParts' = DoneParts
      BY <3>2, <3>3 DEF DoneParts
    <3> QED BY <1>c, <2>1, <3>4
  <2> QED BY <1>2, <2>2, <2>3 DEF PumpStep
<1>3. ASSUME NEW i \in Part, PartStep(1, i) PROVE CountedOnce'
  <2>1. /\ part[1][i].pc \in {"queued", "sent"}
        /\ part'[1][i].pc = "done" <=> CountPart(1, i) \/ CompleteUpload(1, i)
        /\ \A j \in Part \ {i} : part'[1][j] = part[1][j]
    BY <1>3, <1>a, <1>b, PartRecord
  <2>2. CASE SendPart(1, i) \/ SendPartWarns(1, i) \/ SendPartDies(1, i)
    <3>1. UNCHANGED <<num_completed_, etags_>> /\ part[1][i].pc = "queued"
      BY <2>2 DEF SendPart, SendPartWarns, SendPartDies
    <3>2. part'[1][i].pc # "done"
      BY <2>1, <3>1 DEF CountPart, CompleteUpload
    <3>3. DoneParts' = DoneParts
      BY <2>1, <3>2 DEF DoneParts
    <3> QED BY <1>c, <3>1, <3>3
  <2>3. CASE CountPart(1, i)
    <3>1. num_completed_' = num_completed_ + 1 /\ etags_' = etags_ \cup {i}
      BY <2>3 DEF CountPart, Count
    <3>2. DoneParts' = DoneParts \cup {i} /\ i \notin DoneParts
      BY <2>1, <2>3 DEF DoneParts
    <3>3. IsFiniteSet(etags_)
      BY <1>b, PartsFinite, FS_Subset
    <3>4. i \notin etags_ => Cardinality(etags_ \cup {i}) = Cardinality(etags_) + 1
      BY <3>3, FS_AddElement
    <3> QED BY <1>b, <3>1, <3>2, <3>4 DEF CountedOnce
  <2>4. CASE CompleteUpload(1, i) \/ CompleteWarns(1, i) \/ CompleteDies(1, i)
    <3>1. num_completed_' = num_completed_ + 1 /\ num_completed_ + 1 = NumParts
      BY <2>4 DEF CompleteUpload, CompleteWarns, CompleteDies, Count, Last
    <3> QED BY <1>b, <3>1 DEF CountedOnce
  <2> QED BY <1>3, <2>2, <2>3, <2>4 DEF PartStep
<1>4. CASE SyncAgain
  <2>1. num_completed_' = 0 /\ etags_' = {} /\ \A i \in Part : part'[1][i].pc = "idle"
    BY <1>4, <1>b DEF SyncAgain, IdleParts
  <2>2. DoneParts' = {}
    BY <2>1 DEF DoneParts
  <2> QED BY <2>1, <2>2, FS_EmptySet DEF CountedOnce
<1> QED BY <1>1, <1>2, <1>3, <1>4, <1>b DEF Next

\* A task that fails is counted.
LEMMA FailuresStep ==
  ASSUME NumBlocks = 0, IInv, FailuresCounted, [Next]_vars
  PROVE  FailuresCounted'
<1>a. TypeOK /\ Initiated
  BY DEF IInv
<1>b. /\ pump \in [Start -> [Pump -> PumpType]] /\ pump[1] \in [Pump -> PumpType]
      /\ uploader \in UploaderType /\ Start = {1} /\ 1 \in Start /\ Block = {}
  BY <1>a, TypeNamed, OneStart DEF TypeParts
<1>c. ASSUME UNCHANGED <<uploader, pump, part>>, failed => failed' PROVE FailuresCounted'
  BY <1>c DEF FailuresCounted
<1> USE DEF remote, content, local
<1>1. CASE UploaderStep
  <2>1. /\ \A f \in Pump : pump[1][f].pc = "idle"
        /\ \A i \in Part : part[1][i].pc = "idle"
        /\ part' = part
    BY <1>1, <1>a, <1>b, UploaderAlone DEF NothingYet
  <2>2. \A f \in Pump : pump'[1][f].pc # "failed"
    <3>1. CASE pump' = pump
      BY <2>1, <3>1
    <3>2. CASE StartPumps(1)
      BY <1>b, <3>2 DEF StartPumps
    <3> QED BY <1>1, <3>1, <3>2 DEF UploaderStep, Stat, Compare, HeadWarns, HeadRefused,
         Initiate, InitiateWarns, UploaderDies
  <2>3. uploader'.pc = "failed" => failed'
    BY <1>1, <1>b DEF UploaderStep, Stat, Compare, HeadWarns, HeadRefused, Initiate,
       InitiateWarns, UploaderDies, WarnUploader, NewUploader, UploaderType
  <2> QED BY <2>1, <2>2, <2>3 DEF FailuresCounted
<1>2. CASE Modify \/ CompressorStep \/ UnlinkScratch \/ Finished \/ UNCHANGED vars
  BY <1>2, <1>c DEF Modify, CompressorStep, Split, SplitDies, UnlinkScratch, Finished, vars
<1>3. ASSUME NEW f \in Pump, PumpStep(1, f) PROVE FailuresCounted'
  <2>1. CASE PumpDies(1, f)
    <3>1. failed' /\ UNCHANGED <<uploader, part>>
      BY <2>1 DEF PumpDies
    <3> QED BY <3>1 DEF FailuresCounted
  <2>2. CASE ReadSegment(1, f)
    <3>1. PICK i \in pump[1][f].todo :
            /\ part' = [part EXCEPT ![1][i] = [pc |-> "queued", data |-> Content, attempt |-> 0]]
            /\ pump' = [pump EXCEPT ![1][f] =
                          [pc |-> IF @.todo = {i} THEN "done" ELSE "queued",
                           todo |-> @.todo \ {i}]]
      BY <2>2 DEF ReadSegment
    <3>2. /\ pump'[1][f].pc # "failed" /\ \A g \in Pump \ {f} : pump'[1][g] = pump[1][g]
      BY <1>b, <3>1
    <3>3. i \in Part
      BY <1>b DEF PumpType
    <3>4. \A j \in Part : part'[1][j] = part[1][j] \/ part'[1][j].pc = "queued"
      <4>1. part \in [Start -> [Part -> PartType]]
        BY <1>a, TypeNamed DEF TypeParts
      <4> QED BY <1>b, <3>1, <3>3, <4>1
    <3>5. UNCHANGED <<uploader, failed>>
      BY <2>2 DEF ReadSegment
    <3> QED BY <3>2, <3>4, <3>5 DEF FailuresCounted
  <2> QED BY <1>3, <2>1, <2>2 DEF PumpStep
<1>4. ASSUME NEW i \in Part, PartStep(1, i) PROVE FailuresCounted'
  <2>1. /\ part'[1][i].pc = "failed" => failed'
        /\ failed => failed'
        /\ \A j \in Part \ {i} : part'[1][j] = part[1][j]
    BY <1>4, <1>a, <1>b, PartRecord
  <2>2. UNCHANGED <<uploader, pump>>
    BY <1>4, <1>a, <1>b, PartChanges, OthersAfter
  <2> QED BY <2>1, <2>2 DEF FailuresCounted
<1>5. CASE SyncAgain
  <2>1. /\ uploader'.pc = "stat"
        /\ \A f \in Pump : pump'[1][f].pc = "idle"
        /\ \A i \in Part : part'[1][i].pc = "idle"
    BY <1>5, <1>b DEF SyncAgain, NewUploader, IdlePumps, IdleParts
  <2> QED BY <2>1 DEF FailuresCounted
<1> QED BY <1>1, <1>2, <1>3, <1>4, <1>5, <1>b DEF Next

\* If a completion cannot fail after the part has been counted, then counting all parts
\* without a failure stores the object.
LEMMA CompletedStep ==
  ASSUME NumBlocks = 0, "complete" \notin Faults, IInv, Completed, [Next]_vars
  PROVE  Completed'
<1>a. TypeOK /\ Initiated
  BY DEF IInv
<1>b. /\ uploader \in UploaderType /\ Start = {1} /\ 1 \in Start /\ Block = {}
      /\ num_completed_ \in Nat /\ NumParts \in Nat \ {0}
  BY <1>a, TypeNamed, OneStart, UploadAssumption DEF TypeParts
<1>c. ASSUME UNCHANGED <<uploader, id, object, num_completed_>>, failed => failed'
      PROVE  Completed'
  BY <1>c DEF Completed
<1> USE DEF remote, content, local
<1>1. CASE UploaderStep
  <2>1. num_completed_' = 0 /\ object' = object
    BY <1>1, <1>a, UploaderAlone DEF NothingYet
  <2>2. CASE Initiate
    <3>1. id' # 0
      <4>1. Len(uploads) \in Nat /\ id' = Len(uploads) + 1
        BY <2>2, <1>a, TypeNamed, LenProperties DEF Initiate, TypeParts
      <4> QED BY <4>1
    <3> QED BY <1>b, <2>1, <3>1 DEF Completed
  <2>3. CASE ~Initiate
    <3>1. uploader'.pc = "done" => object.meta = uploader'.mtime
      BY <1>1, <1>b, <2>3 DEF UploaderStep, Stat, Compare, HeadWarns, HeadRefused,
         InitiateWarns, UploaderDies, WarnUploader, NewUploader, UploaderType
    <3> QED BY <1>b, <2>1, <3>1 DEF Completed
  <2> QED BY <2>2, <2>3
<1>2. CASE Modify \/ CompressorStep \/ UnlinkScratch \/ Finished \/ UNCHANGED vars
  BY <1>2, <1>c DEF Modify, CompressorStep, Split, SplitDies, UnlinkScratch, Finished, vars
<1>3. ASSUME NEW f \in Pump, PumpStep(1, f) PROVE Completed'
  BY <1>3, <1>c DEF PumpStep, ReadSegment, PumpDies
<1>4. ASSUME NEW i \in Part, PartStep(1, i) PROVE Completed'
  <2>1. /\ id # 0 /\ uploads[id].meta = uploader.mtime /\ UNCHANGED <<uploader, id>>
    BY <1>4, <1>a, <1>b, OthersAfter
  <2>2. failed => failed'
    BY <1>4, <1>a, <1>b, PartRecord
  <2>3. CASE CompleteUpload(1, i)
    <3>1. object'.meta = uploader.mtime
      BY <2>1, <2>3 DEF CompleteUpload, StoreObject, Assembled
    <3> QED BY <2>1, <3>1 DEF Completed
  <2>4. CASE CompleteWarns(1, i) \/ CompleteDies(1, i)
    BY <2>1, <2>4 DEF CompleteWarns, CompleteDies, FailPart, Completed
  <2>5. CASE CountPart(1, i)
    <3>1. object' = object /\ num_completed_' = num_completed_ + 1 /\ num_completed_ + 1 # NumParts
      BY <2>5 DEF CountPart, Count, Last
    <3>2. num_completed_' >= NumParts => num_completed_ >= NumParts
      BY <1>b, <3>1
    <3> QED BY <2>1, <2>2, <3>1, <3>2 DEF Completed
  <2>6. CASE SendPart(1, i) \/ SendPartWarns(1, i) \/ SendPartDies(1, i)
    BY <1>c, <2>1, <2>2, <2>6 DEF SendPart, SendPartWarns, SendPartDies
  <2> QED BY <1>4, <2>3, <2>4, <2>5, <2>6 DEF PartStep
<1>5. CASE SyncAgain
  <2>1. uploader'.pc = "stat" /\ num_completed_' = 0
    BY <1>5 DEF SyncAgain, NewUploader
  <2> QED BY <1>b, <2>1 DEF Completed
<1> QED BY <1>1, <1>2, <1>3, <1>4, <1>5, <1>b DEF Next

\* SInv holds in every reachable state of an upload without compression.
LEMMA SInvariance == NumBlocks = 0 => (Spec => []SInv)
<1> SUFFICES ASSUME NumBlocks = 0 PROVE Spec => []SInv
  OBVIOUS
<1>1. Init => SInv
  BY InitHolds, ScheduledInit DEF SInv
<1>2. IInv /\ [Next]_vars => IInv'
  BY TypeStep, InitiatedStep, CountingStep, CompressingStep, PumpingStep, SendingStep,
     ObjectStep, ScratchedStep DEF IInv
<1>3. SInv /\ [Next]_vars => SInv'
  BY <1>2, ScheduledStep, CountedOnceStep DEF SInv
<1> QED BY <1>1, <1>3, PTL DEF Spec

\* Without compression, complete_multipart is called with the etags of all parts,
\* however many there are and whatever was retried before.
THEOREM CompletedWhole == NumBlocks = 0 => (Spec => CompleteSentWhole)
<1> SUFFICES ASSUME NumBlocks = 0 PROVE Spec => CompleteSentWhole
  OBVIOUS
<1>1. SInv /\ [Next]_vars =>
        [\A k \in Start : \A i \in Part :
           part[k][i].pc = "sent" /\ part'[k][i].pc # "sent" /\ Last => etags_' = Part]_vars
  <2> SUFFICES ASSUME SInv, Next, NEW k \in Start, NEW i \in Part,
                      part[k][i].pc = "sent", part'[k][i].pc # "sent", Last
               PROVE  etags_' = Part
    OBVIOUS
  <2>a. /\ TypeOK /\ Initiated /\ Start = {1} /\ k = 1 /\ Block = {} /\ Scheduled /\ CountedOnce
        /\ part \in [Start -> [Part -> PartType]] /\ part[1] \in [Part -> PartType]
    BY TypeNamed, OneStart DEF SInv, IInv, TypeParts
  <2> USE DEF remote, content, local
  <2>b. part' # part
    OBVIOUS
  <2>1. CASE UploaderStep
    BY <2>1, <2>a, <2>b, UploaderAlone
  <2>2. CASE Modify \/ CompressorStep \/ UnlinkScratch \/ Finished
    BY <2>2, <2>b DEF Modify, CompressorStep, Split, SplitDies, UnlinkScratch, Finished, vars
  <2>3. ASSUME NEW f \in Pump, PumpStep(1, f) PROVE FALSE
    <3>1. CASE PumpDies(1, f)
      BY <2>b, <3>1 DEF PumpDies
    <3>2. CASE ReadSegment(1, f)
      <4>1. PICK j \in pump[1][f].todo :
              part' = [part EXCEPT ![1][j] = [pc |-> "queued", data |-> Content, attempt |-> 0]]
        BY <3>2 DEF ReadSegment
      <4>2. j \in Part /\ part[1][j].pc = "idle"
        BY <4>1, <2>a DEF Scheduled, PartsOf
      <4>3. part'[1][i] = part[1][i]
        BY <2>a, <4>1, <4>2
      <4> QED BY <2>a, <4>3
    <3> QED BY <2>3, <3>1, <3>2 DEF PumpStep
  <2>4. ASSUME NEW j \in Part, PartStep(1, j) PROVE etags_' = Part
    <3>1. i = j
      BY <2>4, <2>a, PartRecord
    <3>2. etags_' = etags_ \cup {i}
      BY <2>4, <2>a, <3>1 DEF PartStep, SendPart, SendPartWarns, SendPartDies, CountPart,
         CompleteUpload, CompleteWarns, CompleteDies, Count
    <3> QED BY <2>a, <3>2, CountedBefore
  <2>5. CASE SyncAgain
    BY <2>5, <2>a DEF SyncAgain, Drained, Ended
  <2> QED BY <2>1, <2>2, <2>3, <2>4, <2>5, <2>a DEF Next
<1> QED BY <1>1, SInvariance, PTL DEF Spec, CompleteSentWhole

\* A command that has nothing left to do, and no failure, has counted all its parts.
LEMMA AllCounted ==
  ASSUME NumBlocks = 0, EInv, Drained, ~failed, id # 0
  PROVE  num_completed_ >= NumParts
<1>a. IInv /\ Scheduled /\ CountedOnce /\ FailuresCounted /\ 1 \in Start
  BY OneStart DEF EInv, SInv
<1>1. \A f \in Pump : pump[1][f].pc = "done"
  BY <1>a DEF Drained, Ended, Scheduled, FailuresCounted
<1>2. \A i \in Part : part[1][i].pc # "idle"
  BY <1>a, <1>1, PartsCovered DEF Scheduled
<1>3. DoneParts = Part
  BY <1>a, <1>2 DEF Drained, Ended, FailuresCounted, DoneParts
<1>4. num_completed_ \in Nat /\ NumParts \in Nat
  BY <1>a, UploadAssumption DEF IInv, TypeOK
<1> QED BY <1>a, <1>3, <1>4, PartsFinite DEF CountedOnce

\* EInv is kept, if the completion cannot fail.
LEMMA EStep ==
  ASSUME NumBlocks = 0, "complete" \notin Faults, EInv, [Next]_vars
  PROVE  EInv'
<1>1. IInv'
  BY TypeStep, InitiatedStep, CountingStep, CompressingStep, PumpingStep, SendingStep,
     ObjectStep, ScratchedStep DEF EInv, SInv, IInv
<1> QED BY <1>1, ScheduledStep, CountedOnceStep, FailuresStep, CompletedStep DEF EInv, SInv

\* Without compression, and if a completion does not fail once its part has been
\* counted, a command that returns and reports no failure has stored the object.
THEOREM StoredAtEnd ==
  NumBlocks = 0 /\ "complete" \notin Faults => (Spec => []StoredWhenDone)
<1> SUFFICES ASSUME NumBlocks = 0, "complete" \notin Faults PROVE Spec => []StoredWhenDone
  OBVIOUS
<1>1. Init => EInv
  BY InitHolds, ScheduledInit DEF EInv, SInv
<1>3. EInv /\ [Next]_vars => EInv'
  BY EStep
<1>4. EInv => StoredWhenDone
  <2> SUFFICES ASSUME EInv, Drained, ~failed
               PROVE  object.meta = uploader.mtime /\ object.data # {}
    BY DEF StoredWhenDone
  <2>a. IInv /\ Scheduled /\ CountedOnce /\ FailuresCounted /\ Completed /\ 1 \in Start
    BY OneStart DEF EInv, SInv
  <2>1. uploader.pc = "done" /\ uploader.mtime # 0
    BY <2>a DEF Drained, FailuresCounted, IInv, Initiated
  <2>2. object.meta = uploader.mtime
    <3>1. CASE id = 0
      BY <2>a, <2>1, <3>1 DEF Completed
    <3>2. CASE id # 0
      <4>1. num_completed_ >= NumParts
        BY <3>2, AllCounted
      <4> QED BY <2>a, <4>1 DEF Completed
    <3> QED BY <3>1, <3>2
  <2> QED BY <2>a, <2>1, <2>2 DEF IInv, Object
<1> QED BY <1>1, <1>3, <1>4, PTL DEF Spec

-----------------------------------------------------------------------------
\* There are finitely many lost uploads.
LEMMA LostFinite ==
  ASSUME TypeOK
  PROVE  /\ IsFiniteSet(Lost) /\ Cardinality(Lost) \in Nat
         /\ DOMAIN uploads = 1..Len(uploads) /\ Len(uploads) \in Nat
<1>1. DOMAIN uploads = 1..Len(uploads) /\ Len(uploads) \in Nat
  BY TypeNamed, LenProperties DEF TypeParts
<1>2. Lost \subseteq 1..Len(uploads) /\ IsFiniteSet(1..Len(uploads))
  BY <1>1, FS_Interval DEF Lost
<1> QED BY <1>1, <1>2, FS_Subset, FS_CardinalityType

\* A new upload whose id does not arrive costs the uploader an attempt.
LEMMA AttemptTaken ==
  ASSUME TypeOK, UploaderStep
  PROVE  \/ failed'
         \/ /\ ~failed /\ uploader'.attempt >= uploader.attempt
            /\ Initiate \/ UNCHANGED <<uploads, id>>
         \/ ~failed /\ InitiateWarns /\ uploader'.attempt = uploader.attempt + 1
<1>1. uploader \in UploaderType
  BY TypeNamed DEF TypeParts
<1>2. uploader.attempt \in Nat
  BY <1>1, UploadAssumption DEF UploaderType
<1>3. ASSUME WarnUploader
      PROVE  failed' \/ (~failed /\ uploader'.attempt = uploader.attempt + 1)
  BY <1>1, <1>3 DEF WarnUploader, NewUploader
<1>4. CASE HeadWarns
  BY <1>2, <1>3, <1>4 DEF HeadWarns, remote, content
<1>5. CASE InitiateWarns
  BY <1>3, <1>5 DEF InitiateWarns
<1>6. CASE Stat \/ Compare \/ HeadRefused
  <2>1. /\ uploader'.attempt = uploader.attempt
        /\ failed' = failed /\ UNCHANGED <<uploads, id>>
    BY <1>1, <1>6 DEF Stat, Compare, HeadRefused, UploaderType, remote, content
  <2> QED BY <1>2, <2>1
<1>7. CASE Initiate
  <2>1. uploader'.attempt = uploader.attempt /\ failed' = failed
    BY <1>1, <1>7 DEF Initiate, UploaderType
  <2> QED BY <1>2, <1>7, <2>1
<1>8. CASE UploaderDies
  BY <1>8 DEF UploaderDies
<1> QED BY <1>4, <1>5, <1>6, <1>7, <1>8 DEF UploaderStep

\* So the uploader loses no more uploads than it has taken attempts.
LEMMA LostByUploader ==
  ASSUME IInv, LostUploads, UploaderStep
  PROVE  LostUploads'
<1>a. TypeOK /\ id = 0 /\ syncs' = syncs
  BY UploaderAlone DEF IInv
<1>b. /\ IsFiniteSet(Lost) /\ Cardinality(Lost) \in Nat /\ Len(uploads) \in Nat
      /\ DOMAIN uploads = 1..Len(uploads)
  BY <1>a, LostFinite
<1>c. syncs \in Nat /\ uploader.attempt \in Nat
  BY <1>a, TypeNamed, UploadAssumption DEF TypeParts, UploaderType
<1>d. Lost = {n \in DOMAIN uploads : uploads[n].run = syncs}
  BY <1>a, <1>b DEF Lost
<1> DEFINE new == Len(uploads) + 1
           more == Append(uploads, NewUpload)
<1>e. uploads' = uploads \/ (uploads' = more /\ uploader.mtime # 0)
  BY DEF UploaderStep, Stat, Compare, HeadWarns, HeadRefused, Initiate, InitiateWarns,
     UploaderDies, remote, IInv, Initiated
<1>f. ASSUME uploads' = more, uploader.mtime # 0
      PROVE  /\ DOMAIN uploads' = DOMAIN uploads \cup {new} /\ new \notin DOMAIN uploads
             /\ \A n \in DOMAIN uploads : uploads'[n] = uploads[n]
             /\ uploads'[new].run = syncs /\ \A i \in Part : uploads'[new].parts[i] = {}
  <2>1. 1..(Len(uploads) + 1) = (1..Len(uploads)) \cup {new} /\ new \notin 1..Len(uploads)
    BY <1>b
  <2> QED BY <1>a, <1>b, <1>f, <2>1, UploadInitiated
<1> HIDE DEF new, more
<1>1. \A n \in DOMAIN uploads' : uploads'[n].run <= syncs'
  BY <1>a, <1>c, <1>e, <1>f DEF LostUploads
<1>2. Lost' \subseteq Lost \cup {new}
  BY <1>a, <1>d, <1>e, <1>f DEF Lost
<1>3. \A n \in Lost' : \A i \in Part : uploads'[n].parts[i] = {}
  BY <1>a, <1>d, <1>e, <1>f DEF LostUploads, Lost
<1>4. Cardinality(Lost') \in Nat /\ Cardinality(Lost') <= Cardinality(Lost) + 1
  <2>1. /\ IsFiniteSet(Lost \cup {new})
        /\ Cardinality(Lost \cup {new}) <= Cardinality(Lost) + 1
    <3>1. /\ IsFiniteSet(Lost \cup {new})
          /\ Cardinality(Lost \cup {new}) =
               IF new \in Lost THEN Cardinality(Lost) ELSE Cardinality(Lost) + 1
      BY <1>b, FS_AddElement, Zenon
    <3> QED BY <1>b, <3>1
  <2>2. Cardinality(Lost') <= Cardinality(Lost \cup {new}) /\ Cardinality(Lost') \in Nat
    BY <1>2, <2>1, FS_Subset, FS_CardinalityType
  <2>3. Cardinality(Lost \cup {new}) \in Nat
    BY <2>1, FS_CardinalityType
  <2> QED BY <1>b, <2>1, <2>2, <2>3
<1>5. Initiate \/ UNCHANGED <<uploads, id>> => Lost' = Lost
  <2>1. CASE UNCHANGED <<uploads, id>>
    BY <1>a, <2>1 DEF Lost
  <2>2. CASE Initiate
    <3>1. id' = new /\ uploads' = more
      BY <2>2 DEF Initiate, new, more
    <3>2. uploader.mtime # 0
      BY <2>2 DEF Initiate, IInv, Initiated
    <3> QED BY <1>a, <1>d, <1>f, <3>1, <3>2 DEF Lost
  <2> QED BY <2>1, <2>2
<1>6. ~failed' => Cardinality(Lost') <= uploader'.attempt
  <2>1. SUFFICES ASSUME ~failed' PROVE Cardinality(Lost') <= uploader'.attempt
    OBVIOUS
  <2>2. uploader' \in UploaderType
    <3>1. TypeOK'
      BY TypeStep DEF Next
    <3> QED BY <3>1, TypeNamed DEF TypeParts
  <2>3. uploader'.attempt \in Nat
    BY <2>2, UploadAssumption DEF UploaderType
  <2>4. CASE ~failed /\ uploader'.attempt >= uploader.attempt
                    /\ (Initiate \/ UNCHANGED <<uploads, id>>)
    BY <1>b, <1>c, <1>5, <2>3, <2>4 DEF LostUploads
  <2>5. CASE ~failed /\ uploader'.attempt = uploader.attempt + 1
    BY <1>b, <1>c, <1>4, <2>3, <2>5 DEF LostUploads
  <2> QED BY <1>a, <2>1, <2>4, <2>5, AttemptTaken
<1> QED BY <1>1, <1>3, <1>6 DEF LostUploads

\* Other steps lose none, and fill only the one whose id is known.
LEMMA LostStep == IInv /\ LostUploads /\ [Next]_vars => LostUploads'
<1> SUFFICES ASSUME IInv, LostUploads, [Next]_vars PROVE LostUploads'
  OBVIOUS
<1>a. TypeOK /\ Initiated
  BY DEF IInv
<1>b. syncs \in Nat /\ uploader.attempt \in Nat
  BY <1>a, TypeNamed, UploadAssumption DEF TypeParts, UploaderType
<1>c. ASSUME UNCHANGED <<uploads, id, uploader, syncs>>, failed => failed' PROVE LostUploads'
  BY <1>c DEF LostUploads, Lost
<1> USE DEF remote, content, local
<1>1. CASE UploaderStep
  BY <1>1, LostByUploader
<1>2. CASE Modify \/ CompressorStep \/ UnlinkScratch \/ Finished \/ UNCHANGED vars
  BY <1>2, <1>c DEF Modify, CompressorStep, Split, SplitDies, UnlinkScratch, Finished, vars
<1>3. ASSUME NEW b \in Block, BlockStep(b) PROVE LostUploads'
  BY <1>3, <1>c DEF BlockStep, Compress, CompressDies, CountBlock, FinishBlock
<1>4. ASSUME NEW k \in Start, NEW f \in Pump, PumpStep(k, f) PROVE LostUploads'
  BY <1>4, <1>c DEF PumpStep, ReadSegment, PumpDies
<1>5. ASSUME NEW k \in Start, NEW i \in Part, PartStep(k, i) PROVE LostUploads'
  <2>1. /\ UNCHANGED <<uploader, id, syncs>> /\ (failed => failed')
        /\ DOMAIN uploads' = DOMAIN uploads
        /\ \A n \in DOMAIN uploads : uploads'[n].run = uploads[n].run
    BY <1>5, <1>a, OthersAfter, PartRecord, PartChanges
  <2>2. \A n \in DOMAIN uploads \ {id} : \A j \in Part :
          uploads'[n].parts[j] = uploads[n].parts[j]
    BY <1>5, <1>a, PartChanges
  <2>3. Lost' = Lost
    BY <2>1 DEF Lost
  <2>4. \A n \in Lost' : \A j \in Part : uploads'[n].parts[j] = {}
    BY <2>2, <2>3 DEF LostUploads, Lost
  <2> QED BY <2>1, <2>3, <2>4 DEF LostUploads
<1>6. CASE SyncAgain
  <2>1. syncs' = syncs + 1 /\ uploads' = uploads /\ uploader'.attempt = 0
    BY <1>6 DEF SyncAgain, NewUploader
  <2>2. \A n \in DOMAIN uploads : uploads[n].run \in Nat /\ uploads[n].run <= syncs
    <3>1. uploads \in Seq(UploadType)
      BY <1>a, TypeNamed DEF TypeParts
    <3>2. \A n \in DOMAIN uploads : uploads[n] \in UploadType
      BY <1>a, <3>1, LostFinite, ElementOfSeq
    <3> QED BY <3>2 DEF LostUploads, UploadType
  <2>3. Lost' = {}
    BY <1>b, <2>1, <2>2 DEF Lost
  <2>4. \A n \in DOMAIN uploads' : uploads'[n].run <= syncs'
    BY <1>b, <2>1, <2>2
  <2> QED BY <2>1, <2>3, <2>4, FS_EmptySet DEF LostUploads
<1> QED BY <1>1, <1>2, <1>3, <1>4, <1>5, <1>6 DEF Next

\* Whoever counts the last part completes the upload, or reports a failure.
LEMMA ClosedStep ==
  ASSUME NumBlocks = 0, "complete" \notin Faults, IInv, ClosedAtLast, [Next]_vars
  PROVE  ClosedAtLast'
<1>a. TypeOK /\ Initiated
  BY DEF IInv
<1>b. /\ Start = {1} /\ 1 \in Start /\ Block = {}
      /\ num_completed_ \in Nat /\ NumParts \in Nat \ {0}
  BY <1>a, TypeNamed, OneStart, UploadAssumption DEF TypeParts
<1>c. ASSUME UNCHANGED <<uploads, id, num_completed_>>, failed => failed' PROVE ClosedAtLast'
  BY <1>c DEF ClosedAtLast
<1> USE DEF remote, content, local
<1>1. CASE UploaderStep
  <2>1. num_completed_' = 0
    BY <1>1, <1>a, UploaderAlone DEF NothingYet
  <2> QED BY <1>b, <2>1 DEF ClosedAtLast
<1>2. CASE Modify \/ CompressorStep \/ UnlinkScratch \/ Finished \/ UNCHANGED vars
  BY <1>2, <1>c DEF Modify, CompressorStep, Split, SplitDies, UnlinkScratch, Finished, vars
<1>3. ASSUME NEW f \in Pump, PumpStep(1, f) PROVE ClosedAtLast'
  BY <1>3, <1>c DEF PumpStep, ReadSegment, PumpDies
<1>4. ASSUME NEW i \in Part, PartStep(1, i) PROVE ClosedAtLast'
  <2>1. /\ id' = id /\ (failed => failed')
        /\ uploads'[id].open => uploads[id].open
        /\ CompleteUpload(1, i) => ~uploads'[id].open
    <3>1. id \in DOMAIN uploads
      BY <1>4, <1>a, <1>b, OthersAfter, LostFinite DEF TypeOK
    <3> QED BY <1>4, <1>a, <1>b, <3>1, OthersAfter, PartRecord, PartChanges
  <2>2. CASE CompleteUpload(1, i)
    BY <2>1, <2>2 DEF ClosedAtLast
  <2>3. CASE CompleteWarns(1, i) \/ CompleteDies(1, i)
    BY <2>3 DEF CompleteWarns, CompleteDies, FailPart, ClosedAtLast
  <2>4. CASE CountPart(1, i)
    <3>1. num_completed_' = num_completed_ + 1 /\ num_completed_ + 1 # NumParts
      BY <2>4 DEF CountPart, Count, Last
    <3>2. num_completed_' >= NumParts => num_completed_ >= NumParts
      BY <1>b, <3>1
    <3> QED BY <2>1, <3>2 DEF ClosedAtLast
  <2>5. CASE SendPart(1, i) \/ SendPartWarns(1, i) \/ SendPartDies(1, i)
    <3>1. num_completed_' = num_completed_
      BY <2>5 DEF SendPart, SendPartWarns, SendPartDies
    <3> QED BY <2>1, <3>1 DEF ClosedAtLast
  <2> QED BY <1>4, <2>2, <2>3, <2>4, <2>5 DEF PartStep
<1>5. CASE SyncAgain
  <2>1. num_completed_' = 0
    BY <1>5 DEF SyncAgain
  <2> QED BY <1>b, <2>1 DEF ClosedAtLast
<1> QED BY <1>1, <1>2, <1>3, <1>4, <1>5, <1>b DEF Next

\* Without compression, and if a completion does not fail once its part has been
\* counted, a command that reports no failure leaves open no upload that has parts, and
\* no more than it has repeated its attempt to initiate one.
THEOREM OrphansAreEmpty ==
  NumBlocks = 0 /\ "complete" \notin Faults => (Spec => []OrphansEmpty)
<1> SUFFICES ASSUME NumBlocks = 0, "complete" \notin Faults PROVE Spec => []OrphansEmpty
  OBVIOUS
<1>1. Init => OInv
  <2> SUFFICES ASSUME Init PROVE OInv
    OBVIOUS
  <2>1. EInv
    BY InitHolds, ScheduledInit DEF EInv, SInv
  <2>2. uploads = <<>> /\ num_completed_ = 0 /\ uploader.attempt = 0
    BY DEF Init, NewUploader
  <2>3. Lost = {} /\ DOMAIN uploads = {}
    BY <2>2 DEF Lost
  <2> QED BY <2>1, <2>2, <2>3, FS_EmptySet, UploadAssumption DEF OInv, LostUploads, ClosedAtLast
<1>2. OInv /\ [Next]_vars => OInv'
  <2> SUFFICES ASSUME OInv, [Next]_vars PROVE OInv'
    OBVIOUS
  <2>1. EInv /\ IInv /\ LostUploads /\ ClosedAtLast
    BY DEF OInv, EInv, SInv
  <2> QED BY <2>1, EStep, LostStep, ClosedStep DEF OInv
<1>3. OInv => OrphansEmpty
  <2> SUFFICES ASSUME OInv, Drained, ~failed
               PROVE  /\ \A n \in Orphans : \A i \in Part : uploads[n].parts[i] = {}
                      /\ Cardinality(Orphans) <= uploader.attempt
    BY DEF OrphansEmpty
  <2>a. EInv /\ TypeOK /\ LostUploads /\ ClosedAtLast
    BY DEF OInv, EInv, SInv, IInv
  <2>1. Orphans \subseteq Lost
    <3>1. CASE id = 0
      BY <2>a, <3>1, LostFinite DEF Orphans, Lost
    <3>2. CASE id # 0
      BY <2>a, <3>2, AllCounted DEF Orphans, Lost, ClosedAtLast
    <3> QED BY <3>1, <3>2
  <2>2. /\ Cardinality(Orphans) <= Cardinality(Lost) /\ Cardinality(Lost) \in Nat
        /\ Cardinality(Orphans) \in Nat
    BY <2>a, <2>1, LostFinite, FS_Subset, FS_CardinalityType
  <2>3. uploader.attempt \in Nat
    BY <2>a, TypeNamed, UploadAssumption DEF TypeParts, UploaderType
  <2> QED BY <2>a, <2>1, <2>2, <2>3 DEF LostUploads
<1> QED BY <1>1, <1>2, <1>3, PTL DEF Spec
=============================================================================
