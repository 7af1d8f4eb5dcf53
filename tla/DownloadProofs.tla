--------------------------- MODULE DownloadProofs ---------------------------
(***************************************************************************)
(* Theorems about Download, for any number of segments, attempts, versions *)
(* of the object and runs of the command, and any faults.                  *)
(***************************************************************************)
EXTENDS Download, FiniteSetTheorems, TLAPS

Done == {i \in Segment : segment[i].pc = "done"}
AllDone == \A i \in Segment : segment[i].pc = "done"

\* Versions found in a file that is no older than what HEAD said.
Fresh(data) ==
    /\ data # {}
    /\ Hole \notin data
    /\ \A v \in data : downloader.mtime <= v /\ v <= version

\* A writer that fails to install the file has been counted, as the last one.
Counting ==
    \/ segments_read_ = Cardinality(Done)
    \/ /\ segments_read_ = NumSegments
       /\ \A i \in Segment : segment[i].pc \in {"done", "failed"}

\* HEAD comes first, and what is fetched later is as new or newer.
Fetched ==
    /\ downloader.mtime <= version
    /\ downloader.pc = "head" => downloader.mtime = 0
    /\ downloader.pc # "done" => \A i \in Segment : segment[i].pc = "idle"
    /\ \A i \in Segment :
         segment[i].pc \in {"fetched", "written", "done"} =>
           downloader.mtime # 0 /\ Fresh(segment[i].data)

\* The decompressor exists if the last writer has scheduled it.
Inflating ==
    /\ decompressor = "idle" <=> delete_temp_file_
    /\ decompressor # "idle" => AllDone
    /\ decompressor \in {"inflated", "installed"} => Fresh(inflated)

\* The target is never older than its time says.
Target ==
    /\ NoHoles
    /\ file.mtime <= version
    /\ file.mtime # 0 =>
         file.data # {} /\ \A v \in file.data : file.mtime <= v /\ v <= version

Temporary ==
    /\ \A t \in temp : t[1] <= syncs
    /\ (\E i \in Segment : segment[i].pc \in {"queued", "fetched", "written"}) => Local \in temp
    /\ SourceKept
    /\ decompressor = "done" => Local \notin temp
    /\ Output \in temp => decompressor = "inflated"

\* A failure that keeps the file from its place has been counted.
Stored ==
    /\ downloader.pc = "failed" => failed
    /\ \A i \in Segment : segment[i].pc = "failed" => failed
    /\ decompressor = "failing" => failed
    /\ downloader.pc = "done" /\ (\E i \in Segment : segment[i].pc = "idle") =>
         \/ file.mtime = downloader.mtime /\ downloader.mtime # 0
         \/ downloader.mtime = 0 /\ segment[1].pc \in {"queued", "failed"}
    /\ AllDone =>
         IF downloader.compressed
         THEN /\ decompressor # "idle"
              /\ decompressor \in {"installed", "done"} /\ ~failed =>
                   file.mtime = downloader.mtime
         ELSE file.mtime = downloader.mtime

IInv == TypeOK /\ Counting /\ Fetched /\ Inflating /\ Target /\ Temporary /\ Stored

-----------------------------------------------------------------------------
\* Segments are finitely many.
LEMMA SegmentFinite == IsFiniteSet(Segment) /\ Cardinality(Segment) = NumSegments
  BY DownloadAssumption, FS_Interval DEF Segment

\* A written segment is the last one to be counted exactly if all others are done.
LEMMA LastOne ==
  ASSUME TypeOK, Counting, NEW i \in Segment, segment[i].pc = "written"
  PROVE  /\ Last <=> \A j \in Segment \ {i} : segment[j].pc = "done"
         /\ segments_read_ = Cardinality(Done)
         /\ segments_read_ + 1 \in 0..NumSegments
         /\ Cardinality(Done \cup {i}) = segments_read_ + 1
<1> DEFINE Others == Segment \ {i}
<1>1. segments_read_ = Cardinality(Done)
  BY DEF Counting
<1>2. Done \subseteq Others /\ i \notin Done
  BY DEF Done
<1>3. IsFiniteSet(Others) /\ Cardinality(Others) = NumSegments - 1
  BY SegmentFinite, FS_RemoveElement
<1>4. /\ IsFiniteSet(Done)
      /\ Cardinality(Done) <= NumSegments - 1
      /\ Cardinality(Done) = NumSegments - 1 => Done = Others
  <2> HIDE DEF Others
  <2> QED BY <1>2, <1>3, FS_Subset
<1>5. Cardinality(Done \cup {i}) = Cardinality(Done) + 1
  BY <1>2, <1>4, FS_AddElement
<1>6. Cardinality(Done) \in Nat
  BY <1>4, FS_CardinalityType
<1>7. Last <=> Done = Others
  BY <1>1, <1>3, <1>4, <1>6, DownloadAssumption DEF Last
<1> QED BY <1>1, <1>4, <1>5, <1>6, <1>7, DownloadAssumption DEF Done

\* Nobody invents versions.
LEMMA ContentType == TypeOK => Content \in SUBSET (Version \cup {Hole})
  BY DEF TypeOK, Content

\* When every segment has been written, the temporary file is as fresh as they are.
LEMMA ContentFresh ==
  ASSUME TypeOK, Fetched, \A i \in Segment : segment[i].pc \in {"written", "done"}
  PROVE  Fresh(Content)
<1>1. 1 \in Segment
  BY DownloadAssumption DEF Segment
<1>2. Content = UNION {segment[i].data : i \in Segment}
  BY DEF Content
<1> QED BY <1>1, <1>2 DEF Fetched, Fresh

-----------------------------------------------------------------------------
SegmentPc == {"idle", "queued", "fetched", "written", "done", "failed"}
SegmentType == [pc : SegmentPc, data : SUBSET Version, attempt : 0..(MaxAttempts - 1)]
DownloaderType == [pc : {"head", "create", "done", "failed"}, mtime : Version \cup {0},
                   compressed : BOOLEAN, attempt : 0..(MaxAttempts - 1)]
FileType == [mtime : Version \cup {0}, data : SUBSET (Version \cup {Hole})]

\* What the tasks are at the start of a command.
LEMMA NewTasks ==
  /\ NewDownloader \in DownloaderType
  /\ IdleSegments \in [Segment -> SegmentType]
<1>1. 0 \in 0..(MaxAttempts - 1)
  BY DownloadAssumption
<1>2. [pc |-> "idle", data |-> {}, attempt |-> 0] \in SegmentType
  BY <1>1 DEF SegmentType, SegmentPc
<1>3. NewDownloader \in DownloaderType
  BY <1>1 DEF NewDownloader, DownloaderType
<1> HIDE DEF SegmentType
<1> QED BY <1>2, <1>3 DEF IdleSegments

\* The type invariant with names for the records.
TypeParts ==
    /\ version \in Version
    /\ file \in FileType
    /\ downloader \in DownloaderType
    /\ segment \in [Segment -> SegmentType]
    /\ segments_read_ \in 0..NumSegments
    /\ decompressor \in {"idle", "queued", "inflated", "installed", "failing", "done"}
    /\ inflated \in SUBSET (Version \cup {Hole})
    /\ delete_temp_file_ \in BOOLEAN
    /\ temp \subseteq (1..NumSyncs) \X {"local", "output"}
    /\ failed \in BOOLEAN
    /\ syncs \in 1..NumSyncs

\* The type invariant with its sets of records named.
LEMMA TypeNamed == (TypeOK <=> TypeParts) /\ (TypeOK' <=> TypeParts')
  BY DEF TypeOK, TypeParts, FileType, DownloaderType, SegmentType, SegmentPc

\* What the steps of a segment make of its record.
LEMMA SegmentChanges ==
  ASSUME TypeOK, NEW i \in Segment
  PROVE  /\ segment \in [Segment -> SegmentType]
         /\ \A c \in SegmentPc : [segment EXCEPT ![i].pc = c] \in [Segment -> SegmentType]
         /\ [segment EXCEPT ![i].pc = "fetched", ![i].data = {version}]
              \in [Segment -> SegmentType]
         /\ segment[i].attempt + 1 < MaxAttempts =>
              [segment EXCEPT ![i].attempt = @ + 1] \in [Segment -> SegmentType]
<1>1. segment \in [Segment -> SegmentType] /\ version \in Version
  BY DEF TypeOK, SegmentType, SegmentPc
<1>2. ASSUME NEW c \in SegmentPc PROVE [segment[i] EXCEPT !.pc = c] \in SegmentType
  BY <1>1 DEF SegmentType
<1>3. [segment EXCEPT ![i].pc = "fetched", ![i].data = {version}]
        = [segment EXCEPT ![i] = [@ EXCEPT !.pc = "fetched", !.data = {version}]]
  BY <1>1
<1>4. [segment[i] EXCEPT !.pc = "fetched", !.data = {version}] \in SegmentType
  BY <1>1 DEF SegmentType, SegmentPc
<1>5. ASSUME segment[i].attempt + 1 < MaxAttempts
      PROVE  [segment[i] EXCEPT !.attempt = @ + 1] \in SegmentType
  BY <1>1, <1>5, DownloadAssumption DEF SegmentType
<1> HIDE DEF SegmentType
<1> QED BY <1>1, <1>2, <1>3, <1>4, <1>5

-----------------------------------------------------------------------------
\* The command starts in a state of the invariant.
LEMMA InitHolds == Init => IInv
<1> SUFFICES ASSUME Init PROVE IInv
  OBVIOUS
<1>1. TypeOK
  <2>1. file \in FileType /\ version \in Version
    BY DownloadAssumption DEF Init, FileType, Version
  <2>2. 0 \in 0..NumSegments /\ 1 \in 1..NumSyncs
    BY DownloadAssumption
  <2> QED BY <2>1, <2>2, NewTasks, TypeNamed DEF Init, TypeParts
<1> USE DEF Init, NewDownloader, IdleSegments
<1>2. Counting
  BY FS_EmptySet DEF Counting, Done
<1>3. 1 \in Segment
  BY DownloadAssumption DEF Segment
<1>4. Fetched /\ Inflating /\ Target /\ Temporary
  BY DEF Fetched, Inflating, Target, NoHoles, Hole, Temporary, SourceKept, Local, Output
<1>5. Stored
  BY <1>3 DEF Stored, AllDone
<1> QED BY <1>1, <1>2, <1>4, <1>5 DEF IInv

\* Every step keeps the types.
LEMMA TypeStep == IInv /\ [Next]_vars => TypeOK'
<1> SUFFICES ASSUME IInv, [Next]_vars PROVE TypeParts'
  BY TypeNamed
<1>a. TypeOK /\ Counting /\ TypeParts
  BY TypeNamed DEF IInv
<1> USE <1>a DEF TypeParts
<1>1. CASE Replace
  BY <1>1, DownloadAssumption DEF Replace, Version
<1>2. CASE DownloaderStep
  <2> USE DEF DownloaderType, tail
  <2>1. CASE Compare
    BY <2>1 DEF Compare
  <2>2. CASE HeadWarns
    <3>1. CASE downloader.attempt + 1 < MaxAttempts
      <4>1. [downloader EXCEPT !.attempt = @ + 1] \in DownloaderType
        BY <3>1, DownloadAssumption
      <4> HIDE DEF DownloaderType
      <4> QED BY <2>2, <3>1, <4>1 DEF HeadWarns
    <3>2. CASE ~(downloader.attempt + 1 < MaxAttempts)
      BY <2>2, <3>2 DEF HeadWarns
    <3> QED BY <3>1, <3>2
  <2>3. CASE HeadRefused
    BY <2>3 DEF HeadRefused
  <2>4. CASE Create
    <3>1. downloader' \in DownloaderType
      BY <2>4 DEF Create
    <3>2. ASSUME NEW i \in Segment PROVE segment'[i] \in SegmentType
      BY <2>4 DEF Create, SegmentType, SegmentPc
    <3>3. segment' \in [Segment -> SegmentType]
      BY <2>4, <3>2 DEF Create
    <3>4. temp' \subseteq (1..NumSyncs) \X {"local", "output"}
      BY <2>4 DEF Create, Local
    <3> HIDE DEF DownloaderType
    <3> QED BY <2>4, <3>1, <3>3, <3>4 DEF Create
  <2>5. CASE DownloaderDies
    BY <2>5 DEF DownloaderDies
  <2> QED BY <1>2, <2>1, <2>2, <2>3, <2>4, <2>5 DEF DownloaderStep
<1>3. ASSUME NEW i \in Segment, SegmentStep(i) PROVE TypeParts'
  <2> USE SegmentChanges DEF tail, Move, Fail, SegmentPc
  <2>1. CASE Fetch(i)
    BY <2>1 DEF Fetch
  <2>2. CASE FetchWarns(i)
    BY <2>2 DEF FetchWarns, WarnSegment
  <2>3. CASE FetchDies(i) \/ WriteDies(i)
    BY <2>3 DEF FetchDies, WriteDies
  <2>4. CASE Write(i)
    BY <2>4 DEF Write
  <2>5. CASE CountSegment(i) \/ Install(i) \/ InstallDies(i) \/ StartDecompress(i)
    <3>1. segments_read_ + 1 \in 0..NumSegments
      BY <2>5, LastOne DEF CountSegment, Install, InstallDies, StartDecompress
    <3>2. CASE CountSegment(i)
      BY <3>1, <3>2 DEF CountSegment
    <3>3. CASE Install(i)
      <4>1. file' \in FileType
        BY <3>3, ContentType DEF Install, Stamp, FileType, DownloaderType
      <4> QED BY <3>1, <3>3, <4>1 DEF Install
    <3>4. CASE InstallDies(i)
      BY <3>1, <3>4 DEF InstallDies
    <3>5. CASE StartDecompress(i)
      BY <3>1, <3>5 DEF StartDecompress, PassTemp
    <3> QED BY <2>5, <3>2, <3>3, <3>4, <3>5
  <2> QED BY <1>3, <2>1, <2>2, <2>3, <2>4, <2>5 DEF SegmentStep
<1>4. CASE DropContent
  BY <1>4 DEF DropContent, tail
<1>5. CASE DecompressorStep
  <2>1. CASE Inflate
    BY <2>1, ContentType DEF Inflate, Output
  <2>2. CASE InflateDies
    BY <2>2 DEF InflateDies
  <2>3. CASE InstallInflated
    <3>1. file' \in FileType
      BY <2>3 DEF InstallInflated, Stamp, FileType, DownloaderType
    <3> QED BY <2>3, <3>1 DEF InstallInflated
  <2>4. CASE InstallInflatedDies
    BY <2>4 DEF InstallInflatedDies, UnlinkOutput
  <2>5. CASE DropDecompressor
    BY <2>5 DEF DropDecompressor
  <2> QED BY <1>5, <2>1, <2>2, <2>3, <2>4, <2>5 DEF DecompressorStep
<1>6. CASE SyncAgain \/ Crash
  <2>1. Restart
    BY <1>6 DEF SyncAgain, Crash
  <2>2. 0 \in 0..NumSegments /\ syncs' \in 1..NumSyncs
    BY <2>1, DownloadAssumption DEF Restart
  <2> QED BY <2>1, <2>2, NewTasks DEF Restart
<1>7. CASE Finished \/ UNCHANGED vars
  BY <1>7 DEF Finished, vars
<1> QED BY <1>1, <1>2, <1>3, <1>4, <1>5, <1>6, <1>7 DEF Next

\* A writer that is counted joins the segments that are done, or is the last one.
LEMMA CountingStep == IInv /\ [Next]_vars => Counting'
<1> SUFFICES ASSUME IInv, [Next]_vars PROVE Counting'
  OBVIOUS
<1>a. TypeOK /\ TypeOK' /\ Counting /\ Fetched /\ Inflating
  BY TypeStep DEF IInv
<1>b. segment \in [Segment -> SegmentType]
  BY <1>a, TypeNamed DEF TypeParts
<1>c. SUFFICES ASSUME segments_read_' # segments_read_ \/ segment' # segment
      PROVE Counting'
  BY <1>a DEF Counting, Done
<1> USE DEF tail, Move, Fail
<1>1. CASE Create
  <2>1. \A i \in Segment : segment[i].pc = "idle" /\ segment'[i].pc # "done"
    BY <1>1, <1>a, <1>b DEF Create, Fetched, SegmentType
  <2>2. Done = {} /\ Done' = {}
    BY <2>1 DEF Done
  <2>3. segments_read_' = segments_read_
    BY <1>1 DEF Create
  <2>4. 1 \in Segment
    BY DownloadAssumption DEF Segment
  <2> QED BY <1>a, <2>1, <2>2, <2>3, <2>4 DEF Counting
<1>2. ASSUME NEW i \in Segment, SegmentStep(i) PROVE Counting'
  <2>1. CASE Fetch(i) \/ FetchWarns(i) \/ FetchDies(i) \/ Write(i) \/ WriteDies(i)
    <3>1. /\ segments_read_' = segments_read_
          /\ segment[i].pc \in {"queued", "fetched"}
          /\ segment'[i].pc # "done"
          /\ \A j \in Segment \ {i} : segment'[j] = segment[j]
      BY <1>b, <2>1 DEF Fetch, FetchWarns, WarnSegment, FetchDies, Write, WriteDies, SegmentType
    <3>2. Done' = Done
      BY <3>1 DEF Done
    <3> QED BY <1>a, <3>1, <3>2 DEF Counting
  <2>2. CASE CountSegment(i) \/ Install(i) \/ StartDecompress(i)
    <3>1. /\ segments_read_' = segments_read_ + 1
          /\ segment[i].pc = "written"
          /\ segment'[i].pc = "done"
          /\ \A j \in Segment \ {i} : segment'[j] = segment[j]
      BY <1>b, <2>2 DEF CountSegment, Install, StartDecompress, SegmentType
    <3>2. Done' = Done \cup {i}
      BY <3>1 DEF Done
    <3> QED BY <1>a, <3>1, <3>2, LastOne DEF Counting
  <2>3. CASE InstallDies(i)
    <3>1. /\ segments_read_' = segments_read_ + 1
          /\ segment[i].pc = "written" /\ Last
          /\ segment'[i].pc = "failed"
          /\ \A j \in Segment \ {i} : segment'[j] = segment[j]
      BY <1>b, <2>3 DEF InstallDies, SegmentType
    <3>2. \A j \in Segment \ {i} : segment[j].pc = "done"
      BY <1>a, <3>1, LastOne
    <3> QED BY <3>1, <3>2 DEF Counting, Last
  <2> QED BY <1>2, <2>1, <2>2, <2>3 DEF SegmentStep
<1>3. CASE SyncAgain \/ Crash
  <2>1. segments_read_' = 0 /\ \A i \in Segment : segment'[i].pc = "idle"
    BY <1>3 DEF SyncAgain, Crash, Restart, IdleSegments
  <2>2. Done' = {}
    BY <2>1 DEF Done
  <2> QED BY <2>1, <2>2, FS_EmptySet DEF Counting
<1>4. CASE (DownloaderStep /\ ~Create) \/ Replace \/ DropContent \/ DecompressorStep
           \/ Finished \/ UNCHANGED vars
  BY <1>4, <1>c DEF DownloaderStep, Compare, HeadWarns, HeadRefused, DownloaderDies, Replace,
     DropContent, DecompressorStep, Inflate, InflateDies, InstallInflated,
     InstallInflatedDies, DropDecompressor, Finished, vars
<1> QED BY <1>1, <1>2, <1>3, <1>4 DEF Next, DownloaderStep

\* What a step of a segment leaves alone.
LEMMA SegmentFrame ==
  ASSUME TypeOK, NEW i \in Segment, SegmentStep(i)
  PROVE  /\ UNCHANGED <<version, downloader, inflated, syncs>>
         /\ \A j \in Segment \ {i} : segment'[j] = segment[j]
         /\ segment[i].pc \in {"queued", "fetched", "written"}
         /\ segment'[i].pc # "idle"
         /\ failed => failed'
<1>1. segment \in [Segment -> SegmentType]
  BY TypeNamed DEF TypeParts
<1> USE <1>1 DEF tail, Move, Fail, SegmentType
<1>2. CASE Fetch(i) \/ FetchWarns(i) \/ FetchDies(i) \/ Write(i) \/ WriteDies(i)
  BY <1>2 DEF Fetch, FetchWarns, WarnSegment, FetchDies, Write, WriteDies
<1>3. CASE CountSegment(i) \/ Install(i) \/ InstallDies(i) \/ StartDecompress(i)
  BY <1>3 DEF CountSegment, Install, InstallDies, StartDecompress
<1> QED BY <1>2, <1>3 DEF SegmentStep

\* A segment holds data that is no older than what HEAD has seen.
LEMMA FetchedStep == IInv /\ [Next]_vars => Fetched'
<1> SUFFICES ASSUME IInv, [Next]_vars PROVE Fetched'
  OBVIOUS
<1>a. TypeOK /\ TypeOK' /\ Fetched
  BY TypeStep DEF IInv
<1>b. /\ segment \in [Segment -> SegmentType] /\ downloader \in DownloaderType
      /\ version \in Nat \ {0} /\ version' \in Nat \ {0}
  BY <1>a, TypeNamed, DownloadAssumption DEF TypeParts, Version
<1> USE DEF tail
<1>1. CASE Replace
  BY <1>1, <1>a, <1>b, TypeNamed DEF Replace, Fetched, Fresh, Version, TypeParts, SegmentType,
     DownloaderType
<1>2. CASE DownloaderStep
  <2>1. CASE Compare \/ HeadWarns \/ HeadRefused \/ DownloaderDies
    <3>1. /\ downloader.pc # "done" /\ segment' = segment /\ version' = version
          /\ downloader'.mtime \in {downloader.mtime, version}
          /\ downloader'.pc = "head" => downloader'.mtime = downloader.mtime
          /\ downloader'.pc = "head" => downloader.pc = "head"
      BY <2>1, <1>b DEF Compare, HeadWarns, HeadRefused, DownloaderDies, DownloaderType
    <3> QED BY <1>a, <1>b, <3>1 DEF Fetched
  <2>2. CASE Create
    <3>1. /\ downloader.pc = "create" /\ version' = version
          /\ downloader'.mtime = downloader.mtime /\ downloader'.pc = "done"
          /\ \A i \in Segment : segment'[i].pc \in {"idle", "queued"}
      BY <2>2, <1>a, <1>b DEF Create, DownloaderType, SegmentType, Fetched
    <3> QED BY <1>a, <3>1 DEF Fetched
  <2> QED BY <1>2, <2>1, <2>2 DEF DownloaderStep
<1>3. ASSUME NEW i \in Segment, SegmentStep(i) PROVE Fetched'
  <2>1. downloader.pc = "done"
    BY <1>3, <1>a, SegmentFrame DEF Fetched
  <2>2. segment'[i].pc \in {"fetched", "written", "done"} =>
          downloader.mtime # 0 /\ Fresh(segment'[i].data)
    <3>1. CASE Fetch(i)
      BY <3>1, <1>a, <1>b DEF Fetch, Fetched, Fresh, SegmentType, Hole
    <3>2. CASE ~Fetch(i)
      <4>1. /\ segment'[i].data = segment[i].data
            /\ segment'[i].pc \in {"fetched", "written", "done"} =>
                 segment[i].pc \in {"fetched", "written", "done"}
        BY <3>2, <1>3, <1>b DEF SegmentStep, FetchWarns, WarnSegment, FetchDies, Write, WriteDies,
           CountSegment, Install, InstallDies, StartDecompress, Move, Fail, SegmentType
      <4> QED BY <4>1, <1>a DEF Fetched
    <3> QED BY <3>1, <3>2
  <2> QED BY <1>3, <1>a, <2>1, <2>2, SegmentFrame DEF Fetched, Fresh
<1>4. CASE SyncAgain \/ Crash
  BY <1>4, <1>b DEF SyncAgain, Crash, Restart, NewDownloader, IdleSegments, Fetched
<1>5. CASE DropContent \/ DecompressorStep \/ Finished \/ UNCHANGED vars
  BY <1>5, <1>a DEF DropContent, DecompressorStep, Inflate, InflateDies, InstallInflated,
     InstallInflatedDies, DropDecompressor, Finished, vars, Fetched, Fresh
<1> QED BY <1>1, <1>2, <1>3, <1>4, <1>5 DEF Next

\* The decompressor starts once, when every segment is done.
LEMMA InflatingStep == IInv /\ [Next]_vars => Inflating'
<1> SUFFICES ASSUME IInv, [Next]_vars PROVE Inflating'
  OBVIOUS
<1>a. TypeOK /\ Counting /\ Fetched /\ Inflating
  BY DEF IInv
<1>b. /\ segment \in [Segment -> SegmentType]
      /\ inflated \in SUBSET (Version \cup {Hole}) /\ version \in Version
      /\ downloader \in DownloaderType
  BY <1>a, TypeNamed DEF TypeParts
<1> USE DEF tail
<1>1. CASE Replace
  BY <1>1, <1>a, <1>b, DownloadAssumption DEF Replace, Inflating, AllDone, Fresh, Version, Hole,
     DownloaderType
<1>2. CASE DownloaderStep
  <2>1. downloader.pc # "done"
    BY <1>2 DEF DownloaderStep, Compare, HeadWarns, HeadRefused, Create, DownloaderDies
  <2>2. 1 \in Segment
    BY DownloadAssumption DEF Segment
  <2>3. decompressor = "idle"
    BY <1>a, <2>1, <2>2 DEF Fetched, Inflating, AllDone
  <2>4. UNCHANGED tail
    BY <1>2 DEF DownloaderStep, Compare, HeadWarns, HeadRefused, Create, DownloaderDies
  <2> QED BY <1>a, <2>3, <2>4 DEF Inflating
<1>3. ASSUME NEW i \in Segment, SegmentStep(i) PROVE Inflating'
  <2>1. decompressor = "idle" /\ delete_temp_file_
    BY <1>3, <1>a, SegmentFrame DEF Inflating, AllDone
  <2>2. CASE StartDecompress(i)
    <3>1. segment[i].pc = "written" /\ Last /\ segment'[i].pc = "done"
      BY <2>2, <1>b DEF StartDecompress, Move, SegmentType
    <3>2. \A j \in Segment \ {i} : segment[j].pc = "done"
      BY <3>1, <1>a, LastOne
    <3>3. AllDone'
      BY <3>1, <3>2, <1>a, <1>3, SegmentFrame DEF AllDone
    <3>4. decompressor' = "queued" /\ ~delete_temp_file_'
      BY <2>2 DEF StartDecompress, PassTemp
    <3> QED BY <3>3, <3>4 DEF Inflating
  <2>3. CASE ~StartDecompress(i)
    BY <1>3, <2>1, <2>3 DEF SegmentStep, Fetch, FetchWarns, FetchDies, Write, WriteDies,
       CountSegment, Install, InstallDies, Inflating
  <2> QED BY <2>2, <2>3
<1>4. CASE DecompressorStep
  <2>1. decompressor # "idle" /\ AllDone /\ ~delete_temp_file_
    BY <1>4, <1>a DEF DecompressorStep, Inflate, InflateDies, InstallInflated,
       InstallInflatedDies, DropDecompressor, Inflating
  <2>2. Fresh(Content)
    BY <1>a, <2>1, ContentFresh DEF AllDone
  <2>3. UNCHANGED <<segment, delete_temp_file_, downloader, version>>
    BY <1>4 DEF DecompressorStep, Inflate, InflateDies, InstallInflated,
       InstallInflatedDies, DropDecompressor
  <2>4. decompressor' # "idle"
    BY <1>4 DEF DecompressorStep, Inflate, InflateDies, InstallInflated,
       InstallInflatedDies, DropDecompressor
  <2>5. decompressor' \in {"inflated", "installed"} => Fresh(inflated')
    BY <1>4, <1>a, <2>2 DEF DecompressorStep, Inflate, InflateDies, InstallInflated,
       InstallInflatedDies, DropDecompressor, Inflating
  <2> QED BY <1>a, <2>1, <2>3, <2>4, <2>5 DEF Inflating, AllDone, Fresh
<1>5. CASE SyncAgain \/ Crash
  BY <1>5 DEF SyncAgain, Crash, Restart, Inflating
<1>6. CASE DropContent \/ Finished \/ UNCHANGED vars
  BY <1>6, <1>a DEF DropContent, Finished, vars, Inflating, AllDone, Fresh
<1> QED BY <1>1, <1>2, <1>3, <1>4, <1>5, <1>6 DEF Next

\* The target is replaced by complete files only, no older than their time says.
LEMMA TargetStep == IInv /\ [Next]_vars => Target'
<1> SUFFICES ASSUME IInv, [Next]_vars PROVE Target'
  OBVIOUS
<1>a. TypeOK /\ Counting /\ Fetched /\ Inflating /\ Target
  BY DEF IInv
<1>b. /\ segment \in [Segment -> SegmentType] /\ file \in FileType
      /\ inflated \in SUBSET (Version \cup {Hole}) /\ version \in Version
      /\ downloader \in DownloaderType
  BY <1>a, TypeNamed DEF TypeParts
<1>1. CASE Replace
  BY <1>1, <1>a, <1>b, DownloadAssumption DEF Replace, Target, NoHoles, Version, Hole, FileType
<1>2. ASSUME NEW i \in Segment, Install(i) PROVE Target'
  <2>1. segment[i].pc = "written" /\ \A j \in Segment \ {i} : segment[j].pc = "done"
    BY <1>2, <1>a, LastOne DEF Install
  <2>2. Fresh(Content) /\ downloader.mtime <= version
    BY <1>a, <2>1, ContentFresh DEF Fetched
  <2>3. file' = [mtime |-> downloader.mtime, data |-> Content] /\ version' = version
    BY <1>2 DEF Install, Stamp
  <2> QED BY <2>2, <2>3 DEF Target, NoHoles, Fresh
<1>3. CASE InstallInflated
  <2>1. Fresh(inflated) /\ downloader.mtime <= version
    BY <1>3, <1>a DEF InstallInflated, Inflating, Fetched
  <2>2. file' = [mtime |-> downloader.mtime, data |-> inflated] /\ version' = version
    BY <1>3 DEF InstallInflated, Stamp
  <2> QED BY <2>1, <2>2 DEF Target, NoHoles, Fresh
<1>4. CASE UNCHANGED <<file, version>>
  BY <1>4, <1>a DEF Target, NoHoles
<1>5. ASSUME ~Replace, ~InstallInflated, \A i \in Segment : ~Install(i)
      PROVE  UNCHANGED <<file, version>>
  BY <1>5 DEF Next, DownloaderStep, Compare, HeadWarns, HeadRefused, Create, DownloaderDies,
     SegmentStep, Fetch, FetchWarns, FetchDies, Write, WriteDies, CountSegment, InstallDies,
     StartDecompress, DropContent, DecompressorStep, Inflate, InflateDies, InstallInflatedDies,
     DropDecompressor, SyncAgain, Crash, Restart, Finished, vars
<1> QED BY <1>1, <1>2, <1>3, <1>4, <1>5

\* A temporary file is on the disk as long as a task needs it, and no longer.
LEMMA TemporaryStep == IInv /\ [Next]_vars => Temporary'
<1> SUFFICES ASSUME IInv, [Next]_vars PROVE Temporary'
  OBVIOUS
<1>a. TypeOK /\ Counting /\ Fetched /\ Inflating /\ Temporary
  BY DEF IInv
<1>b. /\ segment \in [Segment -> SegmentType] /\ downloader \in DownloaderType
      /\ syncs \in Nat /\ temp \subseteq Nat \X {"local", "output"}
  BY <1>a, TypeNamed, DownloadAssumption DEF TypeParts
<1> USE DEF tail
<1>1. CASE DownloaderStep
  <2>1. downloader.pc # "done" /\ syncs' = syncs /\ decompressor' = decompressor
    BY <1>1 DEF DownloaderStep, Compare, HeadWarns, HeadRefused, Create, DownloaderDies
  <2>2. 1 \in Segment
    BY DownloadAssumption DEF Segment
  <2>3. decompressor = "idle" /\ \A i \in Segment : segment[i].pc = "idle"
    BY <1>a, <2>1, <2>2 DEF Fetched, Inflating, AllDone
  <2>4. CASE Create
    <3>1. temp' = temp \cup {Local} /\ Local' = Local /\ Output' = Output
      BY <2>4, <2>1 DEF Create, Local, Output
    <3>2. Local[1] = syncs /\ Local # Output
      BY DEF Local, Output
    <3> QED BY <1>a, <1>b, <2>1, <2>3, <3>1, <3>2 DEF Temporary, SourceKept
  <2>5. CASE ~Create
    <3>1. UNCHANGED <<temp, segment, Local, Output>>
      BY <1>1, <2>5, <2>1 DEF DownloaderStep, Compare, HeadWarns, HeadRefused, DownloaderDies,
         Local, Output
    <3> QED BY <1>a, <2>1, <2>3, <3>1 DEF Temporary, SourceKept
  <2> QED BY <2>4, <2>5
<1>2. ASSUME NEW i \in Segment, SegmentStep(i) PROVE Temporary'
  <2>1. decompressor = "idle" /\ segment[i].pc \in {"queued", "fetched", "written"}
    BY <1>2, <1>a, SegmentFrame DEF Inflating, AllDone
  <2>2. Local \in temp /\ Output \notin temp
    BY <1>a, <2>1 DEF Temporary
  <2>3. UNCHANGED <<syncs, Local, Output>>
    BY <1>2, <1>a, SegmentFrame DEF Local, Output
  <2>4. CASE Install(i)
    <3>1. \A j \in Segment \ {i} : segment[j].pc = "done"
      BY <2>4, <1>a, LastOne DEF Install
    <3>2. segment'[i].pc = "done" /\ \A j \in Segment \ {i} : segment'[j] = segment[j]
      BY <2>4, <1>b DEF Install, Move, SegmentType
    <3>3. temp' = temp \ {Local} /\ decompressor' = decompressor
      BY <2>4 DEF Install
    <3>4. \A j \in Segment : segment'[j].pc = "done"
      BY <3>1, <3>2
    <3> QED BY <1>a, <2>1, <2>2, <2>3, <3>3, <3>4 DEF Temporary, SourceKept
  <2>5. CASE ~Install(i)
    <3>1. temp' = temp /\ decompressor' \in {"idle", "queued"}
      BY <1>2, <2>1, <2>5 DEF SegmentStep, Fetch, FetchWarns, FetchDies, Write, WriteDies,
         CountSegment, InstallDies, StartDecompress
    <3> QED BY <1>a, <2>2, <2>3, <3>1 DEF Temporary, SourceKept
  <2> QED BY <2>4, <2>5
<1>3. CASE DropContent
  <2>1. /\ decompressor = "idle" /\ Output \notin temp
        /\ \A i \in Segment : segment[i].pc \in {"idle", "done", "failed"}
    BY <1>3, <1>a DEF DropContent, TasksEnded, Inflating, Temporary
  <2>2. temp' = temp \ {Local} /\ UNCHANGED <<syncs, segment, decompressor, Local, Output>>
    BY <1>3 DEF DropContent, Local, Output
  <2> QED BY <1>a, <2>1, <2>2 DEF Temporary, SourceKept
<1>4. CASE DecompressorStep
  <2>1. AllDone
    BY <1>4, <1>a DEF DecompressorStep, Inflate, InflateDies, InstallInflated,
       InstallInflatedDies, DropDecompressor, Inflating
  <2>2. UNCHANGED <<syncs, segment, Local, Output>>
    BY <1>4 DEF DecompressorStep, Inflate, InflateDies, InstallInflated,
       InstallInflatedDies, DropDecompressor, Local, Output
  <2>3. \A i \in Segment : segment'[i].pc = "done"
    BY <2>1, <2>2 DEF AllDone
  <2>4. Output[1] = syncs /\ Local # Output
    BY DEF Local, Output
  <2>5. \A t \in temp' : t[1] <= syncs'
    BY <1>4, <1>a, <1>b, <2>2, <2>4 DEF DecompressorStep, Inflate, InflateDies, InstallInflated,
       InstallInflatedDies, UnlinkOutput, DropDecompressor, Temporary
  <2>6. /\ SourceKept'
        /\ decompressor' = "done" => Local' \notin temp'
        /\ Output' \in temp' => decompressor' = "inflated"
    BY <1>4, <1>a, <2>2, <2>4 DEF DecompressorStep, Inflate, InflateDies, InstallInflated,
       InstallInflatedDies, UnlinkOutput, DropDecompressor, Temporary, SourceKept
  <2> QED BY <2>3, <2>5, <2>6 DEF Temporary
<1>5. CASE SyncAgain \/ Crash
  <2>1. /\ syncs' = syncs + 1 /\ temp' = temp /\ decompressor' = "idle"
        /\ \A i \in Segment : segment'[i].pc = "idle"
    BY <1>5 DEF SyncAgain, Crash, Restart, IdleSegments
  <2>2. Local'[1] = syncs + 1 /\ Output'[1] = syncs + 1
    BY <2>1 DEF Local, Output
  <2>3. \A t \in temp : t[1] \in Nat /\ t[1] <= syncs
    BY <1>a, <1>b DEF Temporary
  <2>4. Local' \notin temp /\ Output' \notin temp
    BY <2>2, <2>3, <1>b
  <2> QED BY <1>b, <2>1, <2>3, <2>4 DEF Temporary, SourceKept
<1>6. CASE Replace \/ Finished \/ UNCHANGED vars
  <2>1. UNCHANGED <<syncs, temp, segment, decompressor, Local, Output>>
    BY <1>6 DEF Replace, Finished, vars, Local, Output
  <2> QED BY <1>a, <2>1 DEF Temporary, SourceKept
<1> QED BY <1>1, <1>2, <1>3, <1>4, <1>5, <1>6 DEF Next

\* Whatever keeps the file from its place has been counted as a failure.
LEMMA StoredStep == IInv /\ [Next]_vars => Stored'
<1> SUFFICES ASSUME IInv, [Next]_vars PROVE Stored'
  OBVIOUS
<1>a. TypeOK /\ Counting /\ Fetched /\ Inflating /\ Stored
  BY DEF IInv
<1>b. /\ segment \in [Segment -> SegmentType] /\ downloader \in DownloaderType
      /\ version \in Nat \ {0} /\ 1 \in Segment
  BY <1>a, TypeNamed, DownloadAssumption DEF TypeParts, Version, Segment
<1> USE DEF tail
<1>1. CASE DownloaderStep
  <2>1. downloader.pc # "done"
    BY <1>1 DEF DownloaderStep, Compare, HeadWarns, HeadRefused, Create, DownloaderDies
  <2>2. \A i \in Segment : segment[i].pc = "idle"
    BY <1>a, <2>1 DEF Fetched
  <2>3. CASE Compare
    <3>1. /\ downloader'.pc = "done" => file.mtime = version
          /\ downloader'.mtime = version /\ downloader'.pc # "failed"
      BY <2>3, <1>b DEF Compare, NeedsDownload, DownloaderType
    <3>2. UNCHANGED <<segment, file, failed, decompressor>>
      BY <2>3 DEF Compare
    <3> QED BY <1>a, <1>b, <2>2, <3>1, <3>2 DEF Stored, AllDone
  <2>4. CASE HeadWarns \/ HeadRefused \/ DownloaderDies
    <3>1. /\ downloader'.pc # "done" /\ (downloader'.pc = "failed" => failed')
          /\ failed => failed'
      BY <2>4, <1>a, <1>b DEF HeadWarns, HeadRefused, DownloaderDies, DownloaderType, Stored
    <3>2. UNCHANGED <<segment, file, decompressor>>
      BY <2>4 DEF HeadWarns, HeadRefused, DownloaderDies
    <3> QED BY <1>a, <1>b, <2>2, <3>1, <3>2 DEF Stored, AllDone
  <2>5. CASE Create
    <3>1. /\ downloader'.pc = "done" /\ downloader'.mtime = downloader.mtime
          /\ segment'[1].pc = "queued"
          /\ downloader.mtime # 0 => \A i \in Segment : segment'[i].pc = "queued"
          /\ \A i \in Segment : segment'[i].pc \in {"idle", "queued"}
      BY <2>5, <1>b, <2>2 DEF Create, DownloaderType, SegmentType
    <3>2. UNCHANGED <<failed, decompressor>>
      BY <2>5 DEF Create
    <3> QED BY <1>a, <1>b, <3>1, <3>2 DEF Stored, AllDone
  <2> QED BY <1>1, <2>3, <2>4, <2>5 DEF DownloaderStep
<1>2. ASSUME NEW i \in Segment, SegmentStep(i) PROVE Stored'
  <2>1. /\ downloader' = downloader /\ (failed => failed')
        /\ segment[i].pc \in {"queued", "fetched", "written"} /\ segment'[i].pc # "idle"
        /\ \A j \in Segment \ {i} : segment'[j] = segment[j]
    BY <1>2, <1>a, SegmentFrame
  <2>2. decompressor = "idle" /\ downloader.pc = "done"
    BY <1>a, <2>1 DEF Inflating, AllDone, Fetched
  <2>3. \A j \in Segment : segment'[j].pc = "failed" => failed'
    <3>1. segment'[i].pc = "failed" => failed'
      BY <1>2, <1>b DEF SegmentStep, Fetch, FetchWarns, WarnSegment, FetchDies, Write,
         WriteDies, CountSegment, Install, InstallDies, StartDecompress, Move, Fail, SegmentType
    <3> QED BY <1>a, <2>1, <3>1 DEF Stored
  <2>4. CASE Install(i)
    <3>1. file'.mtime = downloader.mtime /\ ~downloader.compressed /\ decompressor' = "idle"
      BY <2>4, <2>2 DEF Install, Stamp
    <3>2. \A j \in Segment \ {i} : segment[j].pc = "done"
      BY <2>4, <1>a, LastOne DEF Install
    <3>3. \A j \in Segment : segment'[j].pc # "idle"
      BY <2>1, <3>2
    <3> QED BY <1>a, <2>1, <2>2, <2>3, <3>1, <3>3 DEF Stored
  <2>5. CASE StartDecompress(i)
    <3>1. downloader.compressed /\ decompressor' = "queued"
      BY <2>5 DEF StartDecompress
    <3>2. \A j \in Segment \ {i} : segment[j].pc = "done"
      BY <2>5, <1>a, LastOne DEF StartDecompress
    <3>3. \A j \in Segment : segment'[j].pc # "idle"
      BY <2>1, <3>2
    <3> QED BY <1>a, <2>1, <2>2, <2>3, <3>1, <3>3 DEF Stored
  <2>6. CASE ~Install(i) /\ ~StartDecompress(i)
    <3>1. file' = file /\ decompressor' = decompressor
      BY <1>2, <2>6 DEF SegmentStep, Fetch, FetchWarns, FetchDies, Write, WriteDies,
         CountSegment, InstallDies
    <3>2. ~AllDone'
      <4>1. CASE CountSegment(i)
        <5>1. \E j \in Segment \ {i} : segment[j].pc # "done"
          BY <4>1, <1>a, LastOne DEF CountSegment
        <5> QED BY <2>1, <5>1 DEF AllDone
      <4>2. CASE ~CountSegment(i)
        <5>1. segment'[i].pc # "done"
          BY <1>2, <1>b, <2>6, <4>2 DEF SegmentStep, Fetch, FetchWarns, WarnSegment, FetchDies,
             Write, WriteDies, InstallDies, Move, Fail, SegmentType
        <5> QED BY <5>1 DEF AllDone
      <4> QED BY <4>1, <4>2
    <3>3. downloader.mtime = 0 /\ segment[1].pc \in {"queued", "failed"} =>
            segment'[1].pc \in {"queued", "failed"}
      <4>1. ASSUME downloader.mtime = 0, i = 1, segment[1].pc = "queued"
            PROVE  segment'[1].pc \in {"queued", "failed"}
        BY <1>2, <1>b, <4>1 DEF SegmentStep, Fetch, FetchWarns, WarnSegment, FetchDies, Write,
           WriteDies, CountSegment, Install, InstallDies, StartDecompress, Move, Fail, SegmentType
      <4> QED BY <1>b, <2>1, <4>1
    <3>4. (\E j \in Segment : segment'[j].pc = "idle") =>
            \E j \in Segment : segment[j].pc = "idle"
      BY <2>1
    <3> QED BY <1>a, <2>1, <2>2, <2>3, <3>1, <3>2, <3>3, <3>4 DEF Stored
  <2> QED BY <2>4, <2>5, <2>6
<1>3. CASE DecompressorStep
  <2>1. AllDone
    BY <1>3, <1>a DEF DecompressorStep, Inflate, InflateDies, InstallInflated,
       InstallInflatedDies, DropDecompressor, Inflating
  <2>2. UNCHANGED <<segment, downloader>>
    BY <1>3 DEF DecompressorStep, Inflate, InflateDies, InstallInflated,
       InstallInflatedDies, DropDecompressor
  <2>3. AllDone' /\ \A i \in Segment : segment'[i].pc # "idle"
    BY <2>1, <2>2 DEF AllDone
  <2>4. failed => failed'
    BY <1>3 DEF DecompressorStep, Inflate, InflateDies, InstallInflated,
       InstallInflatedDies, DropDecompressor
  <2>5. CASE InstallInflated
    BY <2>5, <1>a, <2>1, <2>2, <2>3 DEF InstallInflated, Stamp, Stored
  <2>6. CASE ~InstallInflated
    <3>1. /\ file' = file /\ decompressor' # "idle"
          /\ decompressor' = "failing" => failed'
          /\ decompressor' \in {"installed", "done"} /\ ~failed' =>
               decompressor = "installed"
      BY <1>3, <2>6, <1>a DEF DecompressorStep, Inflate, InflateDies, InstallInflatedDies,
         DropDecompressor, Stored
    <3> QED BY <1>a, <2>1, <2>2, <2>3, <2>4, <3>1 DEF Stored
  <2> QED BY <2>5, <2>6
<1>4. CASE SyncAgain \/ Crash
  <2>1. /\ downloader'.pc = "head" /\ decompressor' = "idle"
        /\ \A i \in Segment : segment'[i].pc = "idle"
    BY <1>4 DEF SyncAgain, Crash, Restart, IdleSegments, NewDownloader
  <2> QED BY <1>b, <2>1 DEF Stored, AllDone
<1>5. CASE Replace \/ DropContent \/ Finished \/ UNCHANGED vars
  <2>1. UNCHANGED <<segment, downloader, file, decompressor, failed>>
    BY <1>5 DEF Replace, DropContent, Finished, vars
  <2> QED BY <1>a, <2>1 DEF Stored, AllDone
<1> QED BY <1>1, <1>2, <1>3, <1>4, <1>5 DEF Next

-----------------------------------------------------------------------------
\* The inductive invariant holds in every reachable state of a download: the writers
\* are counted right under m_, and every file is as fresh as its time says.
THEOREM Invariance == Spec => []IInv
<1>1. IInv /\ [Next]_vars => IInv'
  BY TypeStep, CountingStep, FetchedStep, InflatingStep, TargetStep, TemporaryStep, StoredStep
     DEF IInv
<1> QED BY InitHolds, <1>1, PTL DEF Spec

\* Every variable of a download has its type; segments_read_ never exceeds num_segments_
\* and no task has more attempts than the agenda grants.
THEOREM TypeCorrect == Spec => []TypeOK
<1>1. IInv => TypeOK
  BY DEF IInv
<1> QED BY Invariance, <1>1, PTL

\* The writer that finds itself the last one really is: the target never holds a byte
\* that no segment has written.
THEOREM FilesHaveNoHoles == Spec => []NoHoles
<1>1. IInv => NoHoles
  BY DEF IInv, Target
<1> QED BY Invariance, <1>1, PTL

\* A file that the next run takes for synchronized is equal to the object, however
\* often the object was replaced between HEAD and the requests of the segments.
THEOREM SyncedIsEqual == Spec => []SyncedMeansEqual
<1>1. IInv => SyncedMeansEqual
  <2> SUFFICES ASSUME IInv, file.mtime = version PROVE file.data = {version}
    BY DEF SyncedMeansEqual
  <2>1. version \in Nat \ {0} /\ file.data \subseteq Version \cup {Hole}
    BY DownloadAssumption DEF IInv, TypeOK, Version
  <2>2. file.data # {} /\ \A v \in file.data : version <= v /\ v <= version
    BY <2>1 DEF IInv, Target
  <2>3. \A v \in file.data : v = version
    BY <2>1, <2>2, DownloadAssumption DEF Version, Hole
  <2> QED BY <2>2, <2>3
<1> QED BY Invariance, <1>1, PTL

\* The decompressor's source is there until it has been read, though the content that
\* created it is destroyed at any time.
THEOREM SourceIsKept == Spec => []SourceKept
<1>1. IInv => SourceKept
  BY DEF IInv, Temporary
<1> QED BY Invariance, <1>1, PTL

\* Whatever fails, a command that has returned leaves no temporary file of its own.
THEOREM TemporariesRemoved == Spec => []TempRemoved
<1>1. IInv => TempRemoved
  BY DEF IInv, Temporary, Inflating, TempRemoved, Drained
<1> QED BY Invariance, <1>1, PTL

\* A command that returns and reports no failure has left the file with the time of the
\* object that HEAD has seen: no failure is lost on the way.
THEOREM StoredAtEnd == Spec => []StoredWhenDone
<1>1. IInv => StoredWhenDone
  <2> SUFFICES ASSUME IInv, Drained, ~failed
               PROVE  file.mtime = downloader.mtime /\ file.data # {}
    BY DEF StoredWhenDone
  <2>1. /\ downloader.pc = "done"
        /\ \A i \in Segment : segment[i].pc \in {"idle", "done"}
        /\ decompressor \in {"idle", "done"}
    BY DEF IInv, Stored, Drained, TasksEnded
  <2>2. 1 \in Segment
    BY DownloadAssumption DEF Segment
  <2>3. CASE \E i \in Segment : segment[i].pc = "idle"
    <3>1. file.mtime = downloader.mtime /\ downloader.mtime # 0
      BY <2>1, <2>2, <2>3 DEF IInv, Stored
    <3> QED BY <3>1 DEF IInv, Target
  <2>4. CASE AllDone
    <3>1. file.mtime = downloader.mtime
      BY <2>1, <2>4 DEF IInv, Stored
    <3>2. downloader.mtime # 0
      BY <2>2, <2>4 DEF IInv, Fetched, AllDone
    <3> QED BY <3>1, <3>2 DEF IInv, Target
  <2> QED BY <2>1, <2>3, <2>4 DEF AllDone
<1> QED BY Invariance, <1>1, PTL

=============================================================================
