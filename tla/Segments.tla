------------------------------ MODULE Segments ------------------------------
(***************************************************************************)
(* The bytes of one file on their way to S3 and back: how file_compressor  *)
(* cuts it into blocks, start_upload and file_pump into parts, that may    *)
(* begin and end inside a scratch file, file_downloader into segments of   *)
(* the size that the downloading command was given, and what is written at *)
(* which offset.  Nothing fails here but by the numbers: failures and the  *)
(* order of requests are the subject of Upload and Download.               *)
(***************************************************************************)
EXTENDS Integers, FiniteSets, SequencesExt

CONSTANTS MaxSize,      \* bound on the length of the file
          MinimalBlock, \* MINIMAL_BLOCK
          Threshold,    \* COMPRESSION_THRESHOLD
          CpuThreads,   \* get_capability(taskCPUBound)
          IoThreads,    \* get_capability(taskIOBound), uploading
          InFlight,     \* the values of --segments-in-flight
          SegmentSizes, \* the values of --segment-size
          MaxParts,     \* MAX_PART_NUM
          MaxSegments,  \* MAX_SEGMENTS
          MaxPacked,    \* bound on the length of a compressed block
          MaxRead       \* bound on what one read() returns

Positive == Nat \ {0}

ASSUME SegmentsAssumption ==
    /\ MaxSize \in Nat
    /\ {MinimalBlock, CpuThreads, IoThreads, MaxParts, MaxSegments, MaxPacked, MaxRead}
         \subseteq Positive
    /\ Threshold \in Nat /\ MinimalBlock <= Threshold
    /\ InFlight \subseteq Positive
    /\ SegmentSizes \subseteq Positive

VARIABLES file_sz,     \* length of the file
          do_compress, \* it is uploaded in compressed form
          segment_size, \* of the command that runs
          max_in_flight, \* of the uploading command
          stage,       \* what is under way
          block,       \* offset_ and size_ of each compress task
          files_,      \* the pieces to be uploaded: each a sequence of bytes
          num_parts_,
          next,        \* the variable f of the loop in start_upload
          pump,        \* the file pumps, by their cur_segment_
          part,        \* the data of each part, once its task is scheduled
          object,      \* the object: a sequence of bytes
          fetched,     \* segments of the download that are written
          local_file_  \* the local file of the download

vars == <<file_sz, do_compress, segment_size, max_in_flight, stage, block, files_,
          num_parts_, next, pump, part, object, fetched, local_file_>>

source == <<file_sz, do_compress>>
upload == <<block, files_, num_parts_, next, pump, part>>
download == <<fetched, local_file_>>

-----------------------------------------------------------------------------
Lesser(a, b) == IF a < b THEN a ELSE b

\* a/b + ((a%b)==0 ? 0:1)
Pieces(a, b) == a \div b + (IF a % b = 0 THEN 0 ELSE 1)

\* A byte of the file is known by its offset, a byte of a compressed block by its place
\* among the bytes of the block.  A byte that nobody has written is Hole.
Byte(b, i, n) == [block |-> b, nth |-> i, of |-> n]
Raw(offset, size) == [i \in 1..size |-> Byte(0, offset + i - 1, 0)]
Packed(b, n) == [i \in 1..n |-> Byte(b, i, n)]
Hole == Byte(-1, 0, 0)
Missing == <<Hole>>

\* The data to be uploaded, all pieces together, and the length of some pieces.
Stream == FlattenSeq(files_)
Bytes(P) == Cardinality(UNION {{p} \X DOMAIN files_[p] : p \in P})

Init ==
    /\ file_sz \in 0..MaxSize
    /\ do_compress \in {FALSE, file_sz > Threshold}
    /\ segment_size \in SegmentSizes
    /\ max_in_flight \in InFlight
    /\ stage = IF do_compress THEN "split" ELSE "start"
    /\ block = <<>>
    /\ files_ = IF do_compress THEN <<>> ELSE <<Raw(0, file_sz)>>
    /\ num_parts_ = 0
    /\ next = 0
    /\ pump = <<>>
    /\ part = <<>>
    /\ object = <<>>
    /\ fetched = {}
    /\ local_file_ = <<>>

-----------------------------------------------------------------------------
\* file_compressor

EstimatedBlocks == Lesser(file_sz \div MinimalBlock, CpuThreads)
BlockSize == file_sz \div EstimatedBlocks

\* Mutant of NumBlocks: the rest of the file is forgotten.
NumBlocksRoundedDown == file_sz \div BlockSize

NumBlocks == Pieces(file_sz, BlockSize)

\* One task per block; the last one takes what is left.
Split ==
    /\ stage = "split"
    /\ stage' = "compress"
    /\ block' = [b \in 1..NumBlocks |->
                   LET offset == BlockSize * (b - 1)
                   IN [offset |-> offset, size |-> Lesser(file_sz - offset, BlockSize)]]
    /\ files_' = [b \in 1..NumBlocks |-> <<>>]
    /\ UNCHANGED <<source, segment_size, max_in_flight, num_parts_, next, pump, part,
                   object, download>>

\* Blocks are compressed in any order, to any length; the last one starts the upload.
Compress(b) ==
    /\ stage = "compress" /\ files_[b] = <<>>
    /\ \E n \in 1..MaxPacked : files_' = [files_ EXCEPT ![b] = Packed(b, n)]
    /\ stage' = IF \A c \in DOMAIN files_ \ {b} : files_[c] # <<>> THEN "start" ELSE stage
    /\ UNCHANGED <<source, segment_size, max_in_flight, block, num_parts_, next, pump, part,
                   object, download>>

-----------------------------------------------------------------------------
\* start_upload

NumParts == LET n == Pieces(Bytes(DOMAIN files_), segment_size) IN IF n = 0 THEN 1 ELSE n

\* Mutant of TooManyParts: off by one.
TooManyPartsByTwo == NumParts > MaxParts + 1

TooManyParts == NumParts > MaxParts

Start ==
    /\ stage = "start"
    /\ IF TooManyParts
       THEN /\ stage' = "refused"
            /\ UNCHANGED <<num_parts_, part>>
       ELSE /\ stage' = "pump"
            /\ num_parts_' = NumParts
            /\ part' = [i \in 0..(NumParts - 1) |-> Missing]
    /\ UNCHANGED <<source, segment_size, max_in_flight, block, files_, next, pump,
                   object, download>>

\* Mutant of NumPerPump: no parts for a pump if there are more threads than parts.
NumPerPumpRoundedDown == Lesser(num_parts_ \div IoThreads, max_in_flight \div 2)

NumPerPump == Lesser(num_parts_ \div IoThreads + 1, max_in_flight \div 2)

\* Mutant of NumCur: the last pump is as large as the others.
NumCurUncapped == NumPerPump

NumCur == Lesser(num_parts_ - next, NumPerPump)

\* The first piece that reaches beyond the start of the pump's data, else the first
\* piece of all; what comes before it is skipped.
FirstPiece(start) ==
    LET beyond == {p \in DOMAIN files_ : start < Bytes(1..p)}
    IN IF beyond = {} THEN 1 ELSE CHOOSE p \in beyond : \A q \in beyond : p <= q

\* Mutant of NewPump: the offset is counted from the start of the data.
NewPumpUnskipped(f, num) ==
    [num |-> num, segment |-> 0, data |-> <<>>,
     piece |-> FirstPiece(f * segment_size), within |-> f * segment_size]

NewPump(f, num) ==
    LET start == f * segment_size
        piece == FirstPiece(start)
    IN [num |-> num, segment |-> 0, data |-> <<>>,
        piece |-> piece, within |-> start - Bytes(1..(piece - 1))]

\* One turn of the loop that schedules the pumps.
SchedulePump ==
    /\ stage = "pump" /\ next < num_parts_
    /\ pump' = [f \in DOMAIN pump \cup {next} |->
                  IF f = next THEN NewPump(f, NumCur) ELSE pump[f]]
    /\ next' = next + NumPerPump
    /\ UNCHANGED <<source, segment_size, max_in_flight, stage, block, files_, num_parts_,
                   part, object, download>>

-----------------------------------------------------------------------------
\* file_pump

\* One read() into the current segment, which may return less than it was asked
\* for.  When it has what it wants of the piece, the pump goes on to the next piece,
\* and a full segment, or the end of the last piece, makes a part.
Read(f) ==
    LET p == pump[f]
        piece == files_[p.piece]
        remaining == Lesser(segment_size - Len(p.data), Len(piece) - p.within)
    IN /\ p.segment < p.num
       /\ \E res \in IF remaining = 0 THEN {0} ELSE 1..Lesser(remaining, MaxRead) :
            LET within == p.within + res
                data == p.data \o SubSeq(piece, p.within + 1, within)
                last == p.piece = Len(files_)
                over == ~last /\ within = Len(piece)
                full == res = remaining /\ (last \/ Len(data) = segment_size)
            IN /\ pump' = [pump EXCEPT ![f] =
                             [p EXCEPT !.piece = IF over THEN @ + 1 ELSE @,
                                       !.within = IF over THEN 0 ELSE within,
                                       !.data = IF full THEN <<>> ELSE data,
                                       !.segment = IF full THEN @ + 1 ELSE @]]
               /\ part' = IF full THEN [part EXCEPT ![f + p.segment] = data] ELSE part
    /\ UNCHANGED <<source, segment_size, max_in_flight, stage, block, files_, num_parts_,
                   next, object, download>>

\* Every part has arrived: S3 puts them together in their order.
Assemble ==
    /\ stage = "pump" /\ next >= num_parts_
    /\ \A f \in DOMAIN pump : pump[f].segment = pump[f].num
    /\ stage' = "stored"
    /\ object' = FlattenSeq([i \in 1..num_parts_ |-> part[i - 1]])
    /\ UNCHANGED <<source, segment_size, max_in_flight, upload, download>>

-----------------------------------------------------------------------------
\* file_downloader of a command with a segment size of its own

SegmentsOf(size) == LET n == Pieces(Len(object), size) IN IF n = 0 THEN 1 ELSE n
NumSegments == SegmentsOf(segment_size)

StartDownload ==
    /\ stage = "stored"
    /\ \E size \in SegmentSizes :
         /\ segment_size' = size
         /\ stage' = IF SegmentsOf(size) > MaxSegments THEN "refused" ELSE "fetch"
    /\ local_file_' = [i \in DOMAIN object |-> Hole]
    /\ UNCHANGED <<source, max_in_flight, upload, object, fetched>>

\* The bytes of a range, both ends included; none if it starts beyond the end.
Body(first, last) == SubSeq(object, first + 1, Lesser(last + 1, Len(object)))

\* offset+size-1 as int_to_string prints it, with a sign: -1 for an empty object.
LastOfRange(first, size) == first + size - 1

Size(first) == Lesser(Len(object) - first, segment_size)

\* Mutant of WriteOffset: all segments are taken to be as long as this one.
WriteOffsetOfEqual(i, data) == i * Len(data)

\* start_offset of write_segment_task
WriteOffset(i, data) == i * segment_size

\* A segment is fetched and written at its offset.
Fetch(i) ==
    LET first == i * segment_size
        data == Body(first, LastOfRange(first, Size(first)))
    IN /\ stage = "fetch" /\ i \in 0..(NumSegments - 1) \ fetched
       /\ Len(data) = Size(first)
       /\ fetched' = fetched \cup {i}
       /\ local_file_' = [k \in DOMAIN local_file_ |->
                            IF k - WriteOffset(i, data) \in DOMAIN data
                            THEN data[k - WriteOffset(i, data)]
                            ELSE local_file_[k]]
    /\ UNCHANGED <<source, segment_size, max_in_flight, stage, upload, object>>

\* What S3 may say to the range "0--1" of an empty object, which it may also ignore:
\* the task is given up, at once or after all its attempts.
FetchRefused ==
    /\ stage = "fetch" /\ object = <<>>
    /\ stage' = "failed"
    /\ UNCHANGED <<source, segment_size, max_in_flight, upload, object, download>>

\* file_decompressor: members follow each other, each whole and in order.
IsGzip(s) ==
    /\ \A i \in DOMAIN s :
         IF i = 1 \/ s[i - 1].nth = s[i - 1].of THEN s[i].nth = 1
         ELSE s[i] = [s[i - 1] EXCEPT !.nth = @ + 1]
    /\ s # <<>> => Last(s).nth = Last(s).of

Inflated(s) ==
    FlattenSeq([i \in DOMAIN s |->
                  IF s[i].nth = s[i].of
                  THEN Raw(block[s[i].block].offset, block[s[i].block].size)
                  ELSE <<>>])

\* The last segment has been written.
Install ==
    /\ stage = "fetch" /\ fetched = 0..(NumSegments - 1)
    /\ stage' = IF do_compress /\ ~IsGzip(local_file_) THEN "failed" ELSE "done"
    /\ local_file_' = IF do_compress /\ IsGzip(local_file_) THEN Inflated(local_file_)
                      ELSE local_file_
    /\ UNCHANGED <<source, segment_size, max_in_flight, upload, object, fetched>>

-----------------------------------------------------------------------------
Ended == stage \in {"refused", "failed", "done"}

Finished == Ended /\ UNCHANGED vars

Step ==
    \/ Split
    \/ \E b \in DOMAIN files_ : Compress(b)
    \/ Start
    \/ SchedulePump
    \/ \E f \in DOMAIN pump : Read(f)
    \/ Assemble
    \/ StartDownload
    \/ \E i \in 0..(NumSegments - 1) : Fetch(i)
    \/ FetchRefused
    \/ Install

Next == Step \/ Finished

Spec == Init /\ [][Next]_vars

\* The agenda runs every task that is scheduled.
FairSpec == Spec /\ WF_vars(Step)

-----------------------------------------------------------------------------
\* Type invariant.
TypeOK ==
    /\ file_sz \in 0..MaxSize
    /\ do_compress \in BOOLEAN
    /\ segment_size \in SegmentSizes
    /\ max_in_flight \in InFlight
    /\ stage \in {"split", "compress", "start", "pump", "stored", "fetch",
                  "refused", "failed", "done"}
    /\ num_parts_ \in 0..MaxParts
    /\ next \in Nat
    /\ DOMAIN pump \subseteq Nat
    /\ \A f \in DOMAIN pump : pump[f].num \in Nat
    /\ fetched \subseteq Nat

\* The blocks of a compressed file follow each other without a gap or an overlap
\* from its first byte to its last, for any size and number of threads
\* (compressor.cpp:128-148), and none is empty.
BlocksCoverFile ==
    block # <<>> =>
      /\ \A b \in DOMAIN block : block[b].size > 0
      /\ FlattenSeq([b \in DOMAIN block |-> Raw(block[b].offset, block[b].size)])
           = Raw(0, file_sz)

\* Each part below the loop variable has exactly one pump, and each pump fits twice
\* into the budget of segments, which is what the agenda relies on to claim it at
\* all (uploader.cpp:295-310, agenda.cpp:114-121).
OnePumpPerPart ==
    /\ \A f \in DOMAIN pump : pump[f].num >= 1 /\ 2 * pump[f].num <= max_in_flight
    /\ \A i \in 0..(Lesser(next, num_parts_) - 1) :
         \E f \in DOMAIN pump :
           /\ f <= i /\ i < f + pump[f].num
           /\ \A g \in DOMAIN pump : g <= i /\ i < g + pump[g].num => g = f
    /\ \A f \in DOMAIN pump : f + pump[f].num <= num_parts_

\* A part holds the bytes that belong at its place, all but the last one a whole
\* segment, wherever the scratch files begin and end and however short the reads
\* are (uploader.cpp:149-200, the assertions at 142, 195 and 199).
PartsInPlace ==
    stage \in {"pump", "stored"} =>
      \A i \in DOMAIN part :
        part[i] # Missing =>
          part[i] = SubSeq(Stream, i * segment_size + 1,
                           Lesser((i + 1) * segment_size, Len(Stream)))

\* What is downloaded is what was uploaded, byte for byte, in whatever segments the
\* one and the other were moved.
RoundTrip == stage = "done" => local_file_ = Raw(0, file_sz)

\* A file is moved or refused; nothing but the limits on parts and segments, and an
\* object without bytes, keeps it from arriving (uploader.cpp:283, downloader.cpp:203).
Arrives ==
    <>(\/ stage = "done"
       \/ stage = "refused" /\ (Pieces(Len(Stream), segment_size) > Lesser(MaxParts, MaxSegments))
       \/ stage = "failed" /\ file_sz = 0)

\* The loop that schedules the pumps of an upload ends, for every number of segments
\* in flight that the command line accepts (main.cpp:267-270).
PumpsScheduled == [](stage = "pump" => <>(next >= num_parts_))
=============================================================================
