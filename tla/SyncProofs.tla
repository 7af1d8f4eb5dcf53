----------------------------- MODULE SyncProofs -----------------------------
(***************************************************************************)
(* A run of "sync" or "rm" is correct for every set of paths, all local    *)
(* trees and buckets, any listing and any order of the tasks.  IInv says   *)
(* how much has been listed, what has been scheduled and what is left to   *)
(* be done.  Two results need that no key is the name of a directory.      *)
(***************************************************************************)
EXTENDS Sync, SequenceTheorems, WellFoundedInduction, TLAPS

\* No key of the bucket is also the name of a directory of the bucket.
NoShadow == \A keys \in RemoteTree : \A p \in keys : Above(p) \cap keys = {}

Fetched(d) == FilesIn(d) \subseteq files /\ DirsIn(d) \subseteq dirs

\* A directory is listed after the one it is in, and unless a listing has failed,
\* whatever has been found is listed or waits for it.
Listing ==
    /\ \A p \in files \cup dirs : Above(p) \subseteq dirs
    /\ pc \in {"root", "list"} => tasks = {} /\ files \subseteq remote /\ dirs \subseteq RemoteDir
    /\ pc = "root" => files = {} /\ dirs = {}
    /\ pc = "list" /\ ~failed => \A d \in dirs \cup {Root} : d \in todo \/ Fetched(d)

\* What a task is for: with --delete-missing or without, from the one side to the
\* other or back.
Purpose(t) ==
    /\ delete_mode => t.op = "delete"
    /\ do_upload_ <=> t.op \in {"upload", "delete"}
    /\ ~delete_missing_ => t.op \in {"upload", "download"}
    /\ t.op = "upload" => local[t.path] = "file"
    /\ t.op = "delete" => delete_mode \/ t.path \in Spaced \/ local[t.path] # "file"
    /\ t.op \in {"download", "replace"} => t.path \in files
    /\ t.op = "replace" =>
         local[t.path] # "file" /\ \A u \in tasks : u.op = "download" => u.path # t.path
    /\ t.op = "remove" => t.path \notin files \cup dirs

Scheduled ==
    /\ delete_mode => do_upload_ /\ delete_missing_
    /\ \A t \in tasks : Purpose(t)

IInv == TypeOK /\ Listing /\ Scheduled

-----------------------------------------------------------------------------
\* Paths.

\* A set of numbers has a least element.
LEMMA Least ==
    ASSUME NEW S, S \subseteq Nat, S # {}
    PROVE  \E m \in S : \A k \in S : m <= k
<1>0. S \subseteq Nat /\ S # {}
  OBVIOUS
<1>1. PICK m \in S : \A k \in S : ~(<<k, m>> \in OpToRel(<, Nat))
  BY <1>0, WFMin, NatLessThanWellFounded, Zenon
<1>2. \A k \in S : ~(k < m)
  BY <1>0, <1>1, Zenon DEF OpToRel
<1> QED BY <1>0, <1>2

\* A path has its prefixes in Path; it is above none of them.
LEMMA PathType ==
    ASSUME NEW p \in Path
    PROVE  /\ p \in Seq(Nat \ {0}) /\ Len(p) \in Nat \ {0}
           /\ Prefixes(p) = Above(p) \cup {p}
           /\ Above(p) \subseteq Path
           /\ p \notin Above(p)
<1>1. p \in Seq(Nat \ {0}) /\ p # <<>> /\ Prefixes(p) \subseteq Path
  BY PathAssumption
<1>2. Len(p) \in Nat \ {0}
  BY <1>1, EmptySeq, LenProperties
<1>3. p \in Prefixes(p)
  BY <1>1, <1>2, SubSeqFull DEF Prefixes
<1> QED BY <1>1, <1>2, <1>3 DEF Above

\* A prefix by its length.
LEMMA PrefixLength ==
    ASSUME NEW p \in Path, NEW k \in 1..Len(p)
    PROVE  /\ Len(SubSeq(p, 1, k)) = k
           /\ SubSeq(p, 1, k) \in Prefixes(p)
           /\ \A j \in 1..k : SubSeq(SubSeq(p, 1, k), 1, j) = SubSeq(p, 1, j)
           /\ SubSeq(p, 1, k) \in Above(p) <=> k < Len(p)
<1>1. p \in Seq(Nat \ {0}) /\ Len(p) \in Nat
  BY PathType
<1>2. SubSeq(p, 1, k) \in Seq(Nat \ {0}) /\ Len(SubSeq(p, 1, k)) = k
  <2>1. \A i \in 1..k : p[i] \in Nat \ {0}
    BY <1>1, ElementOfSeq
  <2> QED BY <1>1, <2>1, SubSeqProperties
<1>3. \A j \in 1..k : SubSeq(SubSeq(p, 1, k), 1, j) = SubSeq(p, 1, j)
  <2> SUFFICES ASSUME NEW j \in 1..k PROVE SubSeq(SubSeq(p, 1, k), 1, j) = SubSeq(p, 1, j)
    OBVIOUS
  <2>1. /\ 1 \in 1..Len(p) /\ k \in 1..Len(p) /\ 1 \in 1..(k - 1 + 1) /\ j \in 1..(k - 1 + 1)
        /\ 1 + 1 - 1 = 1 /\ 1 + j - 1 = j
    BY <1>1
  <2> QED BY <1>1, <2>1, SubSeqOfSubSeq
<1>4. SubSeq(p, 1, k) \in Prefixes(p)
  BY DEF Prefixes
<1>5. SubSeq(p, 1, k) \in Above(p) <=> k < Len(p)
  <2>1. CASE k = Len(p)
    BY <1>1, <2>1, SubSeqFull DEF Above
  <2>2. CASE k < Len(p)
    BY <1>1, <1>2, <1>4, <2>2 DEF Above
  <2> QED BY <1>1, <2>1, <2>2
<1> QED BY <1>2, <1>3, <1>4, <1>5

\* What is above a directory is above what is in it.
LEMMA AboveAbove ==
    ASSUME NEW p \in Path, NEW q \in Prefixes(p)
    PROVE  /\ q \in Path
           /\ Above(q) \subseteq Above(p)
           /\ Prefixes(q) \subseteq Prefixes(p)
<1>1. q \in Path /\ Len(p) \in Nat
  BY PathAssumption, PathType
<1>2. PICK k \in 1..Len(p) : q = SubSeq(p, 1, k)
  BY DEF Prefixes
<1>3. Len(q) = k /\ \A j \in 1..k : SubSeq(q, 1, j) = SubSeq(p, 1, j)
  BY <1>2, PrefixLength
<1>4. ASSUME NEW j \in 1..k
      PROVE  /\ SubSeq(q, 1, j) \in Prefixes(p)
             /\ SubSeq(q, 1, j) \in Above(q) => SubSeq(q, 1, j) \in Above(p)
  <2>1. j \in 1..Len(p) /\ j \in 1..Len(q) /\ SubSeq(q, 1, j) = SubSeq(p, 1, j)
    BY <1>1, <1>3
  <2>2. SubSeq(p, 1, j) \in Prefixes(p) /\ (SubSeq(p, 1, j) \in Above(p) <=> j < Len(p))
    BY <2>1, PrefixLength
  <2>3. SubSeq(q, 1, j) \in Above(q) <=> j < Len(q)
    BY <1>1, <2>1, PrefixLength
  <2>4. j < Len(q) => j < Len(p)
    BY <1>1, <1>3
  <2> QED BY <2>1, <2>2, <2>3, <2>4, Zenon
<1>5. \A r \in Prefixes(q) : \E j \in 1..k : r = SubSeq(q, 1, j)
  BY <1>3 DEF Prefixes
<1>6. \A r \in Above(q) : r \in Prefixes(q)
  BY DEF Above
<1> QED BY <1>1, <1>4, <1>5, <1>6

\* Above what is in directory d there are d and what is above d.
LEMMA ChildAbove ==
    ASSUME NEW p \in Path, NEW d \in Path \cup {Root}, IsChild(p, d)
    PROVE  Above(p) \subseteq IF d = Root THEN {} ELSE Above(d) \cup {d}
<1>1. Len(p) = Len(d) + 1 /\ SubSeq(p, 1, Len(d)) = d /\ Len(p) \in Nat
  BY PathType DEF IsChild
<1>2. \A q \in Above(p) : \E k \in 1..Len(p) : k < Len(p) /\ q = SubSeq(p, 1, k)
  BY PrefixLength DEF Above, Prefixes
<1>3. CASE d = Root
  <2>1. Len(p) = 1
    BY <1>1, <1>3 DEF Root
  <2> QED BY <1>2, <1>3, <2>1
<1>4. CASE d \in Path /\ d # Root
  <2>1. Len(d) \in Nat /\ Len(d) \in 1..Len(p)
    BY <1>1, <1>4, PathType
  <2>2. ASSUME NEW k \in 1..Len(p), k < Len(p) PROVE SubSeq(p, 1, k) \in Prefixes(d)
    <3>1. k \in 1..Len(d)
      BY <1>1, <2>1, <2>2
    <3>2. SubSeq(d, 1, k) = SubSeq(p, 1, k)
      BY <1>1, <2>1, <3>1, PrefixLength
    <3> QED BY <1>4, <3>1, <3>2, PrefixLength
  <2>3. Prefixes(d) = Above(d) \cup {d}
    BY <1>4, PathType
  <2>4. Above(p) \subseteq Prefixes(d)
    BY <1>2, <2>2
  <2> QED BY <1>4, <2>3, <2>4
<1> QED BY <1>3, <1>4

\* Of the paths above p that S leaves out, one has all those above it in S.
LEMMA Topmost ==
    ASSUME NEW p \in Path, NEW S, \E q \in Prefixes(p) : q \notin S
    PROVE  \E q \in Prefixes(p) : q \notin S /\ Above(q) \subseteq S
<1> DEFINE K == {k \in 1..Len(p) : SubSeq(p, 1, k) \notin S}
<1>1. K \subseteq Nat /\ K # {} /\ Len(p) \in Nat
  <2>1. Len(p) \in Nat
    BY PathType
  <2>2. \E k \in 1..Len(p) : SubSeq(p, 1, k) \notin S
    BY DEF Prefixes
  <2> QED BY <2>1, <2>2
<1>2. PICK m \in K : \A k \in K : m <= k
  <2> HIDE DEF K
  <2> QED BY <1>1, Least
<1> DEFINE q == SubSeq(p, 1, m)
<1>3. m \in 1..Len(p) /\ q \in Prefixes(p) /\ q \notin S
  BY <1>2, PrefixLength
<1>4. q \in Path /\ Len(q) = m /\ \A j \in 1..m : SubSeq(q, 1, j) = SubSeq(p, 1, j)
  BY <1>3, PrefixLength, AboveAbove
<1>5. ASSUME NEW r \in Above(q) PROVE r \in S
  <2>0. q \in Path /\ Len(q) = m
    BY <1>4
  <2> HIDE DEF q
  <2>1. PICK j \in 1..Len(q) : r = SubSeq(q, 1, j)
    BY DEF Above, Prefixes
  <2>2. j < m
    BY <2>0, <2>1, PrefixLength
  <2>3. j \in 1..m /\ j \in 1..Len(p) /\ ~(m <= j)
    BY <1>1, <1>3, <2>0, <2>1, <2>2
  <2>4. r = SubSeq(p, 1, j)
    BY <1>4, <2>1, <2>3
  <2> QED BY <1>2, <2>3, <2>4
<1> QED BY <1>3, <1>5

-----------------------------------------------------------------------------
\* Types.

Ops == {"upload", "delete", "remove", "replace", "download"}

\* What a listing finds are paths.
LEMMA FoundType ==
    ASSUME TypeOK, NEW d
    PROVE  FilesIn(d) \subseteq remote /\ DirsIn(d) \subseteq RemoteDir /\ RemoteDir \subseteq Path
BY DEF FilesIn, DirsIn, RemoteDir, TypeOK

\* What an upload deletes, and why.
LEMMA DeletedRemotely ==
    ASSUME NEW p
    PROVE  p \in RemoteDeletions <=>
             \/ p \in files /\ Uploading(p) /\ FileBeside(p) /\ (IsDir(p) \/ ~Seen(p))
             \/ \E q \in Uploads : DirBeside(q) /\ p \in Inside(q)
             \/ \E q \in dirs : Uploading(q) /\ DirBeside(q) /\ ~Seen(q) /\ p \in Inside(q)
BY Zenon DEF RemoteDeletions

\* What is planned are paths, and what has been listed in most cases.
LEMMA PlanType ==
    ASSUME TypeOK
    PROVE  /\ Uploads \subseteq Path /\ LocalDeletions \subseteq Path
           /\ RemoteDeletions \subseteq files /\ Downloads \subseteq files
           /\ Directories \subseteq dirs
<1>1. \A p \in RemoteDeletions : p \in files
  BY DeletedRemotely DEF Inside
<1> QED BY <1>1 DEF Uploads, LocalDeletions, Downloads, Directories

\* Tasks with a known operation, for paths, are tasks.
LEMMA TasksType ==
    ASSUME NEW op \in Ops, NEW S, S \subseteq Path
    PROVE  Task(op, S) \subseteq [op : Ops, path : Path]
BY DEF Task, Ops

\* What is in something is in a directory: the trees.
Tree == \A p \in Path : local[p] # "none" => \A q \in Above(p) : local[q] = "dir"

\* Directories are made in directories.
LEMMA MadeTree ==
    ASSUME TypeOK, NEW D, D \subseteq Directories, local' = Made(D),
           \A p \in D : ~Obstructed(p) /\ Above(p) \cap Directories \subseteq D
    PROVE  local' \in [Path -> Kind] /\ Tree'
<1> USE DEF Kind
<1>1. local' \in [Path -> Kind]
  BY DEF Made, TypeOK
<1>2. ASSUME NEW p \in Path, local'[p] # "none", NEW q \in Above(p) PROVE local'[q] = "dir"
  <2>0. q \in Path /\ q \in Prefixes(p)
    BY PathType
  <2>1. CASE local[p] # "none"
    BY <2>0, <2>1 DEF Made, TypeOK, IsFile, Has
  <2>2. CASE local[p] = "none"
    <3>1. p \in D /\ Downloading(p) /\ ~Obstructed(p)
      BY <1>2, <2>2 DEF Made, Directories
    <3>2. q \in dirs /\ Above(q) \subseteq Above(p)
      BY <2>0, <3>1, AboveAbove DEF Downloading
    <3>3. Downloading(q) /\ (IsFile(q) => delete_missing_)
      BY <3>1, <3>2 DEF Downloading
    <3>4. CASE IsDir(q)
      BY <2>0, <3>4 DEF Made, IsDir, IsFile, Has
    <3>5. CASE ~IsDir(q)
      <4>1. q \in Directories
        BY <3>2, <3>3, <3>5 DEF Directories
      <4>2. q \in D
        BY <3>1, <4>1
      <4>3. q \in Spaced => local[q] \in {"none", "dir"}
        BY <2>0, <3>1 DEF Obstructed, TypeOK
      <4> QED BY <2>0, <4>2, <4>3 DEF Made, IsFile, Has, TypeOK
    <3> QED BY <3>4, <3>5
  <2> QED BY <2>1, <2>2
<1> QED BY <1>1, <1>2 DEF Tree

\* A path is removed with all that is below it.
LEMMA RemovedTree ==
    ASSUME TypeOK, NEW p, RemoveAll(p)
    PROVE  local' \in [Path -> Kind] /\ Tree'
<1>1. local' \in [Path -> Kind]
  BY DEF RemoveAll, TypeOK, Kind
<1>2. ASSUME NEW r \in Path, local'[r] # "none", NEW q \in Above(r) PROVE local'[q] = "dir"
  <2>1. q \in Path /\ Prefixes(q) \subseteq Prefixes(r)
    BY PathType, AboveAbove
  <2>2. p \notin Prefixes(r) /\ local[r] # "none"
    BY <1>2 DEF RemoveAll
  <2> QED BY <2>1, <2>2 DEF RemoveAll, TypeOK
<1> QED BY <1>1, <1>2 DEF Tree

\* A file is put into a directory, and not in the place of one.
LEMMA DownloadedTree ==
    ASSUME TypeOK, NEW p \in Path, Writable(p), local' = [local EXCEPT ![p] = "file"]
    PROVE  local' \in [Path -> Kind] /\ Tree'
<1>1. local' \in [Path -> Kind]
  BY DEF TypeOK, Kind
<1>2. ASSUME NEW r \in Path, local'[r] # "none", NEW q \in Above(r) PROVE local'[q] = "dir"
  <2>1. q \in Path /\ q # r
    BY PathType
  <2>2. local[q] = "dir"
    BY <1>2, <2>1 DEF TypeOK, Writable
  <2> QED BY <2>1, <2>2 DEF TypeOK, Writable
<1> QED BY <1>1, <1>2 DEF Tree

\* The initial states.
LEMMA TypeInit == Init => TypeOK
<1> SUFFICES ASSUME Init PROVE TypeOK
  OBVIOUS
<1>1. local \in [Path -> Kind] /\ remote \subseteq Path
  BY TreeAssumption DEF Init
<1>2. \A p \in Path : local[p] # "none" => \A q \in Above(p) : local[q] = "dir"
  BY TreeAssumption DEF Init
<1> QED BY <1>1, <1>2 DEF Init, TypeOK

\* Type correctness is inductive.
LEMMA TypeNext == TypeOK /\ [Next]_vars => TypeOK'
<1> SUFFICES ASSUME TypeOK, [Next]_vars PROVE TypeOK'
  OBVIOUS
<1>t. /\ TypeOK' <=> /\ do_upload_' \in BOOLEAN /\ delete_missing_' \in BOOLEAN
                     /\ delete_mode' \in BOOLEAN /\ non_recursive_delete' \in BOOLEAN
                     /\ local' \in [Path -> Kind] /\ Tree'
                     /\ remote' \subseteq Path
                     /\ pc' \in {"root", "list", "run", "done"}
                     /\ todo' \subseteq dirs' /\ dirs' \subseteq Path /\ files' \subseteq Path
                     /\ tasks' \subseteq [op : Ops, path : Path]
                     /\ failed' \in BOOLEAN
      /\ local \in [Path -> Kind] /\ Tree
      /\ tasks \subseteq [op : Ops, path : Path]
  BY DEF TypeOK, Tree, Ops
<1>u. ASSUME local' = local PROVE local' \in [Path -> Kind] /\ Tree'
  BY <1>t, <1>u DEF Tree
<1>1. CASE ListRoot \/ ListRootDies
  BY <1>1, <1>t, <1>u, FoundType DEF ListRoot, ListRootDies, Listed, TypeOK, options
<1>2. ASSUME NEW d \in todo, ListDir(d) \/ ListDirDies(d) PROVE TypeOK'
  BY <1>2, <1>t, <1>u, FoundType DEF ListDir, ListDirDies, Listed, UpTo, TypeOK, options
<1>3. CASE PlanDeletions \/ DeletionRefused \/ SourceNotFound
  <2>1. Task("delete", {p \in files : Included(p)}) \subseteq [op : Ops, path : Path]
    BY TasksType DEF Ops, TypeOK
  <2> QED
    BY <1>3, <2>1, <1>t, <1>u
       DEF PlanDeletions, DeletionRefused, SourceNotFound, TypeOK, options
<1>4. CASE PlanUploads
  <2>1. /\ Task("upload", Uploads) \subseteq [op : Ops, path : Path]
        /\ Task("delete", IF delete_missing_ THEN RemoteDeletions ELSE {})
             \subseteq [op : Ops, path : Path]
    BY TasksType, PlanType DEF Ops, TypeOK
  <2> QED BY <1>4, <2>1, <1>t, <1>u DEF PlanUploads, TypeOK, options
<1>5. CASE PlanDownloads
  <2>1. /\ Task("replace", {p \in Downloads : IsDir(p)}) \subseteq [op : Ops, path : Path]
        /\ Task("download", {p \in Downloads : ~IsDir(p)}) \subseteq [op : Ops, path : Path]
        /\ Task("remove", IF delete_missing_ THEN LocalDeletions ELSE {})
             \subseteq [op : Ops, path : Path]
    BY TasksType, PlanType DEF Ops, TypeOK
  <2>2. local' \in [Path -> Kind] /\ Tree'
    BY <1>5, MadeTree DEF PlanDownloads
  <2> QED BY <1>5, <2>1, <2>2, <1>t DEF PlanDownloads, TypeOK, options
<1>6. CASE MkdirDies
  <2>1. local' \in [Path -> Kind] /\ Tree'
    BY <1>6, MadeTree DEF MkdirDies
  <2> QED BY <1>6, <2>1, <1>t DEF MkdirDies, TypeOK, options
<1>7. ASSUME NEW t \in tasks, Upload(t) \/ Delete(t) \/ TaskDies(t) PROVE TypeOK'
  <2>1. t.path \in Path
    BY <1>t
  <2> QED BY <1>7, <2>1, <1>t, <1>u DEF Upload, Delete, TaskDies, TypeOK, options
<1>8. ASSUME NEW t \in tasks, Remove(t) \/ Replace(t) PROVE TypeOK'
  <2>1. t.path \in Path
    BY <1>t
  <2>2. local' \in [Path -> Kind] /\ Tree'
    BY <1>8, RemovedTree DEF Remove, Replace
  <2>3. Task("download", {t.path}) \subseteq [op : Ops, path : Path]
    BY <2>1, TasksType DEF Ops
  <2>4. tasks' \subseteq [op : Ops, path : Path]
    BY <1>8, <2>3, <1>t DEF Remove, Replace
  <2> QED BY <1>8, <2>2, <2>4, <1>t DEF Remove, Replace, TypeOK, options
<1>9. ASSUME NEW t \in tasks, Download(t) PROVE TypeOK'
  <2>1. t.path \in Path
    BY <1>t
  <2>2. local' \in [Path -> Kind] /\ Tree'
    BY <1>9, <2>1, DownloadedTree DEF Download
  <2> QED BY <1>9, <2>2, <1>t DEF Download, TypeOK, options
<1>10. CASE Return \/ UNCHANGED vars
  BY <1>10, <1>t, <1>u DEF Return, TypeOK, vars, options
<1> QED
  BY <1>1, <1>2, <1>3, <1>4, <1>5, <1>6, <1>7, <1>8, <1>9, <1>10 DEF Next, Finished

\* The variables keep their types, and what is on the disk stays a tree, whatever is
\* removed, replaced or made in the way of something else.
THEOREM TypeCorrect == Spec => []TypeOK
BY TypeInit, TypeNext, PTL DEF Spec

-----------------------------------------------------------------------------
\* How much has been listed.

\* A directory of which something is listed is above it, and so is what is above it.
LEMMA FoundAbove ==
    ASSUME TypeOK, Listing, NEW d \in dirs \cup {Root}, NEW p \in FilesIn(d) \cup DirsIn(d)
    PROVE  Above(p) \subseteq dirs
<1>1. p \in Path /\ IsChild(p, d) /\ d \in Path \cup {Root}
  BY DEF FilesIn, DirsIn, RemoteDir, TypeOK
<1> QED BY <1>1, ChildAbove DEF Listing

\* Nothing has been listed yet.
LEMMA ListingInit == Init => Listing
BY DEF Init, Listing

\* What a directory has found is entered as a whole, or its listing has failed.
LEMMA ListingNext == TypeOK /\ Listing /\ [Next]_vars => Listing'
<1> SUFFICES ASSUME TypeOK, Listing, [Next]_vars PROVE Listing'
  OBVIOUS
<1>r. ASSUME remote' = remote PROVE /\ RemoteDir' = RemoteDir
                                    /\ \A d : FilesIn(d)' = FilesIn(d) /\ DirsIn(d)' = DirsIn(d)
  BY <1>r DEF RemoteDir, FilesIn, DirsIn
<1>1. CASE ListRoot
  <2>1. /\ files' = files \cup FilesIn(Root) /\ dirs' = dirs \cup DirsIn(Root)
        /\ todo' = DirsIn(Root) /\ pc' = "list" /\ remote' = remote /\ tasks' = tasks
        /\ pc = "root" /\ files = {} /\ dirs = {}
    BY <1>1 DEF ListRoot, Listed, Listing
  <2>2. \A d \in dirs' \cup {Root} : d \in todo' \/ Fetched(d)'
    BY <2>1, <1>r DEF Fetched
  <2>3. \A q \in files' \cup dirs' : Above(q) \subseteq dirs'
    BY <2>1, FoundAbove DEF Listing
  <2>4. files' \subseteq remote /\ dirs' \subseteq RemoteDir
    BY <2>1, FoundType DEF Listing
  <2> QED BY <2>1, <2>2, <2>3, <2>4, <1>r DEF Listing
<1>2. ASSUME NEW d \in todo, ListDir(d) \/ ListDirDies(d) PROVE Listing'
  <2>0. d \in dirs
    BY DEF TypeOK
  <2>1. /\ files \subseteq files' /\ files' \subseteq files \cup FilesIn(d)
        /\ dirs \subseteq dirs' /\ dirs' \subseteq dirs \cup DirsIn(d)
        /\ pc' = "list" /\ pc = "list" /\ remote' = remote /\ tasks' = tasks
    BY <1>2 DEF ListDir, ListDirDies, Listed, UpTo
  <2>2. \A q \in files' \cup dirs' : Above(q) \subseteq dirs'
    BY <2>0, <2>1, FoundAbove DEF Listing
  <2>3. files' \subseteq remote /\ dirs' \subseteq RemoteDir
    BY <2>1, FoundType DEF Listing
  <2>4. ~failed' => \A e \in dirs' \cup {Root} : e \in todo' \/ Fetched(e)'
    <3> SUFFICES ASSUME ~failed', NEW e \in dirs' \cup {Root}, e \notin todo'
                 PROVE  Fetched(e)'
      OBVIOUS
    <3>1. ListDir(d) /\ ~failed
      BY <1>2 DEF ListDir, ListDirDies
    <3>2. /\ files' = files \cup FilesIn(d) /\ dirs' = dirs \cup DirsIn(d)
          /\ todo' = (todo \ {d}) \cup DirsIn(d)
      BY <3>1 DEF ListDir, Listed
    <3>3. e = d \/ Fetched(e)
      BY <2>1, <3>1, <3>2 DEF Listing
    <3> QED BY <2>1, <3>2, <3>3, <1>r DEF Fetched
  <2> QED BY <2>1, <2>2, <2>3, <2>4, <1>r DEF Listing
<1>3. CASE pc' \notin {"root", "list"} /\ UNCHANGED <<files, dirs>>
  BY <1>3 DEF Listing
<1>4. CASE UNCHANGED vars
  <2>1. remote' = remote
    BY <1>4 DEF vars
  <2> QED BY <1>4, <2>1, <1>r DEF Listing, Fetched, vars
<1>5. ASSUME NEW t \in tasks,
             Upload(t) \/ Delete(t) \/ Remove(t) \/ Replace(t) \/ Download(t) \/ TaskDies(t)
      PROVE  Listing'
  BY <1>3, <1>5 DEF Upload, Delete, Remove, Replace, Download, TaskDies, Run
<1> QED
  BY <1>1, <1>2, <1>3, <1>4, <1>5
     DEF Next, ListRootDies, PlanDeletions, DeletionRefused, PlanUploads, PlanDownloads,
         MkdirDies, SourceNotFound, Return, Finished

\* When nothing is left to be listed and no listing has failed, files_ and subdirs_ are
\* what is in the bucket.
LEMMA ListedAll ==
    ASSUME TypeOK, Listing, pc = "list", todo = {}, ~failed
    PROVE  files = remote /\ dirs = RemoteDir
<1>1. \A d \in dirs \cup {Root} : Fetched(d)
  BY DEF Listing
<1>2. ASSUME NEW p \in Path, Above(p) \subseteq dirs
      PROVE  /\ p \in remote => p \in files
             /\ p \in RemoteDir => p \in dirs
  <2>1. PICK d \in dirs \cup {Root} : IsChild(p, d)
    <3>1. Len(p) \in Nat \ {0} /\ p \in Seq(Nat \ {0})
      BY PathType
    <3>2. CASE Len(p) = 1
      <4>1. IsChild(p, Root)
        BY <3>1, <3>2, SubSeqEmpty DEF IsChild, Root
      <4> QED BY <4>1
    <3>3. CASE Len(p) > 1
      <4>1. Len(p) - 1 \in 1..Len(p) /\ Len(p) - 1 < Len(p) /\ Len(p) - 1 + 1 = Len(p)
        BY <3>1, <3>3
      <4>2. PICK d : d = SubSeq(p, 1, Len(p) - 1)
        OBVIOUS
      <4>3. d \in Above(p) /\ Len(d) = Len(p) - 1
        BY <4>1, <4>2, PrefixLength
      <4>4. d \in dirs /\ IsChild(p, d)
        BY <1>2, <4>1, <4>2, <4>3 DEF IsChild
      <4> QED BY <4>4
    <3>4. Len(p) = 1 \/ Len(p) > 1
      <4>1. PICK n : n = Len(p)
        OBVIOUS
      <4>2. n \in Nat \ {0}
        BY <3>1, <4>1
      <4>3. n = 1 \/ n > 1
        BY <4>2
      <4> QED BY <4>1, <4>3
    <3> QED BY <3>2, <3>3, <3>4, Zenon
  <2> QED BY <1>1, <2>1 DEF Fetched, FilesIn, DirsIn
<1>3. ASSUME NEW p \in RemoteDir PROVE p \in dirs
  <2>1. p \in Path /\ Prefixes(p) \subseteq RemoteDir
    <3>1. PICK q \in remote : p \in Above(q)
      BY DEF RemoteDir
    <3>2. p \in Path /\ q \in Path /\ p \in Prefixes(q) /\ Prefixes(p) = Above(p) \cup {p}
      BY <3>1, FoundType, PathType DEF RemoteDir, TypeOK
    <3>3. Above(p) \subseteq Above(q) /\ Above(p) \subseteq Path
      BY <3>2, AboveAbove, PathType
    <3> QED BY <3>1, <3>2, <3>3 DEF RemoteDir
  <2>2. ASSUME \E q \in Prefixes(p) : q \notin dirs PROVE FALSE
    <3>1. PICK q \in Prefixes(p) : q \notin dirs /\ Above(q) \subseteq dirs
      BY <2>1, <2>2, Topmost
    <3>2. q \in Path
      BY <2>1, PathAssumption
    <3> QED BY <1>2, <2>1, <3>1, <3>2
  <2> QED BY <2>1, <2>2, PathType
<1>4. ASSUME NEW p \in remote PROVE p \in files
  <2>1. p \in Path /\ Above(p) \subseteq Path
    BY PathType DEF TypeOK
  <2>2. Above(p) \subseteq dirs
    BY <1>3, <2>1 DEF RemoteDir
  <2> QED BY <1>2, <2>1, <2>2
<1> QED BY <1>3, <1>4 DEF Listing

-----------------------------------------------------------------------------
\* What is scheduled.

\* There are no tasks yet.
LEMMA ScheduledInit == Init => Scheduled
BY DEF Init, Scheduled

\* The plan of an upload.
LEMMA PlanUploadsRight ==
    ASSUME TypeOK, Listing, Scheduled, PlanUploads
    PROVE  Scheduled'
<1>1. /\ tasks' = Task("upload", Uploads) \cup
                  Task("delete", IF delete_missing_ THEN RemoteDeletions ELSE {})
      /\ UNCHANGED <<options, local, files, dirs>> /\ do_upload_ /\ ~delete_mode
  BY DEF PlanUploads
<1>2. \A p \in Uploads : p \in Path /\ local[p] = "file"
  BY DEF Uploads, Has
<1>3. ASSUME NEW q \in Path, local[q] # "dir", NEW p \in Inside(q) PROVE local[p] # "file"
  <2>1. p \in Path /\ q \in Above(p)
    BY <1>3 DEF Inside, TypeOK
  <2> QED BY <1>3, <2>1 DEF TypeOK
<1>4. ASSUME NEW p \in RemoteDeletions PROVE p \in Spaced \/ local[p] # "file"
  <2>1. CASE IsDir(p) \/ ~Seen(p)
    BY <2>1, PlanType DEF IsDir, Seen, Has, TypeOK, Kind
  <2>2. ASSUME NEW q \in Uploads, p \in Inside(q) PROVE local[p] # "file"
    BY <1>2, <1>3, <2>2
  <2>3. ASSUME NEW q \in dirs, ~Seen(q), p \in Inside(q) PROVE p \in Spaced \/ local[p] # "file"
    <3>1. p \in Path /\ q \in Path /\ q \in Above(p)
      BY <2>3 DEF Inside, TypeOK
    <3>2. CASE q \in Spaced
      BY <3>1, <3>2, PathAssumption
    <3>3. CASE q \notin Spaced
      BY <1>3, <2>3, <3>1, <3>3 DEF Seen, Has, TypeOK, Kind
    <3> QED BY <3>2, <3>3
  <2> QED BY <2>1, <2>2, <2>3, DeletedRemotely
<1>5. ASSUME NEW t \in tasks' PROVE Purpose(t)'
  <2>1. \/ t.op = "upload" /\ t.path \in Uploads
        \/ t.op = "delete" /\ delete_missing_ /\ t.path \in RemoteDeletions
    BY <1>1 DEF Task
  <2> QED BY <1>1, <1>2, <1>4, <2>1 DEF Purpose, options
<1> QED BY <1>1, <1>5 DEF Scheduled, options

\* The plan of a deletion.
LEMMA PlanDeletionsRight ==
    ASSUME TypeOK, Scheduled, PlanDeletions
    PROVE  Scheduled'
<1>1. \A t \in tasks' : t.op = "delete"
  BY DEF PlanDeletions, Task
<1> QED BY <1>1 DEF PlanDeletions, Scheduled, Purpose, options

\* The plan of a download.
LEMMA PlanDownloadsRight ==
    ASSUME TypeOK, Listing, Scheduled, PlanDownloads
    PROVE  Scheduled'
<1>1. /\ tasks' = Task("replace", {p \in Downloads : IsDir(p)}) \cup
                  Task("download", {p \in Downloads : ~IsDir(p)}) \cup
                  Task("remove", IF delete_missing_ THEN LocalDeletions ELSE {})
      /\ UNCHANGED <<options, files, dirs>> /\ ~do_upload_ /\ local' = Made(Directories)
  BY DEF PlanDownloads
<1>2. \A p \in Downloads : p \in Path /\ p \in files /\ (IsDir(p) => delete_missing_)
  BY DEF Downloads, TypeOK
<1>3. \A p \in LocalDeletions : p \notin files \cup dirs
  BY DEF LocalDeletions
<1>4. \A p \in Path : IsDir(p) => local'[p] = "dir"
  BY <1>1 DEF Made, IsDir, IsFile, Has
<1>5. ASSUME NEW t \in tasks' PROVE Purpose(t)'
  <2>1. \A u \in tasks' :
          \/ u.op = "replace" /\ u.path \in Downloads /\ IsDir(u.path)
          \/ u.op = "download" /\ u.path \in Downloads /\ ~IsDir(u.path)
          \/ u.op = "remove" /\ delete_missing_ /\ u.path \in LocalDeletions
    BY <1>1 DEF Task
  <2> QED BY <1>1, <1>2, <1>3, <1>4, <2>1 DEF Purpose, Scheduled, options
<1> QED BY <1>1, <1>5 DEF Scheduled, options

\* A transfer or a deletion leaves the others with their purpose.
LEMMA RunRight ==
    ASSUME TypeOK, Scheduled, NEW t \in tasks,
           Upload(t) \/ Delete(t) \/ Remove(t) \/ Replace(t) \/ Download(t) \/ TaskDies(t)
    PROVE  Scheduled'
<1>1. UNCHANGED <<options, files, dirs>>
  BY DEF Upload, Delete, Remove, Replace, Download, TaskDies
<1>2. t.path \in Path /\ Purpose(t)
  BY DEF TypeOK, Scheduled
<1>3. CASE Upload(t) \/ Delete(t) \/ TaskDies(t)
  <2>1. tasks' \subseteq tasks /\ local' = local
    BY <1>3 DEF Upload, Delete, TaskDies
  <2> QED BY <1>1, <2>1 DEF Scheduled, Purpose, options
<1>4. CASE Remove(t) \/ Replace(t)
  <2>1. ~do_upload_ /\ ~delete_mode /\ delete_missing_
    BY <1>2, <1>4 DEF Purpose, Remove, Replace, Scheduled
  <2>2. \A p \in Path : local'[p] \in {local[p], "none"}
    BY <1>4 DEF Remove, Replace, RemoveAll
  <2>3. ASSUME NEW u \in tasks' PROVE Purpose(u)'
    <3>1. CASE u \in tasks /\ u # t
      <4>1. u.path \in Path /\ Purpose(u)
        BY <3>1 DEF TypeOK, Scheduled
      <4>2. ASSUME u.op = "replace", NEW v \in tasks', v.op = "download" PROVE v.path # u.path
        <5>1. CASE v \in tasks
          BY <4>1, <4>2, <5>1 DEF Purpose
        <5>2. CASE v \notin tasks
          <6>1. t.op = "replace" /\ v.path = t.path
            BY <1>4, <5>2 DEF Remove, Replace, Task
          <6>2. t \in [op : Ops, path : Path] /\ u \in [op : Ops, path : Path]
            BY <3>1 DEF TypeOK, Ops
          <6> QED BY <3>1, <4>2, <6>1, <6>2
        <5> QED BY <5>1, <5>2
      <4> QED BY <1>1, <2>1, <2>2, <4>1, <4>2 DEF Purpose, options
    <3>2. CASE ~(u \in tasks /\ u # t)
      <4>1. Replace(t) /\ t.op = "replace" /\ u.op = "download" /\ u.path = t.path
        BY <1>4, <3>2 DEF Remove, Replace, Task
      <4> QED BY <1>1, <1>2, <2>1, <4>1 DEF Purpose, options
    <3> QED BY <3>1, <3>2
  <2> QED BY <1>1, <2>1, <2>3 DEF Scheduled, options
<1>5. CASE Download(t)
  <2>1. ~do_upload_ /\ ~delete_mode /\ tasks' = tasks \ {t} /\ t.op = "download"
    BY <1>2, <1>5 DEF Purpose, Download, Scheduled
  <2>2. \A p \in Path : local'[p] = IF p = t.path THEN "file" ELSE local[p]
    BY <1>5 DEF Download, TypeOK
  <2>3. ASSUME NEW u \in tasks' PROVE Purpose(u)'
    <3>1. u \in tasks /\ u.path \in Path /\ Purpose(u)
      BY <2>1 DEF TypeOK, Scheduled
    <3> QED BY <1>1, <2>1, <2>2, <3>1 DEF Purpose, options
  <2> QED BY <1>1, <2>1, <2>3 DEF Scheduled, options
<1> QED BY <1>3, <1>4, <1>5

\* Tasks are planned with a purpose, and keep it.
LEMMA ScheduledNext == IInv /\ [Next]_vars => Scheduled'
<1> SUFFICES ASSUME TypeOK, Listing, Scheduled, [Next]_vars PROVE Scheduled'
  BY DEF IInv
<1>1. CASE ListRoot \/ ListRootDies \/ DeletionRefused \/ SourceNotFound \/ MkdirDies
           \/ \E d \in todo : ListDir(d) \/ ListDirDies(d)
  <2>1. UNCHANGED options /\ tasks' = {}
    BY <1>1 DEF ListRoot, ListRootDies, DeletionRefused, SourceNotFound, MkdirDies, ListDir,
                ListDirDies, Listing
  <2> QED BY <2>1 DEF Scheduled, options
<1>2. CASE Return \/ UNCHANGED vars
  BY <1>2 DEF Return, vars, Scheduled, Purpose, options
<1> QED
  BY <1>1, <1>2, PlanUploadsRight, PlanDeletionsRight, PlanDownloadsRight, RunRight
     DEF Next, Finished

\* IInv holds in every reachable state, whatever is listed and planned.
THEOREM Invariance == Spec => []IInv
<1>1. Init => IInv
  BY TypeInit, ListingInit, ScheduledInit DEF IInv
<1>2. IInv /\ [Next]_vars => IInv'
  BY TypeNext, ListingNext, ScheduledNext DEF IInv
<1> QED BY <1>1, <1>2, PTL DEF Spec

-----------------------------------------------------------------------------
\* What is removed.

\* The steps that remove something, and what.
LEMMA Removals ==
    ASSUME IInv, [Next]_vars, NEW p \in Path
    PROVE  /\ RemovedRemotely(p) => \E t \in tasks : t.op = "delete" /\ t.path = p
           /\ RemovedLocally(p) =>
                \/ \E t \in tasks : t.op \in {"remove", "replace"} /\ t.path \in Prefixes(p)
                \/ pc = "list" /\ ~do_upload_ /\ p \in Directories /\ IsFile(p)
<1> USE DEF IInv, RemovedRemotely, RemovedLocally
<1>1. CASE ListRoot \/ ListRootDies \/ PlanDeletions \/ DeletionRefused \/ PlanUploads
           \/ SourceNotFound \/ Return \/ UNCHANGED vars
           \/ \E d \in todo : ListDir(d) \/ ListDirDies(d)
  BY <1>1 DEF ListRoot, ListRootDies, PlanDeletions, DeletionRefused, PlanUploads, SourceNotFound,
              Return, vars, ListDir, ListDirDies
<1>2. CASE PlanDownloads \/ MkdirDies
  <2>1. PICK D \in SUBSET Directories : local' = Made(D)
    BY <1>2 DEF PlanDownloads, MkdirDies
  <2>2. remote' = remote /\ pc = "list" /\ ~do_upload_
    BY <1>2 DEF PlanDownloads, MkdirDies
  <2> QED BY <2>1, <2>2 DEF Made
<1>3. ASSUME NEW t \in tasks, Upload(t) \/ Delete(t) \/ TaskDies(t)
      PROVE  /\ local' = local
             /\ p \in remote /\ p \notin remote' => t.op = "delete" /\ t.path = p
  BY <1>3 DEF Upload, Delete, TaskDies
<1>4. ASSUME NEW t \in tasks, Remove(t) \/ Replace(t)
      PROVE  /\ remote' = remote
             /\ RemovedLocally(p) => t.op \in {"remove", "replace"} /\ t.path \in Prefixes(p)
  BY <1>4 DEF Remove, Replace, RemoveAll
<1>5. ASSUME NEW t \in tasks, Download(t)
      PROVE  remote' = remote /\ ~RemovedLocally(p)
  BY <1>5 DEF Download, TypeOK
<1> QED BY <1>1, <1>2, <1>3, <1>4, <1>5 DEF Next, Finished

\* Without --delete-missing nothing is removed on either side, for any trees.
THEOREM NothingIsLost == Spec => NothingLost
<1>1. IInv /\ [Next]_vars =>
        [~delete_missing_ => \A p \in Path : ~RemovedLocally(p) /\ ~RemovedRemotely(p)]_vars
  <2> SUFFICES ASSUME IInv, [Next]_vars, ~delete_missing_, NEW p \in Path
               PROVE  ~RemovedLocally(p) /\ ~RemovedRemotely(p)
    OBVIOUS
  <2>1. \A t \in tasks : t.op \in {"upload", "download"}
    BY DEF IInv, Scheduled, Purpose
  <2>2. ~(p \in Directories /\ IsFile(p))
    BY DEF Directories
  <2> QED BY <2>1, <2>2, Removals
<1> QED BY <1>1, Invariance, PTL DEF Spec, NothingLost

\* Up to the run of an upload, and all through a download, the bucket is as it was, and
\* has no key that is a directory.
Unshadowed ==
    \/ do_upload_ /\ pc \notin {"root", "list"}
    \/ \A p \in remote : Above(p) \cap remote = {}

\* That is so at first by assumption ...
LEMMA UnshadowedInit == NoShadow => (Init => Unshadowed)
BY DEF NoShadow, Init, Unshadowed

\* ... and only the tasks of an upload change the bucket.
LEMMA UnshadowedNext == IInv /\ Unshadowed /\ [Next]_vars => Unshadowed'
<1> SUFFICES ASSUME IInv, Unshadowed, [Next]_vars PROVE Unshadowed'
  OBVIOUS
<1>1. ASSUME NEW t \in tasks, Upload(t) \/ Delete(t)
      PROVE  do_upload_ /\ pc = "run" /\ UNCHANGED <<pc, do_upload_>>
  BY <1>1 DEF IInv, Scheduled, Purpose, Upload, Delete, Run, options
<1>2. ASSUME \A t \in tasks : ~(Upload(t) \/ Delete(t))
      PROVE  /\ UNCHANGED <<remote, do_upload_>>
             /\ pc' \in {"root", "list"} => pc \in {"root", "list"}
  BY <1>2
     DEF Next, ListRoot, ListRootDies, ListDir, ListDirDies, PlanDeletions, DeletionRefused,
         PlanUploads, PlanDownloads, MkdirDies, SourceNotFound, Remove, Replace, Download,
         TaskDies, Run, Return, Finished, vars, options
<1> QED BY <1>1, <1>2 DEF Unshadowed

\* If a download has seen the whole bucket, what it removes is not in it.
LEMMA RemovedIsMissing ==
    ASSUME IInv, Unshadowed, [Next]_vars, NEW p \in Path, RemovedLocally(p), remote = files
    PROVE  p \notin remote
<1>1. ASSUME NEW t \in tasks, t.op = "remove", t.path \in Prefixes(p) PROVE p \notin remote
  <2>1. t.path \notin files \cup dirs
    BY <1>1 DEF IInv, Scheduled, Purpose
  <2>2. Prefixes(p) = Above(p) \cup {p}
    BY PathType
  <2> QED BY <1>1, <2>1, <2>2 DEF IInv, Listing
<1>2. ASSUME NEW t \in tasks, t.op = "replace", t.path \in Prefixes(p) PROVE p \notin remote
  <2>1. ~do_upload_ /\ t.path \in files /\ local[t.path] # "file"
    BY <1>2 DEF IInv, Scheduled, Purpose
  <2>2. Prefixes(p) = Above(p) \cup {p}
    BY PathType
  <2> QED BY <1>2, <2>1, <2>2 DEF Unshadowed, RemovedLocally
<1>3. ASSUME pc = "list", ~do_upload_, p \in Directories PROVE p \notin remote
  BY <1>3 DEF IInv, Listing, Directories, RemoteDir, Unshadowed
<1> QED BY <1>1, <1>2, <1>3, Removals

\* Without keys that are directories, too, --delete-missing removes nothing that has a
\* counterpart, in any order of deletions and transfers, and whatever fails.
THEOREM OnlyMissingIsRemoved == NoShadow => (Spec => OnlyMissingRemoved)
<1> SUFFICES ASSUME NoShadow PROVE Spec => OnlyMissingRemoved
  OBVIOUS
<1>1. IInv /\ Unshadowed /\ [Next]_vars =>
        [\A p \in Path \ Spaced :
           /\ RemovedRemotely(p) => do_upload_ /\ (delete_mode \/ ~IsLocalFile(p))
           /\ RemovedLocally(p) => ~do_upload_ /\ (remote = files => p \notin remote)]_vars
  <2> SUFFICES ASSUME IInv, Unshadowed, [Next]_vars, NEW p \in Path \ Spaced
               PROVE  /\ RemovedRemotely(p) => do_upload_ /\ (delete_mode \/ ~IsLocalFile(p))
                      /\ RemovedLocally(p) => ~do_upload_ /\ (remote = files => p \notin remote)
    OBVIOUS
  <2>1. \A t \in tasks : Purpose(t)
    BY DEF IInv, Scheduled
  <2>2. RemovedRemotely(p) => do_upload_ /\ (delete_mode \/ ~IsLocalFile(p))
    BY <2>1, Removals DEF Purpose, IsLocalFile
  <2>3. RemovedLocally(p) => ~do_upload_
    BY <2>1, Removals DEF Purpose
  <2> QED BY <2>2, <2>3, RemovedIsMissing
<1>2. Init => Unshadowed
  BY UnshadowedInit
<1> QED BY <1>1, <1>2, UnshadowedNext, Invariance, PTL DEF Spec, OnlyMissingRemoved

-----------------------------------------------------------------------------
\* What is left to be done.

To(op, p) == [op |-> op, path |-> p] \in tasks

\* What Mirrored promises of a path, or a task that will see to it.
Due(p) ==
    IF delete_mode THEN p \in remote => To("delete", p)
    ELSE IF do_upload_
    THEN /\ IsLocalFile(p) => p \in remote \/ BlockedUpload(p) \/ To("upload", p)
         /\ delete_missing_ /\ p \in remote =>
              IsLocalFile(p) \/ KeptRemotely(p) \/ To("delete", p)
    ELSE /\ p \in remote =>
              \/ IsLocalFile(p) \/ BlockedDownload(p)
              \/ To("download", p) \/ To("replace", p)
         /\ delete_missing_ /\ IsLocalFile(p) =>
              \/ p \in remote \/ KeptLocally(p)
              \/ \E q \in Prefixes(p) : To("remove", q) \/ To("replace", q)

Left ==
    /\ pc = "done" /\ ~failed => tasks = {}
    /\ pc \in {"run", "done"} /\ ~failed =>
         /\ ~do_upload_ => remote = files
         /\ \A p \in Path : Included(p) => Due(p)

\* After the plan of a deletion.
LEMMA DeletionsDue ==
    ASSUME IInv, PlanDeletions, ~failed, NEW p \in Path, Included(p)
    PROVE  Due(p)'
<1>1. files = remote
  BY ListedAll DEF PlanDeletions, IInv
<1> QED BY <1>1 DEF PlanDeletions, Due, To, Task, options

\* After the plan of an upload: included files are scheduled, or blocked.
LEMMA UploadsDue ==
    ASSUME IInv, Unshadowed, PlanUploads, ~failed, NEW p \in Path, Included(p)
    PROVE  Due(p)'
<1> USE DEF IInv
<1>1. /\ files = remote /\ dirs = RemoteDir /\ \A q \in remote : Above(q) \cap remote = {}
  BY ListedAll DEF PlanUploads, Unshadowed
<1>2. /\ tasks' = Task("upload", Uploads) \cup
                  Task("delete", IF delete_missing_ THEN RemoteDeletions ELSE {})
      /\ UNCHANGED <<do_upload_, delete_missing_, delete_mode, local, remote>>
      /\ do_upload_ /\ ~delete_mode
  BY DEF PlanUploads, options
<1>3. /\ BlockedUpload(p)' = BlockedUpload(p) /\ KeptRemotely(p)' = KeptRemotely(p)
      /\ IsLocalFile(p)' = IsLocalFile(p)
  BY <1>2 DEF BlockedUpload, KeptRemotely, IsLocalFile, RemoteDir
<1>4. /\ \A q \in Uploads : To("upload", q)'
      /\ delete_missing_ => \A q \in RemoteDeletions : To("delete", q)'
  BY <1>2 DEF To, Task
<1>5. \A q \in Prefixes(p) : q \in Path /\ q \notin Spaced
  BY PathAssumption, PathType DEF Included
<1>6. ASSUME IsLocalFile(p) PROVE BlockedUpload(p) \/ p \in Uploads
  <2>1. \A q \in Above(p) : IsDir(q)
    BY <1>5, <1>6, PathType DEF IsDir, Has, IsLocalFile, TypeOK
  <2>2. \/ Uploading(p) /\ (DirBeside(p) => delete_missing_)
        \/ ~delete_missing_ /\ (Above(p) \cap remote # {} \/ p \in RemoteDir)
    BY <1>1, <2>1 DEF Uploading, FileBeside, DirBeside
  <2> QED BY <1>6, <2>2 DEF Uploads, BlockedUpload, IsLocalFile, Has, Included
<1>7. ASSUME delete_missing_, p \in remote, ~IsLocalFile(p), ~KeptRemotely(p)
      PROVE  p \in RemoteDeletions
  <2>1. p \in files /\ Above(p) \cap files = {} /\ Above(p) \subseteq dirs
    BY <1>1, <1>7 DEF Listing
  <2>2. CASE \A q \in Above(p) : IsDir(q)
    <3>1. Uploading(p) /\ FileBeside(p)
      BY <1>7, <2>1, <2>2 DEF Uploading, FileBeside
    <3>2. local[p] # "link"
      BY <1>7, PathType DEF KeptRemotely
    <3>3. IsDir(p) \/ ~Seen(p)
      BY <1>7, <3>2 DEF IsDir, Seen, Has, IsLocalFile
    <3> QED BY <2>1, <3>1, <3>3, DeletedRemotely
  <2>3. CASE \E q \in Above(p) : ~IsDir(q)
    <3>1. PICK q \in Prefixes(p) : ~IsDir(q) /\ \A r \in Above(q) : IsDir(r)
      <4> DEFINE S == {r \in Path : IsDir(r)}
      <4>1. \E q \in Prefixes(p) : q \notin S
        BY <2>3, PathType
      <4>2. PICK q \in Prefixes(p) : q \notin S /\ Above(q) \subseteq S
        <5> HIDE DEF S
        <5> QED BY <4>1, Topmost
      <4> QED BY <1>5, <4>2
    <3>2. q \in Above(p)
      <4>1. PICK r \in Above(p) : ~IsDir(r)
        BY <2>3
      <4>2. q # p
        BY <3>1, <4>1
      <4> QED BY <3>1, <4>2, PathType
    <3>3. q \in Path /\ q \notin Spaced /\ Above(q) \subseteq Above(p) /\ q \in dirs
      BY <1>5, <2>1, <3>1, <3>2, AboveAbove
    <3>4. Uploading(q) /\ DirBeside(q) /\ p \in Inside(q)
      BY <1>7, <2>1, <3>1, <3>2, <3>3 DEF Uploading, DirBeside, Inside
    <3>5. local[q] \in {"none", "file"}
      BY <1>7, <3>1, <3>3 DEF KeptRemotely, IsDir, Has, TypeOK, Kind
    <3>6. CASE local[q] = "none"
      BY <3>3, <3>4, <3>6, DeletedRemotely DEF Seen, Has
    <3>7. CASE local[q] = "file"
      <4>1. q \notin Excluded
        BY <1>7, <3>1, <3>7 DEF KeptRemotely, IsLocalFile
      <4>2. q \in Uploads
        BY <1>7, <3>3, <3>4, <3>7, <4>1 DEF Uploads, Included, Has
      <4> QED BY <3>4, <4>2, DeletedRemotely
    <3> QED BY <3>5, <3>6, <3>7
  <2> QED BY <2>2, <2>3
<1> QED BY <1>2, <1>3, <1>4, <1>6, <1>7 DEF Due

\* After the plan of a download, with the directories made.
LEMMA DownloadsDue ==
    ASSUME IInv, Unshadowed, PlanDownloads, ~failed, NEW p \in Path, Included(p)
    PROVE  Due(p)'
<1> USE DEF IInv
<1>1. /\ files = remote /\ dirs = RemoteDir /\ \A q \in remote : Above(q) \cap remote = {}
  BY ListedAll DEF PlanDownloads, Unshadowed
<1>2. /\ tasks' = Task("replace", {q \in Downloads : IsDir(q)}) \cup
                  Task("download", {q \in Downloads : ~IsDir(q)}) \cup
                  Task("remove", IF delete_missing_ THEN LocalDeletions ELSE {})
      /\ UNCHANGED <<do_upload_, delete_missing_, delete_mode, remote>>
      /\ ~do_upload_ /\ ~delete_mode
      /\ local' = Made(Directories)
  BY DEF PlanDownloads, options, Scheduled
<1>3. /\ \A q \in Downloads : IF IsDir(q) THEN To("replace", q)' ELSE To("download", q)'
      /\ delete_missing_ => \A q \in LocalDeletions : To("remove", q)'
  BY <1>2 DEF To, Task
<1>4. \A q \in Prefixes(p) : q \in Path /\ q \notin Spaced
  BY PathAssumption, PathType DEF Included
<1>5. ASSUME p \in remote, ~BlockedDownload(p)' PROVE p \in Downloads
  <2>1. Above(p) \subseteq dirs /\ p \in files
    BY <1>1, <1>5 DEF Listing
  <2>2. ~delete_missing_ => local'[p] # "dir" /\ \A q \in Above(p) : local'[q] = "dir"
    BY <1>2, <1>5 DEF BlockedDownload
  <2>3. \A q \in Above(p) : IsFile(q) => delete_missing_
    <3> SUFFICES ASSUME NEW q \in Above(p), IsFile(q), ~delete_missing_ PROVE FALSE
      OBVIOUS
    <3>1. q \in Path /\ q \notin Directories
      BY <1>4, PathType DEF Directories
    <3>2. local'[q] # "dir"
      BY <1>2, <3>1 DEF Made, IsFile, Has
    <3> QED BY <2>2, <3>2
  <2>4. IsDir(p) => delete_missing_
    BY <1>2, <2>2 DEF Made, IsDir, IsFile, Has
  <2> QED BY <2>1, <2>3, <2>4 DEF Downloads, Downloading
<1>6. ASSUME delete_missing_, local'[p] = "file", p \notin remote, ~KeptLocally(p)
      PROVE  \E q \in Prefixes(p) : To("remove", q)' \/ To("replace", q)'
  <2>1. local[p] = "file" /\ p \notin Directories
    BY <1>2, <1>4, <1>6 DEF Made, IsFile, Has, Included
  <2>2. p \in Prefixes(p) /\ Above(p) \subseteq Prefixes(p)
    BY PathType
  <2>3. CASE Above(p) \subseteq dirs
    <3>1. Downloading(p)
      BY <1>6, <2>3 DEF Downloading
    <3>2. Seen(p) /\ ~IsDir(p) /\ p \notin files
      BY <1>1, <1>6, <2>1 DEF Seen, IsDir, Has, Included
    <3>3. p \in LocalDeletions
      BY <1>6, <2>1, <3>1, <3>2 DEF Directories, LocalDeletions
    <3> QED BY <1>3, <1>6, <2>2, <3>3
  <2>4. CASE ~(Above(p) \subseteq dirs)
    <3>1. PICK q \in Prefixes(p) : q \notin dirs /\ Above(q) \subseteq dirs
      BY <2>2, <2>4, Topmost
    <3>2. q \in Above(p) /\ q \in Path /\ q \notin Spaced /\ local[q] = "dir"
      <4>1. q # p
        BY <2>4, <3>1
      <4>2. q \in Above(p)
        BY <3>1, <4>1, PathType
      <4>3. local[p] # "none" => local[q] = "dir"
        BY <4>2 DEF TypeOK
      <4> QED BY <1>4, <2>1, <3>1, <4>2, <4>3
    <3>3. Downloading(q) /\ IsDir(q) /\ Seen(q)
      BY <1>6, <3>1, <3>2 DEF Downloading, IsDir, Seen, Has
    <3>4. CASE q \notin files
      BY <1>3, <1>6, <3>1, <3>2, <3>3, <3>4 DEF LocalDeletions
    <3>5. CASE q \in files
      <4>1. Included(q)
        BY <1>1, <1>6, <3>2, <3>5 DEF KeptLocally, Included
      <4>2. q \in Downloads
        BY <1>6, <3>3, <3>5, <4>1 DEF Downloads
      <4> QED BY <1>3, <3>1, <3>3, <4>2
    <3> QED BY <3>4, <3>5
  <2> QED BY <2>3, <2>4
<1>7. KeptLocally(p)' = KeptLocally(p) /\ IsLocalFile(p)' = (local'[p] = "file")
  BY <1>2 DEF KeptLocally, IsLocalFile
<1> QED BY <1>2, <1>3, <1>5, <1>6, <1>7 DEF Due

\* A task that does not end stays.
LEMMA TaskStays ==
    ASSUME TypeOK, NEW t \in tasks, tasks \ {t} \subseteq tasks', NEW op, NEW p, To(op, p)
    PROVE  To(op, p)' \/ (t.op = op /\ t.path = p)
BY DEF To

\* Uploads, and deletions in the bucket, keep the promise.
LEMMA UploadKeepsDue ==
    ASSUME IInv, NEW t \in tasks, Upload(t) \/ Delete(t), NEW p \in Path, Included(p), Due(p)
    PROVE  Due(p)'
<1> USE DEF IInv
<1>1. /\ UNCHANGED <<do_upload_, delete_missing_, delete_mode, local>>
      /\ tasks' = tasks \ {t}
      /\ Purpose(t) /\ do_upload_
  BY DEF Upload, Delete, options, Scheduled, Purpose
<1>2. /\ IsLocalFile(p)' = IsLocalFile(p) /\ KeptRemotely(p)' = KeptRemotely(p)
      /\ IsLocalFile(p) <=> local[p] = "file"
      /\ p \notin Spaced
  BY <1>1 DEF IsLocalFile, KeptRemotely, Included
<1>3. \A op \in Ops : To(op, p) => To(op, p)' \/ (t.op = op /\ t.path = p)
  BY <1>1, TaskStays
<1>4. CASE Upload(t)
  <2>1. t.op = "upload" /\ remote' = remote \cup {t.path} /\ ~delete_mode
    BY <1>1, <1>4 DEF Upload, Purpose
  <2>2. BlockedUpload(p) => BlockedUpload(p)'
    BY <1>1, <2>1 DEF BlockedUpload, RemoteDir
  <2>3. local[t.path] = "file"
    BY <1>1, <2>1 DEF Purpose
  <2> QED BY <1>1, <1>2, <1>3, <2>1, <2>2, <2>3 DEF Due, Ops
<1>5. CASE Delete(t)
  <2>1. t.op = "delete" /\ remote' = remote \ {t.path} /\ delete_missing_
    BY <1>1, <1>5 DEF Delete, Purpose
  <2>2. ~BlockedUpload(p)
    BY <2>1 DEF BlockedUpload
  <2>3. delete_mode \/ t.path \in Spaced \/ local[t.path] # "file"
    BY <1>1, <2>1 DEF Purpose
  <2> QED BY <1>1, <1>2, <1>3, <2>1, <2>2, <2>3 DEF Due, Ops
<1> QED BY <1>4, <1>5

\* Downloads, and removals from the disk, do, too.
LEMMA DownloadKeepsDue ==
    ASSUME IInv, Unshadowed, remote = files,
           NEW t \in tasks, Remove(t) \/ Replace(t) \/ Download(t),
           NEW p \in Path, Included(p), Due(p)
    PROVE  Due(p)'
<1>1. /\ UNCHANGED <<do_upload_, delete_missing_, delete_mode, remote, files>>
      /\ tasks \ {t} \subseteq tasks'
      /\ Purpose(t) /\ ~do_upload_ /\ ~delete_mode /\ t.path \in Path
  BY DEF Remove, Replace, Download, options, IInv, Scheduled, Purpose, TypeOK
<1>2. KeptLocally(p)' = KeptLocally(p) /\ (IsLocalFile(p) <=> local[p] = "file")
                                       /\ (IsLocalFile(p)' <=> local'[p] = "file")
  BY <1>1 DEF IsLocalFile, KeptLocally
<1>3. \A op \in Ops, q \in Prefixes(p) : To(op, q) => To(op, q)' \/ (t.op = op /\ t.path = q)
  BY <1>1, TaskStays DEF IInv
<1>4. p \in Prefixes(p)
  BY PathType
<1>5. CASE Remove(t) \/ Replace(t)
  <2>1. delete_missing_ /\ t.op \in {"remove", "replace"}
    BY <1>1, <1>5 DEF Remove, Replace, Purpose
  <2>2. local'[p] = IF t.path \in Prefixes(p) THEN "none" ELSE local[p]
    BY <1>5 DEF Remove, Replace, RemoveAll
  <2>3. t.op = "replace" => To("download", t.path)'
    BY <1>5 DEF Remove, Replace, To, Task
  <2>4. ~RemovedLocally(p) \/ p \notin remote
    <3>1. [Next]_vars
      BY <1>5 DEF Next
    <3> QED BY <3>1, RemovedIsMissing
  <2>5. ~BlockedDownload(p)
    BY <2>1 DEF BlockedDownload
  <2>6. p \in remote => IsLocalFile(p)' \/ To("download", p)' \/ To("replace", p)'
    BY <1>1, <1>2, <1>3, <1>4, <2>1, <2>3, <2>4, <2>5 DEF Due, Ops, RemovedLocally
  <2>7. IsLocalFile(p)' =>
           p \in remote \/ KeptLocally(p)
             \/ \E q \in Prefixes(p) : To("remove", q)' \/ To("replace", q)'
    BY <1>1, <1>2, <1>3, <2>1, <2>2 DEF Due, Ops
  <2> QED BY <1>1, <1>2, <2>6, <2>7 DEF Due
<1>6. CASE Download(t)
  <2>1. t.op = "download" /\ Writable(t.path) /\ t.path \in remote
    BY <1>1, <1>6 DEF Download, Purpose
  <2>2. \A q \in Path : local'[q] = IF q = t.path THEN "file" ELSE local[q]
    BY <1>6 DEF Download, IInv, TypeOK
  <2>3. Above(p) \subseteq Path
    BY PathType
  <2>4. BlockedDownload(p) => BlockedDownload(p)'
    BY <1>1, <2>1, <2>2, <2>3 DEF BlockedDownload, Writable
  <2>5. p \in remote =>
          IsLocalFile(p)' \/ BlockedDownload(p)' \/ To("download", p)' \/ To("replace", p)'
    BY <1>1, <1>2, <1>3, <1>4, <2>1, <2>2, <2>4 DEF Due, Ops
  <2>6. delete_missing_ /\ IsLocalFile(p)' =>
           p \in remote \/ KeptLocally(p)
             \/ \E q \in Prefixes(p) : To("remove", q)' \/ To("replace", q)'
    BY <1>1, <1>2, <1>3, <2>1, <2>2 DEF Due, Ops
  <2> QED BY <1>1, <1>2, <2>5, <2>6 DEF Due
<1> QED BY <1>5, <1>6

\* Every step leaves something to be done of what is not done.
LEMMA LeftNext == IInv /\ Unshadowed /\ Left /\ [Next]_vars => Left'
<1> SUFFICES ASSUME IInv, Unshadowed, Left, [Next]_vars PROVE Left'
  OBVIOUS
<1>1. CASE ListRoot \/ \E d \in todo : ListDir(d) \/ ListDirDies(d)
  BY <1>1 DEF ListRoot, ListDir, ListDirDies, Left
<1>2. CASE ListRootDies \/ DeletionRefused \/ MkdirDies \/ SourceNotFound
  BY <1>2 DEF ListRootDies, DeletionRefused, MkdirDies, SourceNotFound, Left
<1>3. CASE PlanDeletions \/ PlanUploads \/ PlanDownloads
  <2>1. pc' = "run" /\ failed' = failed /\ pc = "list" /\ todo = {}
        /\ UNCHANGED <<remote, files, do_upload_>>
    BY <1>3 DEF PlanDeletions, PlanUploads, PlanDownloads, options
  <2>2. ~failed => files = remote
    BY <2>1, ListedAll DEF IInv
  <2>3. ~failed => \A p \in Path : Included(p) => Due(p)'
    BY <1>3, DeletionsDue, UploadsDue, DownloadsDue
  <2> QED BY <2>1, <2>2, <2>3 DEF Left, Included
<1>4. ASSUME NEW t \in tasks, Upload(t) \/ Delete(t) \/ Remove(t) \/ Replace(t) \/ Download(t)
      PROVE  Left'
  <2>1. pc = "run" /\ UNCHANGED <<pc, failed, files, do_upload_>>
    BY <1>4 DEF Upload, Delete, Remove, Replace, Download, Run, options
  <2>2. ~failed /\ ~do_upload_ => remote = files /\ remote' = remote
    BY <1>4, <2>1 DEF Left, IInv, Scheduled, Purpose, Upload, Delete, Remove, Replace, Download
  <2>3. ASSUME ~failed, NEW p \in Path, Included(p) PROVE Due(p)'
    <3>1. Due(p)
      BY <2>1, <2>3 DEF Left
    <3>2. CASE Upload(t) \/ Delete(t)
      BY <2>3, <3>1, <3>2, UploadKeepsDue
    <3>3. CASE Remove(t) \/ Replace(t) \/ Download(t)
      <4>1. ~do_upload_
        BY <3>3 DEF IInv, Scheduled, Purpose, Remove, Replace, Download
      <4> QED BY <2>2, <2>3, <3>1, <3>3, <4>1, DownloadKeepsDue
    <3> QED BY <1>4, <3>2, <3>3
  <2> QED BY <2>1, <2>2, <2>3 DEF Left, Included
<1>5. ASSUME NEW t \in tasks, TaskDies(t) PROVE Left'
  BY <1>5 DEF TaskDies, Left
<1>6. CASE Return \/ UNCHANGED vars
  <2>1. /\ UNCHANGED <<do_upload_, delete_missing_, delete_mode, local, remote, files, tasks, failed>>
        /\ pc' = "done" => tasks = {} \/ pc = "done"
        /\ pc' \in {"run", "done"} => pc \in {"run", "done"}
    BY <1>6 DEF Return, vars, options
  <2>2. \A p \in Path : Due(p)' = Due(p)
    BY <2>1
       DEF Due, To, IsLocalFile, BlockedUpload, BlockedDownload, KeptRemotely, KeptLocally,
           RemoteDir
  <2>3. pc' = "done" /\ ~failed' => tasks' = {}
    BY <2>1, <1>6 DEF Left, Return, vars
  <2>4. pc' \in {"run", "done"} /\ ~failed' =>
          (~do_upload_' => remote' = files') /\ \A p \in Path : Included(p) => Due(p)'
    BY <2>1, <2>2 DEF Left
  <2> QED BY <2>3, <2>4 DEF Left, Included
<1> QED BY <1>1, <1>2, <1>3, <1>4, <1>5, <1>6 DEF Next, Finished

\* Without keys that are directories, too, a command that reports success has mirrored
\* its source, or has removed all that it had to: whatever tree, order, and options.
THEOREM MirroredAtEnd == NoShadow => (Spec => []Mirrored)
<1> SUFFICES ASSUME NoShadow PROVE Spec => []Mirrored
  OBVIOUS
<1>1. Init => Unshadowed /\ Left
  BY UnshadowedInit DEF Init, Left
<1>2. IInv /\ (Unshadowed /\ Left) /\ [Next]_vars => (Unshadowed /\ Left)'
  BY UnshadowedNext, LeftNext
<1>3. Left => Mirrored
  BY DEF Left, Mirrored, Due, To
<1> QED BY <1>1, <1>2, <1>3, Invariance, PTL DEF Spec
=============================================================================
