-------------------------------- MODULE Sync --------------------------------
(***************************************************************************)
(* One run of "es3 sync" or "es3 rm" (synchronizer of sync.cpp, called by  *)
(* do_rsync and do_rm): the remote tree is listed, the root by the main    *)
(* thread and each directory by a task; then the main thread compares it   *)
(* with the local tree and schedules uploads or downloads and, with        *)
(* --delete-missing, deletions; last, the tasks run in any order.          *)
(*                                                                         *)
(* A path is the sequence of its names, which are numbered in the order in *)
(* which S3 lists them.  S3 has no directories: the remote tree is a set   *)
(* of keys, and a key may be the name of a directory, too.                 *)
(***************************************************************************)
EXTENDS Integers, Sequences

CONSTANTS Path,       \* the paths below the roots
          LocalTree,  \* the local trees to start from
          RemoteTree, \* the remote trees to start from
          Excluded,   \* paths that --exclude-path or --include-path leave out
          Spaced,     \* paths with a space in them
          Faults      \* "list": listings may fail, "task": transfers may fail

Prefixes(p) == {SubSeq(p, 1, k) : k \in 1..Len(p)}
Above(p) == Prefixes(p) \ {p}

\* "link" stands for whatever is unsyncable_.
Kind == {"none", "file", "link", "dir"}

ASSUME PathAssumption ==
    /\ \A p \in Path : p \in Seq(Nat \ {0}) /\ p # <<>> /\ Prefixes(p) \subseteq Path
    /\ Excluded \subseteq Path /\ Spaced \subseteq Path
    /\ \A p \in Path : Above(p) \cap Spaced # {} => p \in Spaced

ASSUME TreeAssumption ==
    /\ LocalTree \subseteq [Path -> Kind]
    /\ \A tree \in LocalTree : \A p \in Path : tree[p] # "none" =>
          \A q \in Above(p) : tree[q] = "dir"
    /\ RemoteTree \subseteq SUBSET Path
    /\ Faults \subseteq {"list", "task"}

VARIABLES do_upload_,
          delete_missing_,
          delete_mode,          \* "es3 rm"
          non_recursive_delete, \* without --recursive
          local,   \* what is on the disk
          remote,  \* the keys in the bucket
          pc,      \* the main thread
          todo,    \* directories that wait for their list_subdir_task
          files,   \* files_ of all s3_directory objects
          dirs,    \* subdirs_ of all s3_directory objects
          tasks,   \* transfers and deletions that have not ended
          failed   \* num_failed_ # 0, or the command has given up

vars == <<do_upload_, delete_missing_, delete_mode, non_recursive_delete, local, remote, pc,
          todo, files, dirs, tasks, failed>>
options == <<do_upload_, delete_missing_, delete_mode, non_recursive_delete>>

Root == <<>>
IsChild(p, d) == Len(p) = Len(d) + 1 /\ SubSeq(p, 1, Len(d)) = d

\* A directory of S3 is what keys begin with.
RemoteDir == {p \in Path : \E q \in remote : p \in Above(q)}
FilesIn(d) == {p \in remote : IsChild(p, d)}
DirsIn(d) == {p \in RemoteDir : IsChild(p, d)}
UpTo(S, k) == {p \in S : p[Len(p)] <= k}

-----------------------------------------------------------------------------
Init ==
    /\ do_upload_ \in BOOLEAN
    /\ delete_missing_ \in BOOLEAN
    /\ delete_mode \in BOOLEAN /\ (delete_mode => do_upload_ /\ delete_missing_)
    /\ non_recursive_delete \in BOOLEAN /\ (non_recursive_delete => delete_mode)
    /\ local \in LocalTree
    /\ remote \in RemoteTree
    /\ pc = "root"
    /\ todo = {}
    /\ files = {}
    /\ dirs = {}
    /\ tasks = {}
    /\ failed = FALSE

\* The listing of directory d has been read to its end.
Listed(d) ==
    /\ files' = files \cup FilesIn(d)
    /\ dirs' = dirs \cup DirsIn(d)

\* The root is listed and a task scheduled for each of its directories.
ListRoot ==
    /\ pc = "root"
    /\ Listed(Root)
    /\ todo' = DirsIn(Root)
    /\ pc' = "list"
    /\ UNCHANGED <<options, local, remote, tasks, failed>>

\* The request fails on the main thread: the command is over.
ListRootDies ==
    /\ pc = "root" /\ "list" \in Faults
    /\ pc' = "done"
    /\ failed' = TRUE
    /\ UNCHANGED <<options, local, remote, todo, files, dirs, tasks>>

\* list_subdir_task
ListDir(d) ==
    /\ pc = "list" /\ d \in todo
    /\ Listed(d)
    /\ todo' = (todo \ {d}) \cup DirsIn(d)
    /\ UNCHANGED <<options, local, remote, pc, tasks, failed>>

\* The task fails, maybe after some pages of the listing: what these name stays
\* in the directory, its subdirectories are not listed.
ListDirDies(d) ==
    /\ pc = "list" /\ d \in todo /\ "list" \in Faults
    /\ \E k \in {0} \cup {p[Len(p)] : p \in FilesIn(d) \cup DirsIn(d)} :
         /\ files' = files \cup UpTo(FilesIn(d), k)
         /\ dirs' = dirs \cup UpTo(DirsIn(d), k)
    /\ todo' = todo \ {d}
    /\ failed' = TRUE
    /\ UNCHANGED <<options, local, remote, pc, tasks>>

-----------------------------------------------------------------------------
\* check_included, and what check_entry puts into the local tree.
Included(p) == p \notin Excluded /\ p \notin Spaced
Has(p, kinds) == p \notin Spaced /\ local[p] \in kinds
Seen(p) == Has(p, {"file", "link", "dir"})
IsDir(p) == Has(p, {"dir"})
\* Local files_, the unsyncable ones included.
IsFile(p) == Has(p, {"file", "link"})

\* process_upload is called for the directory of p: the directories above are
\* local ones, and none is shadowed by a remote file that has to stay.
FileBeside(p) == p \in files /\ Above(p) \cap files = {}
DirBeside(p) == p \in dirs /\ Above(p) \cap files = {}
Uploading(p) ==
    \A q \in Above(p) : IsDir(q) /\ (FileBeside(q) => delete_missing_)

Uploads ==
    {p \in Path : /\ Uploading(p) /\ Has(p, {"file"}) /\ Included(p)
                  /\ DirBeside(p) => delete_missing_}

\* delete_possibly_recursive
Inside(p) == {q \in files : p \in Above(q) /\ Included(q)}

\* Mutant of RemoteDeletions: directories that have gone locally stay.
RemoteDeletionsOfFiles ==
    {p \in files : Uploading(p) /\ FileBeside(p) /\ (IsDir(p) \/ ~Seen(p))}
        \cup (UNION {Inside(p) : p \in {q \in Uploads : DirBeside(q)}})

\* What an upload, or a local directory, replaces, and what is left in unseen and
\* unseen_dirs.
RemoteDeletions ==
    {p \in files : Uploading(p) /\ FileBeside(p) /\ (IsDir(p) \/ ~Seen(p))}
        \cup (UNION {Inside(p) : p \in {q \in Uploads : DirBeside(q)}})
        \cup (UNION {Inside(p) : p \in {q \in dirs : Uploading(q) /\ DirBeside(q) /\ ~Seen(q)}})

Task(op, S) == {[op |-> op, path |-> p] : p \in S}

\* delete_mode: everything that has been listed goes.
PlanDeletions ==
    /\ pc = "list" /\ todo = {} /\ delete_mode
    /\ non_recursive_delete => dirs = {}
    /\ tasks' = Task("delete", {p \in files : Included(p)})
    /\ pc' = "run"
    /\ UNCHANGED <<options, local, remote, todo, files, dirs, failed>>

\* "There are subdirectories present, but no --recursive flag is specified"
DeletionRefused ==
    /\ pc = "list" /\ todo = {} /\ delete_mode
    /\ non_recursive_delete /\ dirs # {}
    /\ pc' = "done"
    /\ failed' = TRUE
    /\ UNCHANGED <<options, local, remote, todo, files, dirs, tasks>>

\* process_upload
PlanUploads ==
    /\ pc = "list" /\ todo = {} /\ do_upload_ /\ ~delete_mode
    /\ tasks' = Task("upload", Uploads) \cup
                Task("delete", IF delete_missing_ THEN RemoteDeletions ELSE {})
    /\ pc' = "run"
    /\ UNCHANGED <<options, local, remote, todo, files, dirs, failed>>

\* process_downloads is called for the directory of p.
Downloading(p) ==
    \A q \in Above(p) : q \in dirs /\ (IsFile(q) => delete_missing_)

\* Mutant of Downloads: a local directory of that name is not looked for.
DownloadsShadowed == {p \in files : Downloading(p) /\ Included(p)}

Downloads ==
    {p \in files : Downloading(p) /\ Included(p) /\ (IsDir(p) => delete_missing_)}

\* Directories to be created, in place of the local files of that name.
Directories ==
    {p \in dirs : Downloading(p) /\ ~IsDir(p) /\ (IsFile(p) => delete_missing_)}

\* Mutant of LocalDeletions: files that are downloaded are not taken out of unseen.
LocalDeletionsAlsoFiles == {p \in Path : Downloading(p) /\ Seen(p) /\ p \notin dirs}

\* What is left in unseen.
LocalDeletions ==
    {p \in Path : Downloading(p) /\ Seen(p) /\ p \notin dirs /\ p \notin files}

\* The local tree with the directories of D made: mkdir takes what exists for a
\* directory, even a file that is not seen for the space in its name ...
Made(D) == [p \in Path |-> IF p \in D /\ (IsFile(p) \/ local[p] = "none")
                          THEN "dir" ELSE local[p]]

\* ... and fails below such a file.
Obstructed(p) == \E q \in Above(p) \cap Spaced : local[q] \in {"file", "link"}

\* process_downloads: directories are made at once, the rest is scheduled.  A
\* file_downloader is told to remove a directory that has the name of its file.
PlanDownloads ==
    /\ pc = "list" /\ todo = {} /\ ~do_upload_
    /\ files \cup dirs # {}
    /\ \A p \in Directories : ~Obstructed(p)
    /\ local' = Made(Directories)
    /\ tasks' = Task("replace", {p \in Downloads : IsDir(p)}) \cup
                Task("download", {p \in Downloads : ~IsDir(p)}) \cup
                Task("remove", IF delete_missing_ THEN LocalDeletions ELSE {})
    /\ pc' = "run"
    /\ UNCHANGED <<options, remote, todo, files, dirs, failed>>

\* mkdir fails on the main thread: the command is over.  Which directories it has made
\* before depends on their names.
MkdirDies ==
    /\ pc = "list" /\ todo = {} /\ ~do_upload_
    /\ \E p \in Directories : Obstructed(p)
    /\ \E D \in SUBSET {p \in Directories : ~Obstructed(p)} :
         /\ \A p \in D : Above(p) \cap Directories \subseteq D
         /\ local' = Made(D)
    /\ pc' = "done"
    /\ failed' = TRUE
    /\ UNCHANGED <<options, remote, todo, files, dirs, tasks>>

\* Nothing is there to be downloaded: "<SOURCE> not found", and no task is run.
SourceNotFound ==
    /\ pc = "list" /\ todo = {} /\ ~do_upload_
    /\ files \cup dirs = {}
    /\ pc' = "done"
    /\ failed' = TRUE
    /\ UNCHANGED <<options, local, remote, todo, files, dirs, tasks>>

-----------------------------------------------------------------------------
Run(t) == pc = "run" /\ t \in tasks

\* file_uploader
Upload(t) ==
    /\ Run(t) /\ t.op = "upload"
    /\ remote' = remote \cup {t.path}
    /\ tasks' = tasks \ {t}
    /\ UNCHANGED <<options, local, pc, todo, files, dirs, failed>>

\* remote_file_deleter
Delete(t) ==
    /\ Run(t) /\ t.op = "delete"
    /\ remote' = remote \ {t.path}
    /\ tasks' = tasks \ {t}
    /\ UNCHANGED <<options, local, pc, todo, files, dirs, failed>>

\* Mutant of RemoveAll: what is below the path stays.
RemoveOne(p) == local' = [local EXCEPT ![p] = "none"]

\* bf::remove_all
RemoveAll(p) == local' = [q \in Path |-> IF p \in Prefixes(q) THEN "none" ELSE local[q]]

\* local_file_deleter
Remove(t) ==
    /\ Run(t) /\ t.op = "remove"
    /\ RemoveAll(t.path)
    /\ tasks' = tasks \ {t}
    /\ UNCHANGED <<options, remote, pc, todo, files, dirs, failed>>

\* file_downloader with delete_dir_: the directory goes before anything else.
Replace(t) ==
    /\ Run(t) /\ t.op = "replace"
    /\ RemoveAll(t.path)
    /\ tasks' = (tasks \ {t}) \cup Task("download", {t.path})
    /\ UNCHANGED <<options, remote, pc, todo, files, dirs, failed>>

\* A temporary file can be created next to p and renamed to p.
Writable(p) == local[p] # "dir" /\ \A q \in Above(p) : local[q] = "dir"

\* file_downloader, to the rename
Download(t) ==
    /\ Run(t) /\ t.op = "download"
    /\ Writable(t.path)
    /\ local' = [local EXCEPT ![t.path] = "file"]
    /\ tasks' = tasks \ {t}
    /\ UNCHANGED <<options, remote, pc, todo, files, dirs, failed>>

\* A task fails for good.
TaskDies(t) ==
    /\ Run(t)
    /\ \/ "task" \in Faults
       \/ t.op = "download" /\ ~Writable(t.path)
    /\ tasks' = tasks \ {t}
    /\ failed' = TRUE
    /\ UNCHANGED <<options, local, remote, pc, todo, files, dirs>>

\* run() has returned.
Return ==
    /\ pc = "run" /\ tasks = {}
    /\ pc' = "done"
    /\ UNCHANGED <<options, local, remote, todo, files, dirs, tasks, failed>>

Finished == pc = "done" /\ UNCHANGED vars

Next ==
    \/ ListRoot \/ ListRootDies
    \/ \E d \in todo : ListDir(d) \/ ListDirDies(d)
    \/ PlanDeletions \/ DeletionRefused
    \/ PlanUploads \/ PlanDownloads \/ MkdirDies \/ SourceNotFound
    \/ \E t \in tasks :
         Upload(t) \/ Delete(t) \/ Remove(t) \/ Replace(t) \/ Download(t) \/ TaskDies(t)
    \/ Return
    \/ Finished

Spec == Init /\ [][Next]_vars

-----------------------------------------------------------------------------
\* Type invariant.
TypeOK ==
    /\ do_upload_ \in BOOLEAN /\ delete_missing_ \in BOOLEAN
    /\ delete_mode \in BOOLEAN /\ non_recursive_delete \in BOOLEAN
    /\ local \in [Path -> Kind]
    /\ \A p \in Path : local[p] # "none" => \A q \in Above(p) : local[q] = "dir"
    /\ remote \subseteq Path
    /\ pc \in {"root", "list", "run", "done"}
    /\ todo \subseteq dirs /\ dirs \subseteq Path /\ files \subseteq Path
    /\ tasks \subseteq [op : {"upload", "delete", "remove", "replace", "download"}, path : Path]
    /\ failed \in BOOLEAN

IsLocalFile(p) == local[p] = "file"
RemovedLocally(p) == local[p] = "file" /\ local'[p] # "file"
RemovedRemotely(p) == p \in remote /\ p \notin remote'

\* Without --delete-missing nothing is ever removed, whatever shadows what on
\* either side and whatever fails (sync.cpp:326, 358, 411, 439).
NothingLost ==
    [][~delete_missing_ =>
         \A p \in Path : ~RemovedLocally(p) /\ ~RemovedRemotely(p)]_vars

\* --delete-missing never removes a file with a counterpart on the source side, in
\* whatever order deletions and transfers run: from the bucket not even when
\* listings have failed, from the disk provided that the listing is complete.  What
\* has a space in its name is no counterpart of anything.
OnlyMissingRemoved ==
    [][\A p \in Path \ Spaced :
         /\ RemovedRemotely(p) => do_upload_ /\ (delete_mode \/ ~IsLocalFile(p))
         /\ RemovedLocally(p) => ~do_upload_ /\ (remote = files => p \notin remote)]_vars

\* The text of --delete-missing (commands.cpp:16): it is missing files that are
\* deleted from the destination.
DeletesOnlyMissing ==
    [][\A p \in Path : RemovedLocally(p) => p \notin remote]_vars

\* A transfer can be blocked only where the other side has a file for a directory
\* or a directory for a file, and may not remove it.
BlockedUpload(p) ==
    ~delete_missing_ /\ (Above(p) \cap remote # {} \/ p \in RemoteDir)
BlockedDownload(p) ==
    ~delete_missing_ /\ (local[p] = "dir" \/ \E q \in Above(p) : local[q] # "dir")

\* What --delete-missing leaves beside the source: what is below an unsyncable or
\* excluded file, or is such a file.
KeptRemotely(p) ==
    \E q \in Prefixes(p) : local[q] = "link" \/ (IsLocalFile(q) /\ q \in Excluded)
KeptLocally(p) == \E q \in Above(p) : q \in remote /\ q \in Excluded

\* When the command reports success, listings and transfers together have mirrored
\* the source: every included file is there, and with --delete-missing no other
\* included file is, except for what an unsyncable or excluded one hides.  "es3 rm"
\* that reports success has removed every included file.
Mirrored ==
    pc = "done" /\ ~failed => \A p \in Path : Included(p) =>
        IF delete_mode THEN p \notin remote
        ELSE IF do_upload_
        THEN /\ IsLocalFile(p) => p \in remote \/ BlockedUpload(p)
             /\ delete_missing_ /\ p \in remote => IsLocalFile(p) \/ KeptRemotely(p)
        ELSE /\ p \in remote => IsLocalFile(p) \/ BlockedDownload(p)
             /\ delete_missing_ /\ IsLocalFile(p) => p \in remote \/ KeptLocally(p)

\* The text of --exclude-path (commands.cpp:18-20) and the comment of
\* check_included (sync.cpp:170): such paths take no part in the synchronization,
\* unless a file takes the place of the directory that they are in.
ExcludedUntouched ==
    [][\A p \in Excluded \cup Spaced :
         /\ RemovedLocally(p) => Above(p) \cap remote # {}
         /\ ~RemovedRemotely(p)]_vars
=============================================================================
