--------------------------------- MODULE Library ---------------------------------
(***************************************************************************)
(* Rows and files of the library (downloader/library.py, embed.py, the end *)
(* of run.py, and run_task of scheduler.py).  A download files a video,    *)
(* embeds its metadata and links it to another file of the same content;   *)
(* the backlog task embeds metadata into videos that lack it; verify_files *)
(* compares the completed and missing rows with the disk.  They run at     *)
(* once, for hours.  The user removes and restores files, the share with   *)
(* the library isn't mounted or is mounted again, the process dies.        *)
(*                                                                         *)
(* A file is its picture and the item whose metadata is in it; a hash is   *)
(* the content it was made of.  Every item has file names of its own.      *)
(***************************************************************************)
EXTENDS Naturals, FiniteSets

CONSTANTS
  Items,
  MaxNames,    \* bound: variants of a file name
  MinFiles,    \* UNMOUNTED_MIN_FILES
  MaxTroubles, \* bound: removals, restored files, mounts, saved settings, restarts,
               \* and runs of the backlog task
  None

Paths == [item : Items, number : 1 .. MaxNames]
Content == [picture : Items \cup {"garbled"}, tags : Items \cup {None}]

ASSUME LibraryAssumption ==
  /\ {MaxNames, MinFiles} \subseteq Nat \ {0}
  /\ MaxTroubles \in Nat
  /\ None \notin Items \cup Paths \cup Content \cup [path : Paths, content : Content]

VARIABLES
  twins,     \* all items have the same picture
  mounted,
  share,     \* files of the share, a function on the paths there are
  local,     \* files in the folder that it is mounted on
  used,      \* of the two, those that folders have been made on
  away,      \* the file the user removed last, of which there is a copy; or None
  row,       \* status, file_path, sha256 and metadata_embedded of each item
  download,  \* the run of each item and its local variables
  backlog,   \* the backlog task
  verify,    \* up to two runs of verify_files
  info,      \* the run that the task table shows as running, or None
  troubles,
  clash      \* history: two ffmpegs wrote one file

world == <<twins, mounted, used, away>>
files == <<share, local>>
checks == <<verify, info>>
vars == <<world, files, row, download, backlog, checks, troubles, clash>>

Runs == {1, 2}
Picture(i) == IF twins THEN CHOOSE j \in Items : TRUE ELSE i

Disk == IF mounted THEN share ELSE local
Exists(p) == p \in DOMAIN Disk
Put(disk, p, content) == [q \in DOMAIN disk \cup {p} |-> IF q = p THEN content ELSE disk[q]]
Write(p, content) ==
  IF mounted THEN share' = Put(share, p, content) /\ UNCHANGED local
  ELSE local' = Put(local, p, content) /\ UNCHANGED share

NoDownload == [at |-> "idle", path |-> None, hash |-> None, embedded |-> FALSE, twin |-> None]
NoBacklog == [at |-> "idle", todo |-> {}, item |-> None, path |-> None, hash |-> None]
NoVerify == [at |-> "idle", gone |-> {}, back |-> {}, blind |-> FALSE]

TypeOK ==
  /\ {twins, mounted, clash} \subseteq BOOLEAN
  /\ \A disk \in {share, local} : DOMAIN disk \subseteq Paths /\ \A p \in DOMAIN disk : disk[p] \in Content
  /\ used \subseteq BOOLEAN
  /\ away \in [path : Paths, content : Content] \cup {None}
  /\ \A i \in Items :
       /\ row[i].status \in {"queued", "downloading", "completed", "missing"}
       /\ {row[i].path, download[i].path, download[i].twin} \subseteq Paths \cup {None}
       /\ {row[i].hash, download[i].hash} \subseteq Content \cup {None}
       /\ {row[i].embedded, download[i].embedded} \subseteq BOOLEAN
       /\ download[i].at \in {"idle", "fetching", "filed", "embedding", "done", "linking", "recording"}
       /\ row[i].status = "downloading" <=> download[i].at # "idle"
       /\ row[i].status \in {"completed", "missing"} => row[i].path # None
  /\ backlog.at \in {"idle", "next", "embedding", "saving"}
  /\ backlog.todo \subseteq [item : Items, path : Paths]
  /\ \A v \in Runs : verify[v].at \in {"idle", "applying"} /\ verify[v].gone \cup verify[v].back \subseteq Items
  /\ info \in Runs \cup {None}
  /\ troubles \in 0 .. MaxTroubles

Init ==
  /\ twins \in BOOLEAN
  /\ mounted = TRUE
  /\ share = <<>>
  /\ local = <<>>
  /\ used = {}
  /\ away = None
  /\ row = [i \in Items |-> [status |-> "queued", path |-> None, hash |-> None, embedded |-> FALSE]]
  /\ download = [i \in Items |-> NoDownload]
  /\ backlog = NoBacklog
  /\ verify = [v \in Runs |-> NoVerify]
  /\ info = None
  /\ troubles = 0
  /\ clash = FALSE

-----------------------------------------------------------------------------
(* The user, the share and the process. *)

Trouble == troubles < MaxTroubles /\ troubles' = troubles + 1

\* Some ffmpeg rewrites the file.
WritesTo(p) ==
  \/ backlog.at = "embedding" /\ backlog.path = p
  \/ \E i \in Items : download[i].at = "embedding" /\ download[i].path = p

\* The user leaves alone what is being rewritten.
Remove(p) ==
  /\ Trouble
  /\ mounted
  /\ Exists(p)
  /\ ~WritesTo(p)
  /\ away' = [path |-> p, content |-> share[p]]
  /\ share' = [q \in DOMAIN share \ {p} |-> share[q]]
  /\ UNCHANGED <<twins, mounted, used, local, row, download, backlog, checks, clash>>

Restore ==
  /\ Trouble
  /\ mounted
  /\ away # None
  /\ ~Exists(away.path)
  /\ Write(away.path, away.content)
  /\ UNCHANGED <<world, row, download, backlog, checks, clash>>

Embedding == backlog.at = "embedding" \/ \E i \in Items : download[i].at = "embedding"

\* A share isn't unmounted while a program has its files open.
Mount ==
  /\ Trouble
  /\ ~Embedding
  /\ mounted' = ~mounted
  /\ UNCHANGED <<twins, used, away, files, row, download, backlog, checks, clash>>

\* The user's retry
Retry(i) ==
  /\ row[i].status = "missing"
  /\ row' = [row EXCEPT ![i].status = "queued"]
  /\ UNCHANGED <<world, files, download, backlog, checks, troubles, clash>>

\* The process dies and starts again: recover_interrupted
Restart ==
  /\ Trouble
  /\ row' = [i \in Items |-> IF row[i].status = "downloading" THEN [row[i] EXCEPT !.status = "queued"] ELSE row[i]]
  /\ download' = [i \in Items |-> NoDownload]
  /\ backlog' = NoBacklog
  /\ verify' = [v \in Runs |-> NoVerify]
  /\ info' = None
  /\ UNCHANGED <<world, files, clash>>

-----------------------------------------------------------------------------
(* Embedder.embed: ffmpeg writes a file beside the video, named after it, and *)
(* then puts it in its place.                                                 *)

\* What is then in its place; anything, if two wrote it.
Rewritten(i, p) ==
  IF clash THEN {[picture |-> "garbled", tags |-> None], [Disk[p] EXCEPT !.tags = i]}
  ELSE {[Disk[p] EXCEPT !.tags = i]}

-----------------------------------------------------------------------------
(* A download: DownloadRun._run from the commit of the folder on. *)

Becomes(i, run) == download' = [download EXCEPT ![i] = run]

Begin(i) ==
  /\ row[i].status = "queued"
  /\ row' = [row EXCEPT ![i].status = "downloading"]
  /\ Becomes(i, [NoDownload EXCEPT !.at = "fetching"])
  /\ used' = used \cup {mounted}
  /\ UNCHANGED <<twins, mounted, away, files, backlog, checks, troubles, clash>>

\* The first free variant of the name
FreePath(i) ==
  [item |-> i, number |-> CHOOSE n \in 1 .. MaxNames :
     /\ ~Exists([item |-> i, number |-> n])
     /\ \A k \in 1 .. n - 1 : Exists([item |-> i, number |-> k])]

File(i) ==
  /\ download[i].at = "fetching"
  /\ \E n \in 1 .. MaxNames : ~Exists([item |-> i, number |-> n])
  /\ LET content == [picture |-> Picture(i), tags |-> None]
     IN  /\ Write(FreePath(i), content)
         /\ Becomes(i, [NoDownload EXCEPT !.at = "filed", !.path = FreePath(i), !.hash = content])
  /\ used' = used \cup {mounted}
  /\ UNCHANGED <<twins, mounted, away, row, backlog, checks, troubles, clash>>

\* Its size can't be read: the file is gone.  The run crashes and is tried again.
FileGone(i) ==
  /\ download[i].at = "filed"
  /\ ~Exists(download[i].path)
  /\ Becomes(i, NoDownload)
  /\ row' = [row EXCEPT ![i].status = "queued"]
  /\ UNCHANGED <<world, files, backlog, checks, troubles, clash>>

StartEmbedding(i) ==
  /\ download[i].at = "filed"
  /\ Exists(download[i].path)
  /\ clash' = (clash \/ WritesTo(download[i].path))
  /\ Becomes(i, [download[i] EXCEPT !.at = "embedding"])
  /\ UNCHANGED <<world, files, row, backlog, checks, troubles>>

Embedded(i) ==
  /\ download[i].at = "embedding"
  /\ Exists(download[i].path)
  /\ \E content \in Rewritten(i, download[i].path) :
       /\ Write(download[i].path, content)
       /\ Becomes(i, [download[i] EXCEPT !.at = "done", !.hash = content, !.embedded = TRUE])
  /\ UNCHANGED <<world, row, backlog, checks, troubles, clash>>

\* Switched off, no ffmpeg, or it failed: the file stays as it is.
NotEmbedded(i) ==
  /\ download[i].at \in {"filed", "embedding"}
  /\ download[i].at = "filed" => Exists(download[i].path)
  /\ Becomes(i, [download[i] EXCEPT !.at = "done"])
  /\ UNCHANGED <<world, files, row, backlog, checks, troubles, clash>>

\* Mutant of TwinsOf: any other archived file.
TwinsOfAny(i) == {j \in Items \ {i} : row[j].status = "completed"}

TwinsOf(i) == {j \in Items \ {i} : row[j].status = "completed" /\ row[j].hash = download[i].hash}

\* _dedupe looks for a twin in one session ...
LookForTwin(i) ==
  /\ download[i].at = "done"
  /\ IF TwinsOf(i) = {} THEN Becomes(i, [download[i] EXCEPT !.at = "recording"])
     ELSE \E j \in TwinsOf(i) : Becomes(i, [download[i] EXCEPT !.at = "linking", !.twin = row[j].path])
  /\ UNCHANGED <<world, files, row, backlog, checks, troubles, clash>>

\* ... and links to its file, if there is one by then.
Link(i) ==
  /\ download[i].at = "linking"
  /\ IF Exists(download[i].path) /\ Exists(download[i].twin)
     THEN Write(download[i].path, Disk[download[i].twin]) ELSE UNCHANGED files
  /\ Becomes(i, [download[i] EXCEPT !.at = "recording", !.twin = None])
  /\ UNCHANGED <<world, row, backlog, checks, troubles, clash>>

Record(i) ==
  /\ download[i].at = "recording"
  /\ row' = [row EXCEPT ![i] = [status |-> "completed", path |-> download[i].path,
                                hash |-> download[i].hash, embedded |-> download[i].embedded]]
  /\ Becomes(i, NoDownload)
  /\ UNCHANGED <<world, files, backlog, checks, troubles, clash>>

-----------------------------------------------------------------------------
(* embed_backlog *)

StartBacklog ==
  /\ Trouble
  /\ backlog.at = "idle"
  /\ backlog' = [NoBacklog EXCEPT !.at = "next", !.todo =
       {[item |-> i, path |-> row[i].path] : i \in {j \in Items : row[j].status = "completed" /\ ~row[j].embedded}}]
  /\ UNCHANGED <<world, files, row, download, checks, clash>>

\* The next video that was a candidate at the start, whatever its row says now
NextInBacklog(candidate) ==
  /\ backlog.at = "next"
  /\ candidate \in backlog.todo
  /\ LET rest == [backlog EXCEPT !.todo = @ \ {candidate}]
     IN  IF Exists(candidate.path)
         THEN /\ backlog' = [rest EXCEPT !.at = "embedding", !.item = candidate.item, !.path = candidate.path]
              /\ clash' = (clash \/ WritesTo(candidate.path))
         ELSE backlog' = rest /\ UNCHANGED clash
  /\ UNCHANGED <<world, files, row, download, checks, troubles>>

BacklogEmbedded ==
  /\ backlog.at = "embedding"
  /\ Exists(backlog.path)
  /\ \E content \in Rewritten(backlog.item, backlog.path) :
       /\ Write(backlog.path, content)
       /\ backlog' = [backlog EXCEPT !.at = "saving", !.hash = content]
  /\ UNCHANGED <<world, row, download, checks, troubles, clash>>

BacklogNotEmbedded ==
  /\ backlog.at = "embedding"
  /\ backlog' = [backlog EXCEPT !.at = "next", !.item = None, !.path = None]
  /\ UNCHANGED <<world, files, row, download, checks, troubles, clash>>

\* The new hash is written to the row as it is by then.
BacklogSaved ==
  /\ backlog.at = "saving"
  /\ row' = [row EXCEPT ![backlog.item].hash = backlog.hash, ![backlog.item].embedded = TRUE]
  /\ backlog' = [backlog EXCEPT !.at = "next", !.item = None, !.path = None, !.hash = None]
  /\ UNCHANGED <<world, files, download, checks, troubles, clash>>

EndBacklog ==
  /\ backlog.at = "next"
  /\ backlog.todo = {}
  /\ backlog' = NoBacklog
  /\ UNCHANGED <<world, files, row, download, checks, troubles, clash>>

-----------------------------------------------------------------------------
(* verify_files, as run_task runs it *)

\* Saved settings register the task anew: the table no longer shows its run.
Register ==
  /\ Trouble
  /\ info # None
  /\ info' = None
  /\ UNCHANGED <<world, files, row, download, backlog, verify, clash>>

Archived == {i \in Items : row[i].status \in {"completed", "missing"}}
Present == {i \in Archived : Exists(row[i].path)}

\* Mutant of RootUnavailable: every folder is taken for the library.
RootUnavailableNever == FALSE

\* root_unavailable: an empty folder, or none of many files
RootUnavailable ==
  mounted \notin used \/ (Cardinality(Archived) >= MinFiles /\ Present = {})

\* The rows are read, and the files looked for; nothing tells these apart, but a
\* file that comes or goes between.
Look(v) ==
  /\ verify[v].at = "idle"
  /\ info = None
  /\ info' = v
  /\ verify' = [verify EXCEPT ![v] =
       IF RootUnavailable THEN [NoVerify EXCEPT !.at = "applying"]
       ELSE [at |-> "applying",
             gone |-> {i \in Archived : row[i].status = "completed"} \ Present,
             back |-> {i \in Present : row[i].status = "missing"},
             blind |-> ~mounted]]
  /\ UNCHANGED <<world, files, row, download, backlog, troubles, clash>>

\* file_missing, with the setting requeue_missing on or off, if the item is
\* still, or again, completed
MarkMissing(v, i) ==
  /\ i \in verify[v].gone
  /\ verify' = [verify EXCEPT ![v].gone = @ \ {i}]
  /\ IF row[i].status = "completed"
     THEN \E status \in {"missing", "queued"} : row' = [row EXCEPT ![i].status = status]
     ELSE UNCHANGED row
  /\ UNCHANGED <<world, files, download, backlog, info, troubles, clash>>

\* Mutant of MarkFound: what was missing stays so.
MarkFoundNever(v, i) ==
  /\ i \in verify[v].back
  /\ verify' = [verify EXCEPT ![v].back = @ \ {i}]
  /\ UNCHANGED <<world, files, row, download, backlog, info, troubles, clash>>

MarkFound(v, i) ==
  /\ i \in verify[v].back
  /\ verify' = [verify EXCEPT ![v].back = @ \ {i}]
  /\ row' = IF row[i].status = "missing" THEN [row EXCEPT ![i].status = "completed"] ELSE row
  /\ UNCHANGED <<world, files, download, backlog, info, troubles, clash>>

EndVerify(v) ==
  /\ verify[v].at = "applying"
  /\ verify[v].gone \cup verify[v].back = {}
  /\ verify' = [verify EXCEPT ![v] = NoVerify]
  /\ info' = IF info = v THEN None ELSE info
  /\ UNCHANGED <<world, files, row, download, backlog, troubles, clash>>

-----------------------------------------------------------------------------
DownloadStep(i) ==
  \/ Begin(i) \/ File(i) \/ FileGone(i) \/ StartEmbedding(i) \/ Embedded(i) \/ NotEmbedded(i)
  \/ LookForTwin(i) \/ Link(i) \/ Record(i)

BacklogStep ==
  \/ \E candidate \in backlog.todo : NextInBacklog(candidate)
  \/ BacklogEmbedded \/ BacklogNotEmbedded \/ BacklogSaved \/ EndBacklog

VerifyStep(v) == (\E i \in Items : MarkMissing(v, i) \/ MarkFound(v, i)) \/ EndVerify(v)

Next ==
  \/ \E p \in Paths : Remove(p)
  \/ Restore
  \/ Mount
  \/ \E i \in Items : Retry(i) \/ DownloadStep(i)
  \/ StartBacklog
  \/ BacklogStep
  \/ Register
  \/ \E v \in Runs : Look(v) \/ VerifyStep(v)
  \/ Restart

Spec == Init /\ [][Next]_vars

\* Downloads and tasks go on, and verify_files is run every so many hours.
FairSpec ==
  /\ Spec
  /\ \A i \in Items : WF_vars(DownloadStep(i))
  /\ WF_vars(BacklogStep)
  /\ WF_vars(Look(1) \/ Look(2))
  /\ \A v \in Runs : WF_vars(VerifyStep(v))
-----------------------------------------------------------------------------
\* The picture of an archived file is its item's, whatever was embedded, linked,
\* removed, restored and downloaded again; unless two ffmpegs wrote one file.
PictureIsKept ==
  ~clash => \A i \in Items :
              row[i].status = "completed" /\ Exists(row[i].path) => Disk[row[i].path].picture = Picture(i)

\* What is archived stays so, whenever the checks look, the share is unmounted and
\* mounted or the process dies; if the user removes nothing and nothing is
\* downloaded into the folder that the share is to be mounted on.
ArchiveStays ==
  away = None /\ FALSE \notin used
    => \A i \in Items : row[i].path # None => row[i].status = "completed"

\* When the share is mounted for good and nothing is removed, restored or
\* registered any more, rows and files come to agree: what is missing is found
\* or downloaded again, or it is missing indeed; unless the library still looks
\* unmounted, because there is no file of it.
RowsComeToMatch ==
  <>[]mounted /\ <>[][troubles' = troubles]_vars
    => <>[](RootUnavailable \/ \A i \in Items : row[i].status \in {"completed", "missing"}
                               => (row[i].status = "completed" <=> Exists(row[i].path)))

\* library.py:34 "Otherwise a share that failed to mount would mark the whole
\* archive missing": a check looks through an unmounted share and marks nothing.
UnmountedIsNotMissing == \A v \in Runs : verify[v].blind => verify[v].gone = {}
==================================================================================
