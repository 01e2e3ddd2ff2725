----------------------------- MODULE DownloadFiles -----------------------------
(***************************************************************************)
(* Bringing the files of one post to disk (downloader/run.py,              *)
(* handlers/direct.py, handlers/ytdlp.py, placement.py).  The media items  *)
(* of the post all have the same file name, as the templates allow, and    *)
(* are downloaded at once: names are reserved, a .part file is continued   *)
(* with a Range request, a video is remuxed from a .src file, a stream is  *)
(* filed from its scratch folder.  The servers change files, break off and *)
(* answer ranges as servers do, and may not say how long a file is or what *)
(* range they send; the user cancels and removes files; the process dies.  *)
(* Which items are downloaded when is MediaLifecycle's; no item is         *)
(* downloaded twice at once.                                               *)
(*                                                                         *)
(* A file is a sequence of chunks.  A chunk says of which item and version *)
(* it is, and its place in that version.                                   *)
(***************************************************************************)
EXTENDS Naturals, Sequences

CONSTANTS
  Media,
  Posts,       \* the kinds that the items of a post have
  Odd,         \* items whose server ignores or misplaces ranges
  NumVersions,
  Size(_),     \* chunks of a version
  MaxNames,    \* bound: variants of the file name
  MaxTroubles, \* bound: changes by the servers, answers that don't say the size,
               \* removals, cancels and restarts
  None

Versions == 1 .. NumVersions
Kinds == {"plain", "remuxed", "stream"}
Names == 1 .. MaxNames

ASSUME DownloadFilesAssumption ==
  /\ NumVersions \in Nat \ {0}
  /\ {MaxNames, MaxTroubles} \subseteq Nat
  /\ \A v \in Versions : Size(v) \in Nat \ {0}
  /\ Posts \subseteq [Media -> Kinds]
  /\ None \notin Media \cup Names

VARIABLES
  kind,     \* "plain", "remuxed" (a video to be put in another container than it has),
            \* or "stream" (downloaded by yt-dlp)
  remote,   \* the version the server has of each item
  disk,     \* the files of the post's folder: a function on the paths there are
  scratch,  \* items with a scratch folder
  item,     \* the status of each item; one that failed and will be tried again is
            \* queued, "ended" is every status that isn't tried again by itself
  path,     \* its file_path while it is completed
  held,     \* Reservations._held: the file name of each running download
  run,      \* where each download is, its local variables, its cancel flag, and up to
            \* which place of the version the server has sent; sized unless the answer
            \* that is read doesn't say how long the file is (total is None);
            \* history: whether it continued a .part file of something else, or was
            \* continued from another place (stale)
  troubles

outside == <<kind, remote, troubles>>
rows == <<item, path>>
files == <<disk, scratch>>
vars == <<outside, files, rows, held, run>>

(* Names.  Number n stands for the name or its variant "name (n)"; the       *)
(* suffixes are the container wanted, the native one (of a fallback), the    *)
(* .src file and the .part files of the first and the third.                 *)
Path(n, suffix) == [name |-> n, suffix |-> suffix]
Suffixes == {"final", "native", "src", "part", "srcpart"}
Exists(p) == p \in DOMAIN disk
Without(ps) == [p \in DOMAIN disk \ ps |-> disk[p]]
Written(p, content) == [q \in DOMAIN disk \cup {p} |-> IF q = p THEN content ELSE disk[q]]
\* The files ps become one.
Become(ps, to, content) ==
  [q \in (DOMAIN disk \ ps) \cup {to} |-> IF q = to THEN content ELSE disk[q]]
\* os.replace
Moved(from, to) == Become({from}, to, disk[from])

Chunk(m, v, i) == [of |-> m, version |-> v, place |-> i]
Whole(m, v) == [i \in 1 .. Size(v) |-> Chunk(m, v, i)]
Begins(content, m, v) ==
  Len(content) <= Size(v) /\ \A i \in DOMAIN content : content[i] = Chunk(m, v, i)

Places ==
  {"idle", "starting", "requested", "streaming", "fetched", "remuxing", "produced", "filed"}
NoRun == [at |-> "idle", version |-> None, place |-> 0, sized |-> TRUE, path |-> None,
          cancel |-> FALSE, stale |-> FALSE]

TypeOK ==
  /\ kind \in [Media -> Kinds]
  /\ remote \in [Media -> Versions]
  /\ \A p \in DOMAIN disk :
       /\ p \in [name : Names, suffix : Suffixes]
       /\ disk[p] \in Seq([of : Media, version : Versions, place : Nat])
  /\ scratch \subseteq Media
  /\ item \in [Media -> {"queued", "downloading", "completed", "ended"}]
  /\ held \in [Media -> Names \cup {None}]
  /\ \A m \in Media :
       /\ run[m].at \in Places
       /\ run[m].version \in Versions \cup {None}
       /\ run[m].place \in Nat
       /\ {run[m].sized, run[m].cancel, run[m].stale} \subseteq BOOLEAN
       /\ {run[m].path, path[m]} \subseteq [name : Names, suffix : {"final", "native"}] \cup {None}
  /\ troubles \in 0 .. MaxTroubles

Init ==
  /\ kind \in Posts
  /\ remote = [m \in Media |-> NumVersions]
  /\ disk = <<>>
  /\ scratch = {}
  /\ item = [m \in Media |-> "queued"]
  /\ path = [m \in Media |-> None]
  /\ held = [m \in Media |-> None]
  /\ run = [m \in Media |-> NoRun]
  /\ troubles = 0

At(m, place) == run[m].at = place
Goes(m, place) == run' = [run EXCEPT ![m].at = place]

\* The paths of a direct download: parts, what the parts become, and the file.
PartFile(m) == Path(held[m], IF kind[m] = "remuxed" THEN "srcpart" ELSE "part")
Fetched(m) == Path(held[m], IF kind[m] = "remuxed" THEN "src" ELSE "final")
Dest(m) == Path(held[m], "final")
Parts(m) == {PartFile(m), Path(held[m], "part")}
Content(m) == IF Exists(PartFile(m)) THEN disk[PartFile(m)] ELSE <<>>
Existing(m) == Len(Content(m))

\* The download is over: DownloadRun.run releases the name, and the outcome is
\* recorded.
Ends(m, status) ==
  /\ run' = [run EXCEPT ![m] = NoRun]
  /\ held' = [held EXCEPT ![m] = None]
  /\ item' = [item EXCEPT ![m] = status]
  /\ path' = [path EXCEPT ![m] = IF status = "completed" THEN run[m].path ELSE None]

-----------------------------------------------------------------------------
(* Servers, users and the lifecycle. *)

Trouble == troubles < MaxTroubles /\ troubles' = troubles + 1

Change(m) ==
  /\ Trouble
  /\ \E v \in Versions \ {remote[m]} : remote' = [remote EXCEPT ![m] = v]
  /\ UNCHANGED <<kind, files, rows, held, run>>

Remove(m) ==
  /\ Trouble
  /\ item[m] = "completed"
  /\ Exists(path[m])
  /\ disk' = Without({path[m]})
  /\ UNCHANGED <<kind, remote, scratch, rows, held, run>>

Cancel(m) ==
  /\ Trouble
  /\ ~At(m, "idle")
  /\ run' = [run EXCEPT ![m].cancel = TRUE]
  /\ UNCHANGED <<kind, remote, files, rows, held>>

\* The user's retry, and verify_files with requeue_missing
Again(m) ==
  /\ \/ item[m] = "ended"
     \/ item[m] = "completed" /\ ~Exists(path[m])
  /\ item' = [item EXCEPT ![m] = "queued"]
  /\ path' = [path EXCEPT ![m] = None]
  /\ UNCHANGED <<outside, files, held, run>>

-----------------------------------------------------------------------------
(* DownloadRun._run up to its handler. *)

Begin(m) ==
  /\ item[m] = "queued"
  /\ item' = [item EXCEPT ![m] = "downloading"]
  /\ Goes(m, "starting")
  /\ UNCHANGED <<outside, files, path, held>>

\* The links can't be renewed, the post can't be viewed, there is no URL, the
\* DRM check fails or finds DRM: no file has been touched.
GiveUp(m) ==
  /\ At(m, "starting")
  /\ \E status \in {"queued", "ended"} : Ends(m, status)
  /\ UNCHANGED <<outside, files>>

-----------------------------------------------------------------------------
(* DirectHandler *)

\* Mutant of Free: only the disk is looked at.
FreeOnDisk(n) == ~Exists(Path(n, "final"))

\* Mutant of Free: only the reservations are looked at.
FreeOfHolders(n) == \A m \in Media : held[m] # n

\* unique_path, with what other downloads hold
Free(n) == ~Exists(Path(n, "final")) /\ \A m \in Media : held[m] # n
FreeNames == {n \in Names : Free(n)}
UniqueName == CHOOSE n \in FreeNames : \A k \in FreeNames : n <= k

\* The name is reserved and the size of the .part file read; then the answer
\* is awaited.
Reserve(m) ==
  /\ kind[m] # "stream"
  /\ At(m, "starting")
  /\ FreeNames # {}
  /\ held' = [held EXCEPT ![m] = UniqueName]
  /\ Goes(m, "requested")
  /\ UNCHANGED <<outside, files, rows>>

FiledAs(m, p) == run' = [run EXCEPT ![m].at = "filed", ![m].path = p]

\* A file in the container wanted is in its place.
IsFetched(m, stale) ==
  run' = [run EXCEPT ![m].stale = stale, ![m].version = None, ![m].place = 0,
                     ![m].at = IF kind[m] = "remuxed" THEN "fetched" ELSE "filed",
                     ![m].path = IF kind[m] = "remuxed" THEN None ELSE Dest(m)]

\* The body is read, from this place on.
Streaming(m, place, stale, sized) ==
  /\ run' = [run EXCEPT ![m].at = "streaming", ![m].version = remote[m], ![m].place = place,
                        ![m].sized = sized, ![m].stale = stale]
  /\ IF sized THEN UNCHANGED troubles ELSE Trouble

\* 200: from the start, whatever there was.  (A .part file without a chunk in
\* it is as good as none, and counts as none.)
Whole200(m) ==
  /\ At(m, "requested")
  /\ Existing(m) = 0 \/ m \in Odd
  /\ disk' = Without({PartFile(m)})
  /\ \E sized \in BOOLEAN : Streaming(m, 0, FALSE, sized)
  /\ UNCHANGED <<kind, remote, scratch, rows, held>>

\* 206: the rest is appended to the .part file, of whatever that is.
Rest206(m) ==
  /\ At(m, "requested")
  /\ Existing(m) \in 1 .. Size(remote[m]) - 1
  /\ LET stale == ~Begins(disk[PartFile(m)], m, remote[m])
     IN  \E sized \in BOOLEAN : Streaming(m, Existing(m), stale, sized)
  /\ UNCHANGED <<kind, remote, files, rows, held>>

\* 206 that is from the start, and doesn't say of what range it is (there is no
\* Content-Range that can be read): appended too.
Misplaced206(m) ==
  /\ At(m, "requested")
  /\ m \in Odd /\ Existing(m) > 0
  /\ Streaming(m, 0, TRUE, FALSE)
  /\ UNCHANGED <<kind, remote, files, rows, held>>

\* 416 of the size there is, or of an unknown one: the .part file is taken as
\* complete.
Complete416(m) ==
  /\ At(m, "requested")
  /\ Existing(m) >= Size(remote[m])
  /\ disk' = Moved(PartFile(m), Fetched(m))
  /\ IsFetched(m, disk[PartFile(m)] # Whole(m, remote[m]))
  /\ UNCHANGED <<outside, scratch, rows, held>>

\* 416 of another size, or 206 that says it is from another offset: the next try
\* starts anew.
Mismatch(m) ==
  /\ At(m, "requested")
  /\ \/ Existing(m) > Size(remote[m])
     \/ m \in Odd /\ Existing(m) > 0
  /\ disk' = Without({PartFile(m)})
  /\ Ends(m, "queued")
  /\ UNCHANGED <<outside, scratch>>

\* No answer, or 401, 403, 429 and 5xx: the .part file stays.
TryLater(m) ==
  /\ At(m, "requested")
  /\ Ends(m, "queued")
  /\ UNCHANGED <<outside, files>>

\* 404 and 410
Gone(m) ==
  /\ At(m, "requested")
  /\ disk' = Without(Parts(m))
  /\ Ends(m, "ended")
  /\ UNCHANGED <<outside, scratch>>

Receive(m) ==
  /\ At(m, "streaming")
  /\ ~run[m].cancel
  /\ run[m].place < Size(run[m].version)
  /\ run' = [run EXCEPT ![m].place = @ + 1]
  /\ disk' = Written(PartFile(m), Append(Content(m), Chunk(m, run[m].version, run[m].place + 1)))
  /\ UNCHANGED <<outside, scratch, rows, held>>

\* reporter.update raises DownloadCancelled.
Stopped(m) ==
  /\ At(m, "streaming")
  /\ run[m].cancel
  /\ disk' = Without(Parts(m))
  /\ Ends(m, "ended")
  /\ UNCHANGED <<outside, scratch>>

\* Mutant of BreakOff: the .part file is removed as after a cancel.
BreakOffAnew(m) ==
  /\ At(m, "streaming")
  /\ run[m].sized => Existing(m) # Size(run[m].version)
  /\ disk' = Without(Parts(m))
  /\ Ends(m, "queued")
  /\ UNCHANGED <<outside, scratch>>

\* The connection breaks, or what there is isn't of the size that was said.  (The
\* body of an answer that says its size is over with the last chunk.)
BreakOff(m) ==
  /\ At(m, "streaming")
  /\ run[m].sized => Existing(m) # Size(run[m].version)
  /\ Ends(m, "queued")
  /\ UNCHANGED <<outside, files>>

\* Mutant of Received: the end of the body is taken for the end of the file.
ReceivedShort(m) ==
  /\ At(m, "streaming")
  /\ ~run[m].cancel
  /\ disk' = Become({PartFile(m)}, Fetched(m), Content(m))
  /\ IsFetched(m, run[m].stale)
  /\ UNCHANGED <<outside, scratch, rows, held>>

\* The body ends.  Without a size to compare, wherever it does.
Received(m) ==
  /\ At(m, "streaming")
  /\ ~run[m].cancel
  /\ run[m].sized => Existing(m) = Size(run[m].version)
  /\ disk' = Become({PartFile(m)}, Fetched(m), Content(m))
  /\ IsFetched(m, run[m].stale)
  /\ UNCHANGED <<outside, scratch, rows, held>>

\* _remux: ffmpeg writes the file in its place, where it is partial for a while ...
RemuxBegins(m) ==
  /\ At(m, "fetched")
  /\ disk' = Written(Dest(m), <<>>)
  /\ Goes(m, "remuxing")
  /\ UNCHANGED <<outside, scratch, rows, held>>

Remux(m) ==
  /\ At(m, "remuxing")
  /\ disk' = Moved(Fetched(m), Dest(m))
  /\ FiledAs(m, Dest(m))
  /\ UNCHANGED <<outside, scratch, rows, held>>

\* ... and removes it if it fails.  Then, and without ffmpeg, the source keeps its
\* container, under a name that was neither reserved nor looked for.
FallBack(m) ==
  /\ At(m, "fetched") \/ At(m, "remuxing")
  /\ disk' = Become({Fetched(m), Dest(m)}, Path(held[m], "native"), disk[Fetched(m)])
  /\ FiledAs(m, Path(held[m], "native"))
  /\ UNCHANGED <<outside, scratch, rows, held>>

-----------------------------------------------------------------------------
(* YtDlpHandler and filing from the scratch folder *)

\* run_ytdlp in its thread: it leaves a file in the scratch folder, or what it
\* had when it failed, or is cancelled by its hooks.
RunYtDlp(m) ==
  /\ kind[m] = "stream"
  /\ At(m, "starting")
  /\ \/ ~run[m].cancel /\ Goes(m, "produced") /\ scratch' = scratch \cup {m} /\ UNCHANGED <<held, rows>>
     \/ ~run[m].cancel /\ Ends(m, "queued") /\ scratch' = scratch \cup {m}
     \/ Ends(m, "ended") /\ scratch' = scratch \ {m}
  /\ UNCHANGED <<outside, disk>>

\* PostPlacement.file, in a thread: reserved and moved.
File(m) ==
  /\ At(m, "produced")
  /\ FreeNames # {}
  /\ LET n == UniqueName
     IN  /\ held' = [held EXCEPT ![m] = n]
         /\ disk' = Written(Path(n, "final"), Whole(m, remote[m]))
         /\ FiledAs(m, Path(n, "final"))
  /\ UNCHANGED <<outside, scratch, rows>>

-----------------------------------------------------------------------------
(* The end of _run. *)

\* Hash, embedding, sidecars and dates; the scratch folder goes.  A file that
\* is no longer there is an error.
Finish(m) ==
  /\ At(m, "filed")
  /\ IF Exists(run[m].path) THEN Ends(m, "completed") /\ scratch' = scratch \ {m}
     ELSE Ends(m, "queued") /\ UNCHANGED scratch
  /\ UNCHANGED <<outside, disk>>

\* The process dies or stops, and starts again: recover_interrupted and sweep.
Restart ==
  /\ Trouble
  /\ \E m \in Media : item[m] = "downloading"
  /\ item' = [m \in Media |-> IF item[m] = "downloading" THEN "queued" ELSE item[m]]
  /\ run' = [m \in Media |-> NoRun]
  /\ held' = [m \in Media |-> None]
  /\ scratch' = {}
  /\ UNCHANGED <<kind, remote, disk, path>>

-----------------------------------------------------------------------------
\* What a download does next, the server permitting.
GoesOn(m) ==
  \/ Begin(m) \/ Reserve(m) \/ Whole200(m) \/ Rest206(m) \/ Misplaced206(m) \/ Complete416(m)
  \/ Mismatch(m) \/ Stopped(m) \/ Received(m) \/ RemuxBegins(m) \/ Remux(m) \/ FallBack(m)
  \/ RunYtDlp(m) \/ File(m) \/ Finish(m)

Next ==
  \/ \E m \in Media :
       \/ Change(m) \/ Remove(m) \/ Cancel(m) \/ Again(m)
       \/ Begin(m) \/ GiveUp(m)
       \/ Reserve(m) \/ Whole200(m) \/ Rest206(m) \/ Misplaced206(m) \/ Complete416(m)
       \/ Mismatch(m) \/ TryLater(m) \/ Gone(m)
       \/ Receive(m) \/ Stopped(m) \/ BreakOff(m) \/ Received(m)
       \/ RemuxBegins(m) \/ Remux(m) \/ FallBack(m)
       \/ RunYtDlp(m) \/ File(m)
       \/ Finish(m)
  \/ Restart

Spec == Init /\ [][Next]_vars

\* A worker goes on; failed items are tried again; of the answers to a request
\* that is made again and again some are good, and some bring a chunk.
FairSpec ==
  /\ Spec
  /\ \A m \in Media :
       /\ WF_vars(GoesOn(m))
       /\ SF_vars(Reserve(m))
       /\ SF_vars(Whole200(m) \/ Rest206(m) \/ Complete416(m) \/ Mismatch(m))
       /\ SF_vars(Receive(m))
-----------------------------------------------------------------------------
\* Downloads at once have names of their own, and until a download has its file
\* no other file gets the name it will be put under.
OneWriter ==
  \A m, n \in Media : held[m] # None =>
    /\ m # n => held[n] # held[m]
    /\ run[m].at \in {"requested", "streaming", "fetched"} => ~Exists(Dest(m))

\* What a download files is one version of its item, complete and in order,
\* whatever broke off, was cancelled or died before.  If the answer didn't say how
\* long the file is, it may be the beginning of one version only.  Left out is a
\* file that continued a .part file of something else, or to which a range was
\* appended that began elsewhere and didn't say so.
FiledIsWhole ==
  \A m \in Media : At(m, "filed") /\ Exists(run[m].path) /\ ~run[m].stale =>
    \E v \in Versions :
      /\ Begins(disk[run[m].path], m, v)
      /\ run[m].sized => Len(disk[run[m].path]) = Size(v)

\* ffmpeg is writing a file there.
BeingRemuxed(p) == \E n \in Media : At(n, "remuxing") /\ p = Dest(n)

\* A completed file stays as it is until the user removes it or another
\* download's remux fails.  (The path of one that was removed may become another
\* download's.)
ArchiveIsKept ==
  [][\A m \in Media :
       item[m] = "completed" /\ Exists(path[m]) /\ ~BeingRemuxed(path[m]) =>
         \/ path[m] \in DOMAIN disk' /\ disk'[path[m]] = disk[path[m]]
         \/ Remove(m)
         \/ \E n \in Media : FallBack(n)]_vars

\* Nothing interferes any more.  A cancel, a failure for good, or a server that
\* doesn't answer ranges deletes or spoils the .part file of the download's name,
\* which may be another item's.
Undisturbed ==
  <>[][\A m \in Media :
         ~(\/ Cancel(m) \/ Remove(m) \/ GiveUp(m) \/ Gone(m) \/ Misplaced206(m)
           \/ m \in Odd /\ (Mismatch(m) \/ Whole200(m)))]_vars

\* However often connections break, an item whose server answers ranges is
\* completed or given up: each try continues the one before.
GetsThere ==
  Undisturbed => \A m \in Media \ Odd :
                   []<>(kind[m] = "stream" \/ item[m] \in {"completed", "ended"})

\* direct.py:156 "resuming a `.part` left by an earlier try": of this item.
OwnBytes ==
  \A m \in Media : At(m, "filed") /\ Exists(run[m].path) =>
    \A i \in DOMAIN disk[run[m].path] : disk[run[m].path][i].of = m
=============================================================================
