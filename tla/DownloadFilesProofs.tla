-------------------------- MODULE DownloadFilesProofs --------------------------
(***************************************************************************)
(* The files of a post, for all items, kinds of posts, versions, sizes,    *)
(* servers and bounds.                                                     *)
(*                                                                         *)
(* A download only touches the files of the name it holds, and no two hold *)
(* one name (Apart), so what is so of a download's files stays so while    *)
(* the others go on (LEMMA OthersLeaveIt).  Of its own: the file it is for *)
(* isn't there before it is put there, and unless it continued something   *)
(* else its .part file is the beginning of one version, up to where the    *)
(* server has sent it (Placed).                                            *)
(***************************************************************************)
EXTENDS DownloadFiles, WellFoundedInduction, TLAPS

Paths == [name : Names, suffix : Suffixes]
FinalPaths == [name : Names, suffix : {"final", "native"}]
Chunks == [of : Media, version : Versions, place : Nat]
Runs == [at : Places, version : Versions \cup {None}, place : Nat, sized : BOOLEAN,
         path : FinalPaths \cup {None}, cancel : BOOLEAN, stale : BOOLEAN]

FilesTyped == DOMAIN disk \subseteq Paths /\ \A p \in DOMAIN disk : disk[p] \in Seq(Chunks)

Typed ==
  /\ kind \in [Media -> Kinds]
  /\ remote \in [Media -> Versions]
  /\ FilesTyped
  /\ scratch \subseteq Media
  /\ item \in [Media -> {"queued", "downloading", "completed", "ended"}]
  /\ path \in [Media -> FinalPaths \cup {None}]
  /\ held \in [Media -> Names \cup {None}]
  /\ run \in [Media -> Runs]
  /\ troubles \in 0 .. MaxTroubles

\* A download has a name from the time it reserves one until it ends.
Owns(m) ==
  /\ item[m] = "downloading" <=> run[m].at # "idle"
  /\ held[m] # None <=> run[m].at \in {"requested", "streaming", "fetched", "remuxing", "filed"}
  /\ run[m].at \in {"requested", "streaming"} => kind[m] # "stream"
  /\ run[m].at = "streaming" => run[m].version \in Versions
  /\ run[m].at \in {"fetched", "remuxing"} => kind[m] = "remuxed"
  /\ run[m].at = "filed" => run[m].path \in {Dest(m), Path(held[m], "native")}
  /\ item[m] = "completed" => path[m] \in FinalPaths

Apart == \A m, n \in Media : m # n /\ held[m] # None => held[n] # held[m]

\* A version, or the beginning of one if the answer didn't say its size.
OfOneVersion(m, content) ==
  \E v \in Versions : Begins(content, m, v) /\ (run[m].sized => Len(content) = Size(v))

\* The files of a download.
Placed(m) ==
  /\ run[m].at \in {"requested", "streaming", "fetched"} => ~Exists(Dest(m))
  /\ run[m].at = "streaming" /\ ~run[m].stale =>
       Begins(Content(m), m, run[m].version) /\ run[m].place = Existing(m)
  /\ run[m].at \in {"fetched", "remuxing"} =>
       Exists(Fetched(m)) /\ (~run[m].stale => OfOneVersion(m, disk[Fetched(m)]))
  /\ run[m].at = "filed" /\ ~run[m].stale /\ Exists(run[m].path) => OfOneVersion(m, disk[run[m].path])

IInv ==
  /\ Typed
  /\ \A m \in Media : Owns(m)
  /\ Apart
  /\ \A m \in Media : Placed(m)

-----------------------------------------------------------------------------
(* The disk. *)

LEMMA PathsDiffer ==
  \A n, k, s, t : Path(n, s) = Path(k, t) <=> n = k /\ s = t
BY DEF Path

LEMMA PathsAreTyped ==
  ASSUME NEW n \in Names, NEW s \in Suffixes
  PROVE  Path(n, s) \in Paths /\ Path(n, s).name = n /\ (s \in {"final", "native"} => Path(n, s) \in FinalPaths)
BY DEF Path, Paths, FinalPaths

LEMMA OfWithout ==
  ASSUME NEW S, FilesTyped, disk' = Without(S)
  PROVE  /\ FilesTyped'
         /\ DOMAIN disk' = DOMAIN disk \ S
         /\ \A p \in DOMAIN disk' : disk'[p] = disk[p]
<1>1. DOMAIN disk' = DOMAIN disk \ S
  BY DEF Without
<1>2. \A p \in DOMAIN disk' : disk'[p] = disk[p]
  BY <1>1 DEF Without
<1> QED
  BY <1>1, <1>2 DEF FilesTyped

LEMMA OfWritten ==
  ASSUME FilesTyped, NEW p \in Paths, NEW content \in Seq(Chunks), disk' = Written(p, content)
  PROVE  /\ FilesTyped'
         /\ DOMAIN disk' = DOMAIN disk \cup {p}
         /\ disk'[p] = content
         /\ \A q \in DOMAIN disk' : q # p => disk'[q] = disk[q]
<1>1. DOMAIN disk' = DOMAIN disk \cup {p}
  BY DEF Written
<1>2. disk'[p] = content
  BY <1>1 DEF Written
<1>3. \A q \in DOMAIN disk' : q # p => disk'[q] = disk[q]
  BY <1>1 DEF Written
<1> QED
  BY <1>1, <1>2, <1>3 DEF FilesTyped

LEMMA OfBecome ==
  ASSUME FilesTyped, NEW S \in SUBSET Paths, NEW to \in Paths, NEW content \in Seq(Chunks),
         disk' = Become(S, to, content)
  PROVE  /\ FilesTyped'
         /\ DOMAIN disk' = (DOMAIN disk \ S) \cup {to}
         /\ disk'[to] = content
         /\ \A q \in DOMAIN disk' : q # to => disk'[q] = disk[q]
<1>1. DOMAIN disk' = (DOMAIN disk \ S) \cup {to}
  BY DEF Become
<1>2. disk'[to] = content
  BY <1>1 DEF Become
<1>3. \A q \in DOMAIN disk' : q # to => disk'[q] = disk[q]
  BY <1>1 DEF Become
<1> QED
  BY <1>1, <1>2, <1>3 DEF FilesTyped

LEMMA ContentIsTyped ==
  ASSUME FilesTyped, NEW m \in Media
  PROVE  Content(m) \in Seq(Chunks) /\ Existing(m) \in Nat
BY DEF FilesTyped, Content, Existing, Exists

LEMMA SizesArePositive ==
  ASSUME NEW v \in Versions
  PROVE  Size(v) \in Nat /\ Size(v) >= 1
BY DownloadFilesAssumption DEF DownloadFilesAssumption

LEMMA WholeIsTyped ==
  ASSUME NEW m \in Media, NEW v \in Versions
  PROVE  Whole(m, v) \in Seq(Chunks)
<1>1. Size(v) \in Nat
  BY SizesArePositive
<1>2. \A i \in 1 .. Size(v) : Chunk(m, v, i) \in Chunks
  BY <1>1 DEF Chunk, Chunks
<1> QED
  BY <1>1, <1>2 DEF Whole

LEMMA WholeIsBegun ==
  ASSUME NEW m \in Media, NEW v \in Versions
  PROVE  Begins(Whole(m, v), m, v) /\ Len(Whole(m, v)) = Size(v)
<1>1. Size(v) \in Nat
  BY SizesArePositive
<1>2. Whole(m, v) \in Seq(Chunks) /\ DOMAIN Whole(m, v) = 1 .. Size(v)
  BY WholeIsTyped DEF Whole
<1>3. Len(Whole(m, v)) = Size(v)
  BY <1>1, <1>2
<1> QED
  BY <1>1, <1>3 DEF Begins, Whole

\* The next chunk goes on what was begun.
LEMMA GoesOnBegun ==
  ASSUME NEW m \in Media, NEW v \in Versions, NEW content \in Seq(Chunks),
         Begins(content, m, v), Len(content) < Size(v)
  PROVE  Begins(Append(content, Chunk(m, v, Len(content) + 1)), m, v)
<1> DEFINE c == Chunk(m, v, Len(content) + 1)
           longer == Append(content, c)
<1>1. Size(v) \in Nat /\ Len(content) \in Nat
  BY SizesArePositive
<1>2. c \in Chunks
  BY <1>1 DEF Chunk, Chunks
<1>3. Len(longer) = Len(content) + 1 /\ DOMAIN longer = 1 .. Len(content) + 1
  BY <1>2
<1>4. \A i \in 1 .. Len(content) : longer[i] = content[i]
  BY <1>2
<1>5. longer[Len(content) + 1] = c
  BY <1>2
<1>6. \A i \in 1 .. Len(content) : content[i] = Chunk(m, v, i)
  BY DEF Begins
<1>7. \A i \in DOMAIN longer : longer[i] = Chunk(m, v, i)
  <2> SUFFICES ASSUME NEW i \in 1 .. Len(content) + 1 PROVE longer[i] = Chunk(m, v, i)
    BY <1>3
  <2>1. CASE i = Len(content) + 1
    BY <2>1, <1>5
  <2>2. CASE i # Len(content) + 1
    <3>1. i \in 1 .. Len(content)
      BY <2>2, <1>1
    <3> QED
      BY <3>1, <1>4, <1>6
  <2> QED
    BY <2>1, <2>2
<1>8. Len(longer) <= Size(v)
  BY <1>1, <1>3
<1> QED
  BY <1>7, <1>8 DEF Begins

LEMMA NothingIsBegun ==
  ASSUME NEW m \in Media, NEW v \in Versions
  PROVE  Begins(<<>>, m, v)
BY SizesArePositive DEF Begins

\* What unique_path returns is free.
LEMMA UniqueNameIsFree ==
  ASSUME FreeNames # {}
  PROVE  UniqueName \in Names /\ Free(UniqueName)
<1>1. FreeNames \subseteq Nat
  BY DownloadFilesAssumption DEF FreeNames, Names
<1>2. \E x \in FreeNames : \A y \in FreeNames : ~(<<y, x>> \in OpToRel(<, Nat))
  BY <1>1, NatLessThanWellFounded, WFMin
<1>3. PICK x \in FreeNames : \A y \in FreeNames : ~(<<y, x>> \in OpToRel(<, Nat))
  BY <1>2
<1>4. \A y \in FreeNames : x <= y
  <2> SUFFICES ASSUME NEW y \in FreeNames, y < x PROVE FALSE
    BY <1>1
  <2>1. <<y, x>> \in Nat \X Nat
    BY <1>1
  <2>2. <<y, x>> \in OpToRel(<, Nat)
    BY <2>1 DEF OpToRel
  <2> QED
    BY <1>3, <2>2
<1>5. UniqueName \in FreeNames
  BY <1>4 DEF UniqueName
<1> QED
  BY <1>5 DEF FreeNames

-----------------------------------------------------------------------------
(* What the steps of a download do to it and to the others. *)

\* The other downloads are where they were.
OthersStay(m) ==
  /\ kind' = kind
  /\ \A n \in Media \ {m} :
       run'[n] = run[n] /\ held'[n] = held[n] /\ item'[n] = item[n] /\ path'[n] = path[n]

\* Only files of the download's name are touched.
OwnFiles(m) ==
  \A p \in Paths : p.name \notin {held[m], held'[m]} =>
    (p \in DOMAIN disk' <=> p \in DOMAIN disk) /\ (p \in DOMAIN disk => disk'[p] = disk[p])

LEMMA OthersLeaveIt ==
  ASSUME IInv, NEW m \in Media, OthersStay(m), OwnFiles(m), Apart', NEW n \in Media, n # m
  PROVE  Owns(n)' /\ Placed(n)'
<1>1. run'[n] = run[n] /\ held'[n] = held[n] /\ item'[n] = item[n] /\ path'[n] = path[n] /\ kind'[n] = kind[n]
  BY DEF OthersStay
<1>2. Owns(n)'
  BY <1>1 DEF IInv, Owns, Dest
<1>3. CASE held[n] = None
  BY <1>1, <1>3 DEF IInv, Owns, Placed
<1>4. CASE held[n] # None
  <2>1. held[n] \in Names /\ held[m] # held[n] /\ held'[m] # held[n]
    BY <1>1, <1>4 DEF IInv, Apart, Typed
  <2>2. \A s \in Suffixes : LET p == Path(held[n], s) IN
          (p \in DOMAIN disk' <=> p \in DOMAIN disk) /\ (p \in DOMAIN disk => disk'[p] = disk[p])
    BY <2>1, PathsAreTyped DEF OwnFiles
  <2>3. PartFile(n)' = PartFile(n) /\ Fetched(n)' = Fetched(n) /\ Dest(n)' = Dest(n)
    BY <1>1 DEF PartFile, Fetched, Dest
  <2>4. \A p \in {PartFile(n), Fetched(n), Dest(n), Path(held[n], "native")} :
          (p \in DOMAIN disk' <=> p \in DOMAIN disk) /\ (p \in DOMAIN disk => disk'[p] = disk[p])
    BY <2>2 DEF PartFile, Fetched, Dest, Suffixes
  <2>5. run[n].at = "filed" => run[n].path \in {Dest(n), Path(held[n], "native")}
    BY DEF IInv, Owns
  <2>6. Placed(n)
    BY DEF IInv
  <2>7. Placed(n)'
    BY <1>1, <2>3, <2>4, <2>5, <2>6 DEF Placed, Exists, Begins, OfOneVersion, Content, Existing
  <2> QED
    BY <1>2, <2>7
<1> QED
  BY <1>2, <1>3, <1>4

\* So a step of a download keeps the invariant if it does so for its own.
LEMMA OwnSuffices ==
  ASSUME IInv, NEW m \in Media, OthersStay(m), OwnFiles(m), Typed', Apart', Owns(m)', Placed(m)'
  PROVE  IInv'
BY OthersLeaveIt DEF IInv

LEMMA NoNameNoClash ==
  ASSUME IInv, NEW m \in Media, OthersStay(m), held \in [Media -> Names \cup {None}],
         held' \in [Media -> Names \cup {None}],
         held'[m] \in {held[m], None} \/ Free(held'[m])
  PROVE  Apart'
BY DownloadFilesAssumption DEF DownloadFilesAssumption, IInv, Apart, OthersStay, Free

LEMMA TroubleTyped ==
  ASSUME Typed, Trouble
  PROVE  troubles' \in 0 .. MaxTroubles
<1>1. troubles \in 0 .. MaxTroubles /\ MaxTroubles \in Nat
  BY DownloadFilesAssumption DEF DownloadFilesAssumption, Typed
<1> QED
  BY <1>1 DEF Trouble

LEMMA OfGoes ==
  ASSUME Typed, NEW m \in Media, NEW place \in Places, Goes(m, place)
  PROVE  /\ run' \in [Media -> Runs]
         /\ \A n \in Media \ {m} : run'[n] = run[n]
         /\ run'[m].at = place /\ run'[m].version = run[m].version /\ run'[m].path = run[m].path
         /\ run'[m].stale = run[m].stale /\ run'[m].sized = run[m].sized
<1> DEFINE r == [run[m] EXCEPT !.at = place]
<1>1. run[m] \in Runs /\ run' = [run EXCEPT ![m] = r]
  BY DEF Typed, Goes
<1>2. /\ r \in Runs /\ r.at = place /\ r.version = run[m].version /\ r.path = run[m].path
      /\ r.stale = run[m].stale /\ r.sized = run[m].sized
  BY <1>1 DEF Runs, Places
<1> HIDE DEF r
<1> QED
  BY <1>1, <1>2 DEF Typed

LEMMA OfFiledAs ==
  ASSUME Typed, NEW m \in Media, NEW p \in FinalPaths, FiledAs(m, p)
  PROVE  /\ run' \in [Media -> Runs]
         /\ \A n \in Media \ {m} : run'[n] = run[n]
         /\ run'[m].at = "filed" /\ run'[m].path = p /\ run'[m].stale = run[m].stale
         /\ run'[m].sized = run[m].sized
<1> DEFINE r == [[run[m] EXCEPT !.at = "filed"] EXCEPT !.path = p]
<1>1. run[m] \in Runs /\ run' = [run EXCEPT ![m] = r]
  BY DEF Typed, FiledAs
<1>2. /\ r \in Runs /\ r.at = "filed" /\ r.path = p
      /\ r.stale = run[m].stale /\ r.sized = run[m].sized
  BY <1>1 DEF Runs, Places
<1> HIDE DEF r
<1> QED
  BY <1>1, <1>2 DEF Typed

LEMMA OfStreaming ==
  ASSUME Typed, NEW m \in Media, NEW place \in Nat, NEW stale \in BOOLEAN, NEW sized \in BOOLEAN,
         Streaming(m, place, stale, sized)
  PROVE  /\ run' \in [Media -> Runs]
         /\ \A n \in Media \ {m} : run'[n] = run[n]
         /\ run'[m].at = "streaming" /\ run'[m].version = remote[m] /\ run'[m].place = place
         /\ run'[m].stale = stale
         /\ troubles' \in 0 .. MaxTroubles
<1> DEFINE r1 == [[run[m] EXCEPT !.at = "streaming"] EXCEPT !.version = remote[m]]
           r == [[[r1 EXCEPT !.place = place] EXCEPT !.sized = sized] EXCEPT !.stale = stale]
<1>1. run[m] \in Runs /\ remote[m] \in Versions
  BY DEF Typed
<1>2. run' = [run EXCEPT ![m] = r]
  BY DEF Typed, Streaming
<1>3. r1 \in Runs /\ r1.at = "streaming" /\ r1.version = remote[m]
  BY <1>1 DEF Runs, Places
<1> HIDE DEF r1
<1>4. /\ r \in Runs /\ r.at = "streaming" /\ r.version = remote[m] /\ r.place = place
      /\ r.stale = stale
  BY <1>3 DEF Runs
<1> HIDE DEF r
<1>5. troubles' \in 0 .. MaxTroubles
  BY TroubleTyped DEF Streaming, Typed
<1> QED
  BY <1>2, <1>4, <1>5 DEF Typed

LEMMA OfIsFetched ==
  ASSUME Typed, NEW m \in Media, NEW stale \in BOOLEAN, Dest(m) \in FinalPaths, IsFetched(m, stale)
  PROVE  /\ run' \in [Media -> Runs]
         /\ \A n \in Media \ {m} : run'[n] = run[n]
         /\ run'[m].stale = stale /\ run'[m].sized = run[m].sized
         /\ kind[m] = "remuxed" => run'[m].at = "fetched"
         /\ kind[m] # "remuxed" => run'[m].at = "filed" /\ run'[m].path = Dest(m)
<1> DEFINE at == IF kind[m] = "remuxed" THEN "fetched" ELSE "filed"
           p == IF kind[m] = "remuxed" THEN None ELSE Dest(m)
           r1 == [[[run[m] EXCEPT !.stale = stale] EXCEPT !.version = None] EXCEPT !.place = 0]
           r == [[r1 EXCEPT !.at = at] EXCEPT !.path = p]
<1>1. run[m] \in Runs /\ at \in Places /\ p \in FinalPaths \cup {None}
  BY DEF Typed, Places
<1>2. run' = [run EXCEPT ![m] = r]
  BY DEF Typed, IsFetched
<1>3. /\ kind[m] = "remuxed" => at = "fetched"
      /\ kind[m] # "remuxed" => at = "filed" /\ p = Dest(m)
  OBVIOUS
<1> HIDE DEF at, p
<1>4. r1 \in Runs /\ r1.stale = stale /\ r1.sized = run[m].sized
  BY <1>1 DEF Runs
<1> HIDE DEF r1
<1>5. r \in Runs /\ r.stale = stale /\ r.sized = run[m].sized /\ r.at = at /\ r.path = p
  BY <1>1, <1>4 DEF Runs
<1> HIDE DEF r
<1> QED
  BY <1>2, <1>3, <1>5 DEF Typed

\* At its end a download has neither a name nor files to be looked after.
LEMMA OfEnds ==
  ASSUME IInv, NEW m \in Media, NEW status \in {"queued", "completed", "ended"}, kind' = kind,
         Ends(m, status), status = "completed" => run[m].path \in FinalPaths
  PROVE  /\ run' \in [Media -> Runs] /\ held' \in [Media -> Names \cup {None}]
         /\ item' \in [Media -> {"queued", "downloading", "completed", "ended"}]
         /\ path' \in [Media -> FinalPaths \cup {None}]
         /\ held'[m] = None /\ OthersStay(m) /\ Apart' /\ Owns(m)' /\ Placed(m)'
<1>1. NoRun \in Runs /\ NoRun.at = "idle"
  BY DEF NoRun, Runs, Places
<1>2. /\ run' \in [Media -> Runs] /\ run'[m].at = "idle"
      /\ \A n \in Media \ {m} : run'[n] = run[n]
  BY <1>1 DEF IInv, Typed, Ends
<1>3. /\ held' \in [Media -> Names \cup {None}] /\ held'[m] = None
      /\ \A n \in Media \ {m} : held'[n] = held[n]
  BY DEF IInv, Typed, Ends
<1>4. /\ item' \in [Media -> {"queued", "downloading", "completed", "ended"}] /\ item'[m] = status
      /\ \A n \in Media \ {m} : item'[n] = item[n]
  BY DEF IInv, Typed, Ends
<1>5. /\ path' \in [Media -> FinalPaths \cup {None}] /\ (status = "completed" => path'[m] \in FinalPaths)
      /\ \A n \in Media \ {m} : path'[n] = path[n]
  BY DEF IInv, Typed, Ends
<1>6. OthersStay(m)
  BY <1>2, <1>3, <1>4, <1>5 DEF OthersStay
<1>7. Apart'
  BY <1>3, <1>6, NoNameNoClash DEF IInv, Typed
<1>8. Owns(m)' /\ Placed(m)'
  BY <1>2, <1>3, <1>4, <1>5 DEF Owns, Placed
<1> QED
  BY <1>2, <1>3, <1>4, <1>5, <1>6, <1>7, <1>8

\* A download that has reserved a name has paths.
LEMMA PathsOfAHolder ==
  ASSUME IInv, NEW m \in Media, held[m] # None
  PROVE  /\ held[m] \in Names
         /\ \A p \in {PartFile(m), Fetched(m), Dest(m), Path(held[m], "native")} \cup Parts(m) :
              p \in Paths /\ p.name = held[m]
         /\ Dest(m) \in FinalPaths /\ Path(held[m], "native") \in FinalPaths
         /\ PartFile(m) \notin {Fetched(m), Dest(m)}
         /\ kind[m] = "remuxed" => Fetched(m) # Dest(m)
         /\ kind[m] # "remuxed" => Fetched(m) = Dest(m)
         /\ \A p \in FinalPaths : p \notin Parts(m) /\ (kind[m] = "remuxed" => p # Fetched(m))
<1>1. held[m] \in Names
  BY DEF IInv, Typed
<1>2. \A p \in FinalPaths : p.suffix \in {"final", "native"}
  BY DEF FinalPaths
<1>3. \A s : Path(held[m], s).suffix = s
  BY DEF Path
<1>4. {"final", "native", "src", "part", "srcpart"} \subseteq Suffixes
  BY DEF Suffixes
<1>5. \A s \in Suffixes : Path(held[m], s) \in Paths /\ Path(held[m], s).name = held[m]
  BY <1>1, PathsAreTyped
<1>6. Dest(m) \in FinalPaths /\ Path(held[m], "native") \in FinalPaths
  BY <1>1, <1>4, PathsAreTyped DEF Dest
<1>7. \A p \in FinalPaths : p \notin Parts(m) /\ (kind[m] = "remuxed" => p # Fetched(m))
  BY <1>2, <1>3 DEF Parts, PartFile, Fetched
<1> QED
  BY <1>1, <1>3, <1>4, <1>5, <1>6, <1>7 DEF Parts, PartFile, Fetched, Dest

-----------------------------------------------------------------------------
(* The steps. *)

LEMMA StartsWithNothing ==
  Init => IInv
<1> SUFFICES ASSUME Init PROVE IInv
  OBVIOUS
<1> USE DownloadFilesAssumption DEF DownloadFilesAssumption
<1>1. NoRun \in Runs /\ NoRun.at = "idle"
  BY DEF NoRun, Runs, Places
<1>2. NumVersions \in Versions
  BY DEF Versions
<1>3. DOMAIN disk = {}
  BY DEF Init
<1>4. 0 \in 0 .. MaxTroubles
  OBVIOUS
<1>5. Typed
  BY <1>1, <1>2, <1>3, <1>4 DEF Init, Typed, FilesTyped
<1>6. Apart
  BY DEF Init, Apart
<1>7. \A m \in Media : Owns(m) /\ Placed(m)
  BY <1>1 DEF Init, Owns, Placed
<1> QED
  BY <1>5, <1>6, <1>7 DEF IInv

\* What is so of a download that nothing happens to.
LEMMA NothingHappens ==
  ASSUME IInv, Typed', UNCHANGED <<kind, disk, item, path, held>>,
         \A m \in Media : run'[m] = run[m] \/ \E c \in BOOLEAN : run'[m] = [run[m] EXCEPT !.cancel = c]
  PROVE  IInv'
<1>1. Apart'
  BY DEF IInv, Apart
<1>2. ASSUME NEW m \in Media PROVE Owns(m)' /\ Placed(m)'
  <2>1. Owns(m) /\ Placed(m)
    BY DEF IInv
  <2>5. /\ run'[m].at = run[m].at /\ run'[m].version = run[m].version
        /\ run'[m].place = run[m].place /\ run'[m].sized = run[m].sized
        /\ run'[m].path = run[m].path /\ run'[m].stale = run[m].stale
    BY DEF IInv, Typed, Runs
  <2>2. PartFile(m)' = PartFile(m) /\ Fetched(m)' = Fetched(m) /\ Dest(m)' = Dest(m)
    BY DEF PartFile, Fetched, Dest
  <2>3. Owns(m)'
    BY <2>1, <2>2, <2>5 DEF Owns
  <2>4. Placed(m)'
    BY <2>1, <2>2, <2>5 DEF Placed, Exists, Begins, OfOneVersion, Content, Existing
  <2> QED
    BY <2>3, <2>4
<1> QED
  BY <1>1, <1>2 DEF IInv

LEMMA ChangeKeeps ==
  ASSUME IInv, NEW m \in Media, Change(m)
  PROVE  IInv'
<1>1. remote' \in [Media -> Versions]
  BY DEF Change, IInv, Typed
<1>2. Typed'
  BY <1>1, TroubleTyped DEF Change, IInv, Typed, FilesTyped, files, rows
<1> QED
  BY <1>2, NothingHappens DEF Change, files, rows

LEMMA CancelKeeps ==
  ASSUME IInv, NEW m \in Media, Cancel(m)
  PROVE  IInv'
<1> DEFINE r == [run[m] EXCEPT !.cancel = TRUE]
<1>1. run[m] \in Runs /\ run' = [run EXCEPT ![m] = r]
  BY DEF Cancel, IInv, Typed
<1>2. r \in Runs
  BY <1>1 DEF Runs
<1>3. run' \in [Media -> Runs]
  BY <1>1, <1>2 DEF IInv, Typed
<1>4. Typed'
  BY <1>3, TroubleTyped DEF Cancel, IInv, Typed, FilesTyped, files, rows
<1>5. \A n \in Media : run'[n] = run[n] \/ \E c \in BOOLEAN : run'[n] = [run[n] EXCEPT !.cancel = c]
  BY <1>1 DEF IInv, Typed
<1> QED
  BY <1>4, <1>5, NothingHappens DEF Cancel, files, rows

\* A download's file is removed, if at all, when it is in its place.
LEMMA RemoveKeeps ==
  ASSUME IInv, NEW m \in Media, Remove(m)
  PROVE  IInv'
<1>1. path[m] \in FinalPaths
  BY DEF Remove, IInv, Owns
<1>2. /\ FilesTyped'
      /\ DOMAIN disk' = DOMAIN disk \ {path[m]}
      /\ \A p \in DOMAIN disk' : disk'[p] = disk[p]
  BY OfWithout DEF Remove, IInv, Typed
<1>3. Typed'
  BY <1>2, TroubleTyped DEF Remove, IInv, Typed, rows
<1>4. Apart'
  BY DEF Remove, IInv, Apart
<1>5. ASSUME NEW n \in Media PROVE Owns(n)' /\ Placed(n)'
  <2>1. Owns(n) /\ Placed(n)
    BY DEF IInv
  <2>2. /\ PartFile(n)' = PartFile(n) /\ Fetched(n)' = Fetched(n) /\ Dest(n)' = Dest(n)
        /\ UNCHANGED <<run, held, item, path, kind>>
    BY DEF Remove, rows, PartFile, Fetched, Dest
  <2>3. Owns(n)'
    BY <2>1, <2>2 DEF Owns
  <2>4. /\ held[n] # None /\ run[n].at \in {"fetched", "remuxing"} => path[m] # Fetched(n)
        /\ held[n] # None => path[m] # PartFile(n)
    BY <1>1, <2>1, PathsOfAHolder DEF Owns, Parts
  <2>5. run[n].at \in {"requested", "streaming", "fetched"}' => ~Exists(Dest(n))'
    BY <1>2, <2>1, <2>2 DEF Placed, Exists
  <2>6. (run[n].at = "streaming" /\ ~run[n].stale =>
         Begins(Content(n), n, run[n].version) /\ run[n].place = Existing(n))'
    <3>1. SUFFICES ASSUME run[n].at = "streaming"
                   PROVE  Content(n)' = Content(n)
      BY <3>1, <2>1, <2>2 DEF Placed, Begins, Existing
    <3> QED
      BY <3>1, <1>2, <2>1, <2>2, <2>4 DEF Owns, Content, Exists
  <2>7. (run[n].at \in {"fetched", "remuxing"} =>
         Exists(Fetched(n)) /\ (~run[n].stale => OfOneVersion(n, disk[Fetched(n)])))'
    BY <1>2, <2>1, <2>2, <2>4 DEF Owns, Placed, Exists, OfOneVersion
  <2>8. (run[n].at = "filed" /\ ~run[n].stale /\ Exists(run[n].path) =>
         OfOneVersion(n, disk[run[n].path]))'
    BY <1>2, <2>1, <2>2 DEF Placed, Exists, OfOneVersion
  <2> QED
    BY <2>2, <2>3, <2>5, <2>6, <2>7, <2>8 DEF Placed
<1> QED
  BY <1>3, <1>4, <1>5 DEF IInv

\* Steps before a name is reserved, and those that only end the download.
LEMMA DiskStays ==
  ASSUME NEW m \in Media, disk' = disk
  PROVE  OwnFiles(m)
BY DEF OwnFiles

LEMMA AgainKeeps ==
  ASSUME IInv, NEW m \in Media, Again(m)
  PROVE  IInv'
<1>1. /\ item' \in [Media -> {"queued", "downloading", "completed", "ended"}]
      /\ path' \in [Media -> FinalPaths \cup {None}]
      /\ item[m] # "downloading" /\ item'[m] = "queued"
  BY DEF Again, IInv, Typed
<1>2. OthersStay(m)
  BY DEF Again, IInv, Typed, OthersStay, outside
<1>3. Typed'
  BY <1>1 DEF Again, IInv, Typed, FilesTyped, outside, files
<1>4. Apart'
  BY DEF Again, IInv, Apart
<1>5. run[m].at = "idle" /\ held[m] = None
  BY <1>1 DEF IInv, Owns
<1>6. Owns(m)' /\ Placed(m)'
  BY <1>1, <1>5 DEF Again, Owns, Placed
<1> QED
  BY <1>2, <1>3, <1>4, <1>6, DiskStays, OwnSuffices DEF Again, files

LEMMA BeginKeeps ==
  ASSUME IInv, NEW m \in Media, Begin(m)
  PROVE  IInv'
<1>1. /\ run' \in [Media -> Runs]
      /\ \A n \in Media \ {m} : run'[n] = run[n]
      /\ run'[m].at = "starting"
  BY OfGoes DEF Begin, IInv, Places
<1>2. /\ item' \in [Media -> {"queued", "downloading", "completed", "ended"}]
      /\ item[m] = "queued" /\ item'[m] = "downloading"
      /\ \A n \in Media \ {m} : item'[n] = item[n]
  BY DEF Begin, IInv, Typed
<1>3. Typed'
  BY <1>1, <1>2 DEF Begin, IInv, Typed, FilesTyped, outside, files
<1>4. Apart'
  BY DEF Begin, IInv, Apart
<1>5. held[m] = None
  BY <1>2 DEF IInv, Owns
<1>6. OthersStay(m)
  BY <1>1, <1>2 DEF Begin, OthersStay, outside
<1>7. Owns(m)' /\ Placed(m)'
  BY <1>1, <1>2, <1>5 DEF Begin, Owns, Placed
<1> QED
  BY <1>3, <1>4, <1>6, <1>7, DiskStays, OwnSuffices DEF Begin, files

\* A download that ends leaves the rest as it should be.
LEMMA EndingKeeps ==
  ASSUME IInv, NEW m \in Media, NEW status \in {"queued", "completed", "ended"},
         Ends(m, status), status = "completed" => run[m].path \in FinalPaths,
         OwnFiles(m), FilesTyped', UNCHANGED outside, scratch' \subseteq Media
  PROVE  IInv'
<1>1. /\ run' \in [Media -> Runs] /\ held' \in [Media -> Names \cup {None}]
      /\ item' \in [Media -> {"queued", "downloading", "completed", "ended"}]
      /\ path' \in [Media -> FinalPaths \cup {None}]
      /\ held'[m] = None /\ OthersStay(m) /\ Apart' /\ Owns(m)' /\ Placed(m)'
  BY OfEnds DEF outside
<1>2. Typed'
  BY <1>1 DEF IInv, Typed, outside
<1> QED
  BY <1>1, <1>2, OwnSuffices

\* A download removes only files of its name.
LEMMA RemovesItsOwn ==
  ASSUME IInv, NEW m \in Media, held[m] # None, NEW S \in SUBSET (Parts(m) \cup {PartFile(m)}),
         disk' = Without(S)
  PROVE  OwnFiles(m) /\ FilesTyped'
<1>1. \A p \in S : p.name = held[m]
  BY PathsOfAHolder
<1>2. /\ FilesTyped'
      /\ DOMAIN disk' = DOMAIN disk \ S
      /\ \A p \in DOMAIN disk' : disk'[p] = disk[p]
  BY OfWithout DEF IInv, Typed
<1> QED
  BY <1>1, <1>2 DEF OwnFiles

\* Steps that end a download.
LEMMA GivingUpKeeps ==
  ASSUME IInv, NEW m \in Media, GiveUp(m)
  PROVE  IInv'
<1>1. PICK status \in {"queued", "ended"} : Ends(m, status)
  BY DEF GiveUp
<1>2. FilesTyped' /\ scratch' \subseteq Media
  BY DEF GiveUp, IInv, Typed, FilesTyped, files
<1> QED
  BY <1>1, <1>2, DiskStays, EndingKeeps DEF GiveUp, files

LEMMA FailingKeeps ==
  ASSUME IInv, NEW m \in Media, Mismatch(m) \/ TryLater(m) \/ Gone(m) \/ Stopped(m) \/ BreakOff(m)
  PROVE  IInv'
<1>1. held[m] # None
  BY DEF IInv, Owns, At, Mismatch, TryLater, Gone, Stopped, BreakOff
<1>2. UNCHANGED outside /\ scratch' \subseteq Media
  BY DEF IInv, Typed, Mismatch, TryLater, Gone, Stopped, BreakOff, files
<1>3. OwnFiles(m) /\ FilesTyped'
  <2>1. CASE Mismatch(m)
    BY <2>1, <1>1, RemovesItsOwn DEF Mismatch
  <2>2. CASE Gone(m) \/ Stopped(m)
    BY <2>2, <1>1, RemovesItsOwn DEF Gone, Stopped
  <2>3. CASE TryLater(m) \/ BreakOff(m)
    BY <2>3, DiskStays DEF TryLater, BreakOff, files, IInv, Typed, FilesTyped
  <2> QED
    BY <2>1, <2>2, <2>3
<1>4. Ends(m, "queued") \/ Ends(m, "ended")
  BY DEF Mismatch, TryLater, Gone, Stopped, BreakOff
<1> QED
  BY <1>2, <1>3, <1>4, EndingKeeps

LEMMA FinishKeeps ==
  ASSUME IInv, NEW m \in Media, Finish(m)
  PROVE  IInv'
<1>1. held[m] # None /\ run[m].path \in FinalPaths
  BY PathsOfAHolder DEF IInv, Owns, At, Finish
<1>2. FilesTyped' /\ OwnFiles(m) /\ scratch' \subseteq Media /\ UNCHANGED outside
  BY DiskStays DEF Finish, IInv, Typed, FilesTyped
<1> QED
  BY <1>1, <1>2, EndingKeeps DEF Finish

LEMMA RestartKeeps ==
  ASSUME IInv, Restart
  PROVE  IInv'
<1>1. NoRun \in Runs /\ NoRun.at = "idle"
  BY DEF NoRun, Runs, Places
<1>2. /\ item' \in [Media -> {"queued", "downloading", "completed", "ended"}]
      /\ \A m \in Media : item'[m] # "downloading" /\ (item'[m] = "completed" => item[m] = "completed")
  BY DEF Restart, IInv, Typed
<1>3. /\ run' \in [Media -> Runs] /\ held' \in [Media -> Names \cup {None}]
      /\ \A m \in Media : run'[m].at = "idle" /\ held'[m] = None
  BY <1>1 DEF Restart
<1>4. Typed'
  BY <1>2, <1>3, TroubleTyped DEF Restart, IInv, Typed, FilesTyped
<1>5. Apart'
  BY <1>3 DEF Apart
<1>6. \A m \in Media : Owns(m)' /\ Placed(m)'
  BY <1>2, <1>3 DEF Restart, IInv, Owns, Placed
<1> QED
  BY <1>4, <1>5, <1>6 DEF IInv

\* The name reserved is nobody's, and nothing has it.
LEMMA ReserveKeeps ==
  ASSUME IInv, NEW m \in Media, Reserve(m)
  PROVE  IInv'
<1>1. UniqueName \in Names /\ Free(UniqueName)
  BY UniqueNameIsFree DEF Reserve
<1>2. /\ held' \in [Media -> Names \cup {None}] /\ held'[m] = UniqueName
      /\ \A n \in Media \ {m} : held'[n] = held[n]
  BY <1>1 DEF Reserve, IInv, Typed
<1>3. /\ run' \in [Media -> Runs]
      /\ \A n \in Media \ {m} : run'[n] = run[n]
      /\ run'[m].at = "requested"
  BY OfGoes DEF Reserve, IInv, Places
<1>4. Typed'
  BY <1>2, <1>3 DEF Reserve, IInv, Typed, FilesTyped, outside, files, rows
<1>5. OthersStay(m)
  BY <1>2, <1>3 DEF Reserve, OthersStay, outside, rows
<1>6. Apart'
  BY <1>1, <1>2, <1>5, NoNameNoClash DEF IInv, Typed
<1>7. held'[m] # None
  BY <1>1, <1>2, DownloadFilesAssumption DEF DownloadFilesAssumption
<1>8. Owns(m)'
  BY <1>3, <1>7 DEF Reserve, IInv, Owns, At, outside, rows
<1>9. ~Exists(Dest(m))'
  BY <1>1, <1>2 DEF Reserve, Free, Exists, Dest, files
<1>10. Placed(m)'
  BY <1>3, <1>9 DEF Placed
<1> QED
  BY <1>4, <1>5, <1>6, <1>8, <1>10, DiskStays, OwnSuffices DEF Reserve, files

\* What doesn't change while a download that has its name goes on.
LEMMA NamesStay ==
  ASSUME IInv, NEW m \in Media, UNCHANGED <<kind, remote, scratch, rows, held>>, FilesTyped',
         troubles' \in {troubles} \cup 0 .. MaxTroubles,
         run' \in [Media -> Runs], \A n \in Media \ {m} : run'[n] = run[n]
  PROVE  /\ Typed' /\ Apart' /\ OthersStay(m)
         /\ PartFile(m)' = PartFile(m) /\ Fetched(m)' = Fetched(m) /\ Dest(m)' = Dest(m)
<1>1. Typed'
  BY DEF IInv, Typed, rows
<1>2. Apart'
  BY DEF IInv, Apart
<1>3. OthersStay(m)
  BY DEF OthersStay, rows
<1>4. PartFile(m)' = PartFile(m) /\ Fetched(m)' = Fetched(m) /\ Dest(m)' = Dest(m)
  BY DEF PartFile, Fetched, Dest
<1> QED
  BY <1>1, <1>2, <1>3, <1>4

LEMMA Whole200Keeps ==
  ASSUME IInv, NEW m \in Media, Whole200(m)
  PROVE  IInv'
<1>1. run[m].at = "requested" /\ held[m] # None
  BY DEF IInv, Owns, At, Whole200
<1>2. /\ run' \in [Media -> Runs] /\ troubles' \in 0 .. MaxTroubles
      /\ \A n \in Media \ {m} : run'[n] = run[n]
      /\ run'[m].at = "streaming" /\ run'[m].version = remote[m] /\ run'[m].place = 0
  <2>1. PICK stale \in BOOLEAN, sized \in BOOLEAN : Streaming(m, 0, stale, sized)
    BY DEF Whole200
  <2> QED
    BY <2>1, OfStreaming DEF IInv
<1>3. /\ FilesTyped' /\ OwnFiles(m)
      /\ DOMAIN disk' = DOMAIN disk \ {PartFile(m)}
  BY <1>1, RemovesItsOwn, OfWithout DEF Whole200, IInv, Typed
<1>4. /\ Typed' /\ Apart' /\ OthersStay(m)
      /\ PartFile(m)' = PartFile(m) /\ Fetched(m)' = Fetched(m) /\ Dest(m)' = Dest(m)
  BY <1>2, <1>3, NamesStay DEF Whole200
<1>5. remote[m] \in Versions
  BY DEF IInv, Typed
<1>6. Owns(m)'
  BY <1>1, <1>2, <1>5 DEF Whole200, IInv, Owns, rows
<1>7. Content(m)' = <<>>
  BY <1>3, <1>4 DEF Content, Exists
<1>8. Begins(Content(m)', m, remote[m]) /\ Len(Content(m)') = 0
  BY <1>5, <1>7, NothingIsBegun
<1>9. Placed(m)'
  BY <1>1, <1>2, <1>3, <1>4, <1>8 DEF IInv, Placed, Exists, Begins, Existing
<1> QED
  BY <1>3, <1>4, <1>6, <1>9, OwnSuffices

\* An answer whose body is appended, be it from the right place or not.
LEMMA AppendingKeeps ==
  ASSUME IInv, NEW m \in Media, NEW place \in Nat, NEW stale \in BOOLEAN, NEW sized \in BOOLEAN,
         At(m, "requested"), Streaming(m, place, stale, sized),
         ~stale => Begins(Content(m), m, remote[m]) /\ place = Existing(m),
         UNCHANGED <<kind, remote, files, rows, held>>
  PROVE  IInv'
<1>1. run[m].at = "requested" /\ held[m] # None
  BY DEF IInv, Owns, At
<1>2. /\ run' \in [Media -> Runs] /\ troubles' \in 0 .. MaxTroubles
      /\ \A n \in Media \ {m} : run'[n] = run[n]
      /\ run'[m].at = "streaming" /\ run'[m].version = remote[m] /\ run'[m].place = place
      /\ run'[m].stale = stale
  BY OfStreaming DEF IInv
<1>3. FilesTyped' /\ OwnFiles(m) /\ disk' = disk
  BY DiskStays DEF IInv, Typed, FilesTyped, files
<1>4. /\ Typed' /\ Apart' /\ OthersStay(m)
      /\ PartFile(m)' = PartFile(m) /\ Fetched(m)' = Fetched(m) /\ Dest(m)' = Dest(m)
  BY <1>2, <1>3, NamesStay DEF files
<1>5. remote[m] \in Versions
  BY DEF IInv, Typed
<1>6. Owns(m)'
  BY <1>1, <1>2, <1>5 DEF IInv, Owns, rows
<1>7. ~Exists(Dest(m)) /\ Content(m)' = Content(m)
  BY <1>1, <1>3, <1>4 DEF IInv, Placed, Content, Exists
<1>8. Placed(m)'
  BY <1>2, <1>3, <1>4, <1>7 DEF Placed, Exists, Begins, Existing
<1> QED
  BY <1>3, <1>4, <1>6, <1>8, OwnSuffices

LEMMA Rest206Keeps ==
  ASSUME IInv, NEW m \in Media, Rest206(m)
  PROVE  IInv'
<1> DEFINE stale == ~Begins(disk[PartFile(m)], m, remote[m])
<1>1. PICK sized \in BOOLEAN : Streaming(m, Existing(m), stale, sized)
  BY DEF Rest206
<1>2. Existing(m) \in Nat
  BY ContentIsTyped DEF IInv, Typed
<1>3. Existing(m) # 0
  BY DEF Rest206
<1>4. Content(m) = disk[PartFile(m)]
  BY <1>3 DEF Existing, Content
<1>5. stale \in BOOLEAN /\ (~stale => Begins(Content(m), m, remote[m]))
  BY <1>4
<1> HIDE DEF stale
<1> QED
  BY <1>1, <1>2, <1>5, AppendingKeeps DEF Rest206

LEMMA Misplaced206Keeps ==
  ASSUME IInv, NEW m \in Media, Misplaced206(m)
  PROVE  IInv'
BY AppendingKeeps DEF Misplaced206

\* A .part file that is complete, or taken for it.
LEMMA FetchingKeeps ==
  ASSUME IInv, NEW m \in Media, NEW stale \in BOOLEAN, run[m].at \in {"requested", "streaming"},
         ~stale => OfOneVersion(m, Content(m)),
         disk' = Become({PartFile(m)}, Fetched(m), Content(m)), IsFetched(m, stale),
         UNCHANGED <<outside, scratch, rows, held>>
  PROVE  IInv'
<1>1. held[m] # None /\ ~Exists(Dest(m))
  BY DEF IInv, Owns, Placed
<1>2. /\ PartFile(m) \in Paths /\ PartFile(m).name = held[m]
      /\ Fetched(m) \in Paths /\ Fetched(m).name = held[m]
      /\ Dest(m) \in FinalPaths
      /\ PartFile(m) \notin {Fetched(m), Dest(m)}
      /\ kind[m] = "remuxed" => Fetched(m) # Dest(m)
      /\ kind[m] # "remuxed" => Fetched(m) = Dest(m)
  BY <1>1, PathsOfAHolder
<1>3. /\ run' \in [Media -> Runs]
      /\ \A n \in Media \ {m} : run'[n] = run[n]
      /\ run'[m].stale = stale /\ run'[m].sized = run[m].sized
      /\ kind[m] = "remuxed" => run'[m].at = "fetched"
      /\ kind[m] # "remuxed" => run'[m].at = "filed" /\ run'[m].path = Dest(m)
  BY <1>2, OfIsFetched DEF IInv
<1>4. /\ FilesTyped'
      /\ DOMAIN disk' = (DOMAIN disk \ {PartFile(m)}) \cup {Fetched(m)}
      /\ disk'[Fetched(m)] = Content(m)
      /\ \A q \in DOMAIN disk' : q # Fetched(m) => disk'[q] = disk[q]
  <2>1. FilesTyped /\ Content(m) \in Seq(Chunks) /\ {PartFile(m)} \in SUBSET Paths
    BY <1>2, ContentIsTyped DEF IInv, Typed
  <2> QED
    BY <1>2, <2>1, OfBecome, ZenonT(30)
<1>5. OwnFiles(m)
  BY <1>2, <1>4 DEF OwnFiles
<1>6. /\ Typed' /\ Apart' /\ OthersStay(m)
      /\ PartFile(m)' = PartFile(m) /\ Fetched(m)' = Fetched(m) /\ Dest(m)' = Dest(m)
  BY <1>3, <1>4, NamesStay DEF outside
<1>7. Owns(m)'
  BY <1>1, <1>3, <1>6 DEF IInv, Owns, outside, rows
<1>8. ~stale => OfOneVersion(m, disk[Fetched(m)])'
  BY <1>3, <1>4, <1>6 DEF OfOneVersion, Begins
<1>9. Placed(m)'
  <2>1. CASE kind[m] = "remuxed"
    BY <2>1, <1>1, <1>2, <1>3, <1>4, <1>6, <1>8 DEF Placed, Exists
  <2>2. CASE kind[m] # "remuxed"
    <3>1. run'[m].at = "filed" /\ run'[m].path = Fetched(m)'
      BY <2>2, <1>2, <1>3, <1>6
    <3> QED
      BY <3>1, <1>3, <1>8 DEF Placed, OfOneVersion
  <2> QED
    BY <2>1, <2>2
<1> QED
  BY <1>5, <1>6, <1>7, <1>9, OwnSuffices

LEMMA ThereIfLong ==
  ASSUME NEW m \in Media, NEW v \in Versions, Existing(m) >= Size(v)
  PROVE  Exists(PartFile(m))
BY SizesArePositive DEF Existing, Content

LEMMA Complete416Keeps ==
  ASSUME IInv, NEW m \in Media, Complete416(m)
  PROVE  IInv'
<1> DEFINE stale == disk[PartFile(m)] # Whole(m, remote[m])
<1>1. run[m].at = "requested" /\ remote[m] \in Versions
  BY DEF IInv, Typed, At, Complete416
<1>2. Content(m) = disk[PartFile(m)]
  BY <1>1, ThereIfLong DEF Complete416, Content
<1>3. stale \in BOOLEAN /\ (~stale => OfOneVersion(m, Content(m)))
  BY <1>1, <1>2, WholeIsBegun DEF OfOneVersion
<1>4. IsFetched(m, stale)
  BY DEF Complete416
<1>5. disk' = Become({PartFile(m)}, Fetched(m), Content(m))
  BY <1>2 DEF Complete416, Moved
<1> HIDE DEF stale
<1> QED
  BY <1>1, <1>3, <1>4, <1>5, FetchingKeeps DEF Complete416

LEMMA ReceivedKeeps ==
  ASSUME IInv, NEW m \in Media, Received(m)
  PROVE  IInv'
<1>1. run[m].at = "streaming" /\ run[m].version \in Versions /\ run[m].stale \in BOOLEAN
  BY DEF IInv, Typed, Runs, Owns, At, Received
<1>2. ~run[m].stale => OfOneVersion(m, Content(m))
  BY <1>1 DEF IInv, Placed, OfOneVersion, Received, Existing
<1> QED
  BY <1>1, <1>2, FetchingKeeps DEF Received

LEMMA ReceiveKeeps ==
  ASSUME IInv, NEW m \in Media, Receive(m)
  PROVE  IInv'
<1> DEFINE v == run[m].version
           place == run[m].place
           longer == Append(Content(m), Chunk(m, v, place + 1))
           r == [run[m] EXCEPT !.place = place + 1]
<1>1. run[m].at = "streaming" /\ v \in Versions /\ held[m] # None /\ ~Exists(Dest(m))
  BY DEF IInv, Owns, Placed, At, Receive
<1>2. PartFile(m) \in Paths /\ PartFile(m).name = held[m] /\ PartFile(m) # Dest(m)
  BY <1>1, PathsOfAHolder
<1>3. Content(m) \in Seq(Chunks) /\ Existing(m) = Len(Content(m)) /\ place \in Nat
  BY ContentIsTyped DEF IInv, Typed, Runs, Existing
<1>4. ~run[m].stale => Begins(Content(m), m, v) /\ place = Len(Content(m))
  BY <1>1, <1>3 DEF IInv, Placed
<1>5. place < Size(v)
  BY DEF Receive
<1>6. disk' = Written(PartFile(m), longer)
  BY DEF Receive
<1>7. r \in Runs /\ r.at = run[m].at /\ r.version = v /\ r.place = place + 1
      /\ r.stale = run[m].stale
  <2>1. run[m] \in Runs
    BY DEF IInv, Typed
  <2> QED
    BY <2>1, <1>3 DEF Runs
<1>8. run' = [run EXCEPT ![m] = r]
  BY DEF Receive, IInv, Typed
<1> HIDE DEF r
<1>9. /\ run' \in [Media -> Runs] /\ run'[m] = r
      /\ \A n \in Media \ {m} : run'[n] = run[n]
  BY <1>7, <1>8 DEF IInv, Typed
<1> HIDE DEF v, place
<1>10. Chunk(m, v, place + 1) \in Chunks
  BY <1>1, <1>3 DEF Chunk, Chunks
<1>11. /\ longer \in Seq(Chunks) /\ Len(longer) = Len(Content(m)) + 1
       /\ ~run[m].stale => Begins(longer, m, v)
  BY <1>1, <1>3, <1>4, <1>5, <1>10, GoesOnBegun
<1> HIDE DEF longer
<1>12. /\ FilesTyped'
       /\ DOMAIN disk' = DOMAIN disk \cup {PartFile(m)}
       /\ disk'[PartFile(m)] = longer
       /\ \A q \in DOMAIN disk' : q # PartFile(m) => disk'[q] = disk[q]
  BY <1>2, <1>6, <1>11, OfWritten DEF IInv, Typed
<1>13. OwnFiles(m)
  BY <1>2, <1>12 DEF OwnFiles
<1>14. /\ Typed' /\ Apart' /\ OthersStay(m)
       /\ PartFile(m)' = PartFile(m) /\ Fetched(m)' = Fetched(m) /\ Dest(m)' = Dest(m)
  BY <1>9, <1>12, NamesStay DEF Receive, outside
<1>15. Owns(m)'
  BY <1>1, <1>7, <1>9, <1>14 DEF Receive, IInv, Owns, outside, rows
<1>16. Content(m)' = longer
  BY <1>12, <1>14 DEF Content, Exists
<1>17. ~run[m].stale => Begins(Content(m)', m, v) /\ place + 1 = Len(Content(m)')
  BY <1>4, <1>11, <1>16
<1>18. ~Exists(Dest(m))'
  BY <1>1, <1>2, <1>12, <1>14 DEF Exists
<1>19. Placed(m)'
  BY <1>1, <1>7, <1>9, <1>17, <1>18 DEF Placed, Begins, Existing
<1> QED
  BY <1>13, <1>14, <1>15, <1>19, OwnSuffices

\* While ffmpeg writes, what was fetched is still there.
LEMMA RemuxBeginsKeeps ==
  ASSUME IInv, NEW m \in Media, RemuxBegins(m)
  PROVE  IInv'
<1>1. /\ run[m].at = "fetched" /\ held[m] # None /\ kind[m] = "remuxed"
      /\ Exists(Fetched(m)) /\ (~run[m].stale => OfOneVersion(m, disk[Fetched(m)]))
  BY DEF RemuxBegins, At, IInv, Owns, Placed
<1>2. Dest(m) \in Paths /\ Dest(m).name = held[m] /\ Dest(m) # Fetched(m)
  BY <1>1, PathsOfAHolder
<1>3. /\ run' \in [Media -> Runs]
      /\ \A n \in Media \ {m} : run'[n] = run[n]
      /\ run'[m].at = "remuxing" /\ run'[m].stale = run[m].stale /\ run'[m].sized = run[m].sized
  BY OfGoes DEF RemuxBegins, IInv, Places
<1>4. /\ FilesTyped'
      /\ DOMAIN disk' = DOMAIN disk \cup {Dest(m)}
      /\ \A q \in DOMAIN disk' : q # Dest(m) => disk'[q] = disk[q]
  <2>1. <<>> \in Seq(Chunks)
    OBVIOUS
  <2> QED
    BY <2>1, <1>2, OfWritten DEF RemuxBegins, IInv, Typed
<1>5. OwnFiles(m)
  BY <1>2, <1>4 DEF OwnFiles
<1>6. /\ Typed' /\ Apart' /\ OthersStay(m)
      /\ PartFile(m)' = PartFile(m) /\ Fetched(m)' = Fetched(m) /\ Dest(m)' = Dest(m)
  BY <1>3, <1>4, NamesStay DEF RemuxBegins, outside
<1>7. Owns(m)'
  BY <1>1, <1>3, <1>6 DEF RemuxBegins, IInv, Owns, outside, rows
<1>8. Fetched(m) \in DOMAIN disk' /\ disk'[Fetched(m)] = disk[Fetched(m)]
  BY <1>1, <1>2, <1>4 DEF Exists
<1>9. Placed(m)'
  BY <1>1, <1>3, <1>6, <1>8 DEF Placed, OfOneVersion, Exists, Begins
<1> QED
  BY <1>5, <1>6, <1>7, <1>9, OwnSuffices

\* The remux, with ffmpeg or without, makes a file of what was fetched.
LEMMA FilingKeeps ==
  ASSUME IInv, NEW m \in Media, run[m].at \in {"fetched", "remuxing"},
         NEW p \in {Dest(m), Path(held[m], "native")}, NEW S \in SUBSET {Fetched(m), Dest(m)},
         disk' = Become(S, p, disk[Fetched(m)]), FiledAs(m, p),
         UNCHANGED <<outside, scratch, rows, held>>
  PROVE  IInv'
<1>1. held[m] # None /\ Exists(Fetched(m)) /\ (~run[m].stale => OfOneVersion(m, disk[Fetched(m)]))
  BY DEF IInv, Owns, Placed
<1>2. /\ p \in Paths /\ p \in FinalPaths /\ p.name = held[m]
      /\ \A q \in S : q \in Paths /\ q.name = held[m]
  BY <1>1, PathsOfAHolder
<1>3. /\ run' \in [Media -> Runs]
      /\ \A n \in Media \ {m} : run'[n] = run[n]
      /\ run'[m].at = "filed" /\ run'[m].path = p /\ run'[m].stale = run[m].stale
      /\ run'[m].sized = run[m].sized
  BY <1>2, OfFiledAs DEF IInv
<1>4. /\ FilesTyped'
      /\ DOMAIN disk' = (DOMAIN disk \ S) \cup {p}
      /\ disk'[p] = disk[Fetched(m)]
      /\ \A q \in DOMAIN disk' : q # p => disk'[q] = disk[q]
  <2>1. FilesTyped /\ disk[Fetched(m)] \in Seq(Chunks) /\ S \in SUBSET Paths
    BY <1>1, <1>2 DEF IInv, Typed, FilesTyped, Exists
  <2> QED
    BY <1>2, <2>1, OfBecome, ZenonT(30)
<1>5. OwnFiles(m)
  BY <1>2, <1>4 DEF OwnFiles
<1>6. /\ Typed' /\ Apart' /\ OthersStay(m)
      /\ PartFile(m)' = PartFile(m) /\ Fetched(m)' = Fetched(m) /\ Dest(m)' = Dest(m)
  BY <1>3, <1>4, NamesStay DEF outside
<1>7. Owns(m)'
  BY <1>1, <1>3, <1>6 DEF IInv, Owns, outside, rows
<1>8. Placed(m)'
  BY <1>1, <1>3, <1>4 DEF Placed, OfOneVersion, Begins
<1> QED
  BY <1>5, <1>6, <1>7, <1>8, OwnSuffices

LEMMA RemuxKeeps ==
  ASSUME IInv, NEW m \in Media, Remux(m) \/ FallBack(m)
  PROVE  IInv'
BY FilingKeeps DEF Remux, FallBack, Moved, At

LEMMA RunYtDlpKeeps ==
  ASSUME IInv, NEW m \in Media, RunYtDlp(m)
  PROVE  IInv'
<1>1. FilesTyped' /\ OwnFiles(m) /\ scratch' \subseteq Media /\ UNCHANGED outside
  BY DiskStays DEF RunYtDlp, IInv, Typed, FilesTyped
<1>2. CASE Ends(m, "queued") \/ Ends(m, "ended")
  BY <1>1, <1>2, EndingKeeps
<1>3. CASE Goes(m, "produced") /\ UNCHANGED <<held, rows>>
  <2>1. /\ run' \in [Media -> Runs]
        /\ \A n \in Media \ {m} : run'[n] = run[n]
        /\ run'[m].at = "produced"
    BY <1>3, OfGoes DEF IInv, Places
  <2>2. Typed'
    BY <1>1, <1>3, <2>1 DEF IInv, Typed, outside, rows
  <2>3. Apart' /\ OthersStay(m)
    BY <1>1, <1>3, <2>1 DEF IInv, Apart, OthersStay, outside, rows
  <2>4. run[m].at = "starting"
    BY DEF RunYtDlp, At
  <2>5. Owns(m)' /\ Placed(m)'
    BY <1>1, <1>3, <2>1, <2>4 DEF IInv, Owns, Placed, rows
  <2> QED
    BY <1>1, <2>2, <2>3, <2>5, OwnSuffices
<1> QED
  BY <1>2, <1>3 DEF RunYtDlp

LEMMA FileKeeps ==
  ASSUME IInv, NEW m \in Media, File(m)
  PROVE  IInv'
<1> DEFINE n == UniqueName
           p == Path(n, "final")
<1>1. n \in Names /\ Free(n)
  BY UniqueNameIsFree DEF File
<1>2. /\ held' = [held EXCEPT ![m] = n]
      /\ disk' = Written(p, Whole(m, remote[m]))
      /\ FiledAs(m, p)
  BY DEF File
<1> HIDE DEF n
<1>3. /\ held' \in [Media -> Names \cup {None}] /\ held'[m] = n
      /\ \A k \in Media \ {m} : held'[k] = held[k]
  BY <1>1, <1>2 DEF IInv, Typed
<1>4. p \in Paths /\ p \in FinalPaths /\ p.name = n
  BY <1>1, PathsAreTyped DEF Suffixes
<1>5. remote[m] \in Versions /\ Whole(m, remote[m]) \in Seq(Chunks)
  BY WholeIsTyped DEF IInv, Typed
<1>6. /\ FilesTyped'
      /\ DOMAIN disk' = DOMAIN disk \cup {p}
      /\ disk'[p] = Whole(m, remote[m])
      /\ \A q \in DOMAIN disk' : q # p => disk'[q] = disk[q]
  BY <1>2, <1>4, <1>5, OfWritten DEF IInv, Typed
<1>7. /\ run' \in [Media -> Runs]
      /\ \A k \in Media \ {m} : run'[k] = run[k]
      /\ run'[m].at = "filed" /\ run'[m].path = p /\ run'[m].stale = run[m].stale
  BY <1>2, <1>4, OfFiledAs DEF IInv
<1>8. Typed'
  BY <1>3, <1>6, <1>7 DEF File, IInv, Typed, outside, rows
<1>9. OthersStay(m)
  BY <1>3, <1>7 DEF File, OthersStay, outside, rows
<1>10. Apart'
  BY <1>1, <1>3, <1>9, NoNameNoClash DEF IInv, Typed
<1>11. OwnFiles(m)
  BY <1>3, <1>4, <1>6 DEF OwnFiles
<1>12. held'[m] # None
  BY <1>1, <1>3, DownloadFilesAssumption DEF DownloadFilesAssumption
<1>13. Owns(m)'
  BY <1>3, <1>7, <1>12 DEF File, IInv, Owns, At, Dest, outside, rows
<1>14. Placed(m)'
  <2>1. Begins(disk'[p], m, remote[m]) /\ Len(disk'[p]) = Size(remote[m])
    BY <1>5, <1>6, WholeIsBegun
  <2> QED
    BY <2>1, <1>5, <1>7 DEF Placed, OfOneVersion, Begins
<1> QED
  BY <1>8, <1>9, <1>10, <1>11, <1>13, <1>14, OwnSuffices

LEMMA StepsKeep ==
  IInv /\ [Next]_vars => IInv'
<1> SUFFICES ASSUME IInv, [Next]_vars PROVE IInv'
  OBVIOUS
<1>1. CASE UNCHANGED vars
  <2>1. Typed'
    BY <1>1 DEF vars, outside, rows, files, IInv, Typed, FilesTyped
  <2> QED
    BY <1>1, <2>1, NothingHappens DEF vars, outside, rows, files
<1>2. ASSUME NEW m \in Media,
             \/ Change(m) \/ Remove(m) \/ Cancel(m) \/ Again(m)
             \/ Begin(m) \/ GiveUp(m)
      PROVE  IInv'
  BY <1>2, ChangeKeeps, RemoveKeeps, CancelKeeps, AgainKeeps, BeginKeeps, GivingUpKeeps
<1>3. ASSUME NEW m \in Media,
             \/ Reserve(m) \/ Whole200(m) \/ Rest206(m) \/ Misplaced206(m) \/ Complete416(m)
             \/ Mismatch(m) \/ TryLater(m) \/ Gone(m)
      PROVE  IInv'
  BY <1>3, ReserveKeeps, Whole200Keeps, Rest206Keeps, Misplaced206Keeps, Complete416Keeps,
     FailingKeeps
<1>4. ASSUME NEW m \in Media, Receive(m) \/ Stopped(m) \/ BreakOff(m) \/ Received(m)
      PROVE  IInv'
  BY <1>4, ReceiveKeeps, FailingKeeps, ReceivedKeeps
<1>5. ASSUME NEW m \in Media,
             \/ RemuxBegins(m) \/ Remux(m) \/ FallBack(m)
             \/ RunYtDlp(m) \/ File(m) \/ Finish(m)
      PROVE  IInv'
  BY <1>5, RemuxBeginsKeeps, RemuxKeeps, RunYtDlpKeeps, FileKeeps, FinishKeeps
<1> QED
  BY <1>1, <1>2, <1>3, <1>4, <1>5, RestartKeeps DEF Next

\* Of every download, at every time: it has its name to itself, its file isn't
\* there before it is put there, and unless it continued something else what it
\* has got is the beginning of one version.
THEOREM Invariance == Spec => []IInv
BY StartsWithNothing, StepsKeep, PTL DEF Spec

\* Statuses, names, files and runs are of the kinds the code has.
THEOREM TypesHold == Spec => []TypeOK
<1>1. ASSUME Typed, NEW m \in Media
      PROVE  /\ run[m].at \in Places
             /\ run[m].version \in Versions \cup {None}
             /\ run[m].place \in Nat /\ run[m].sized \in BOOLEAN
             /\ run[m].cancel \in BOOLEAN /\ run[m].stale \in BOOLEAN
             /\ run[m].path \in FinalPaths \cup {None} /\ path[m] \in FinalPaths \cup {None}
  BY <1>1 DEF Typed, Runs
<1>2. ASSUME Typed PROVE TypeOK
  BY <1>1, <1>2 DEF Typed, FilesTyped, TypeOK, Paths, FinalPaths, Chunks
<1>3. IInv => TypeOK
  BY <1>2 DEF IInv
<1> QED
  BY <1>3, Invariance, PTL

\* Reservations keep downloads at once apart, and off what is there: no two hold
\* a name, and a download's file isn't there until it is put or remuxed there.
THEOREM OneWriterAlways == Spec => []OneWriter
<1>1. IInv => OneWriter
  BY DEF IInv, Apart, Placed, OneWriter
<1> QED
  BY <1>1, Invariance, PTL

\* However often a download breaks off and is continued, what is filed is one
\* version of its item, complete if the answer said how long that is and else at
\* least the beginning of it, unless the download continued a .part file of
\* something else or appended a range that didn't say where it began.
THEOREM FiledIsAlwaysWhole == Spec => []FiledIsWhole
<1>1. IInv => FiledIsWhole
  BY DEF IInv, Placed, FiledIsWhole, At, OfOneVersion
<1> QED
  BY <1>1, Invariance, PTL

-----------------------------------------------------------------------------
(* What is archived. *)

\* A step leaves the file of a completed item alone, but for Remove and FallBack.
LEMMA ArchiveInAStep ==
  ASSUME IInv, Next, NEW m \in Media, item[m] = "completed", Exists(path[m]), ~BeingRemuxed(path[m])
  PROVE  \/ path[m] \in DOMAIN disk' /\ disk'[path[m]] = disk[path[m]]
         \/ Remove(m)
         \/ \E n \in Media : FallBack(n)
<1> DEFINE p == path[m]
           Stays == p \in DOMAIN disk' /\ disk'[p] = disk[p]
<1>1. p \in FinalPaths /\ p \in DOMAIN disk /\ FilesTyped
  BY DEF IInv, Typed, Owns, Exists
<1>2. ASSUME disk' = disk PROVE Stays
  BY <1>1, <1>2
<1>3. ASSUME NEW S, p \notin S, disk' = Without(S) PROVE Stays
  BY <1>1, <1>3, OfWithout
<1>4. ASSUME NEW from, NEW to, NEW content, p \notin {from, to}, disk' = Become({from}, to, content)
      PROVE  Stays
  BY <1>1, <1>4 DEF Become
<1> HIDE DEF p
<1>5. ASSUME NEW n \in Media, held[n] # None
      PROVE  /\ PartFile(n) \in Paths /\ Fetched(n) \in Paths /\ Dest(n) \in Paths
             /\ p \notin Parts(n) /\ p # PartFile(n)
             /\ kind[n] = "remuxed" => p # Fetched(n)
             /\ kind[n] # "remuxed" => Fetched(n) = Dest(n)
  BY <1>1, <1>5, PathsOfAHolder DEF Parts
<1>6. ASSUME NEW n \in Media,
             \/ Change(n) \/ Cancel(n) \/ Again(n) \/ Begin(n) \/ GiveUp(n) \/ Reserve(n)
             \/ Rest206(n) \/ Misplaced206(n) \/ TryLater(n) \/ BreakOff(n) \/ RunYtDlp(n)
             \/ Finish(n)
      PROVE  Stays
  <2>1. disk' = disk
    BY <1>6 DEF Change, Cancel, Again, Begin, GiveUp, Reserve, Rest206, Misplaced206, TryLater,
                BreakOff, RunYtDlp, Finish, files
  <2> QED
    BY <2>1, <1>2
<1>7. ASSUME NEW n \in Media, Whole200(n) \/ Mismatch(n) \/ Gone(n) \/ Stopped(n)
      PROVE  Stays
  <2>1. held[n] # None
    BY <1>7 DEF IInv, Owns, At, Whole200, Mismatch, Gone, Stopped
  <2>2. disk' = Without({PartFile(n)}) \/ disk' = Without(Parts(n))
    BY <1>7 DEF Whole200, Mismatch, Gone, Stopped
  <2> QED
    BY <2>1, <2>2, <1>3, <1>5
<1>8. ASSUME NEW n \in Media, Complete416(n) \/ Received(n)
      PROVE  Stays
  <2>1. held[n] # None /\ ~Exists(Dest(n))
    BY <1>8 DEF IInv, Owns, Placed, At, Complete416, Received
  <2>3. p # Fetched(n)
    BY <2>1, <1>1, <1>5 DEF Exists
  <2> QED
    BY <1>8, <2>1, <2>3, <1>4, <1>5 DEF Complete416, Received, Moved
<1>9. ASSUME NEW n \in Media, Receive(n)
      PROVE  Stays
  <2>1. held[n] # None
    BY <1>9 DEF IInv, Owns, At, Receive
  <2>2. PICK content : disk' = Written(PartFile(n), content)
    BY <1>9 DEF Receive
  <2> QED
    BY <2>1, <2>2, <1>1, <1>5 DEF Written
<1>10. ASSUME NEW n \in Media, RemuxBegins(n) \/ Remux(n)
       PROVE  Stays
  <2>1. held[n] # None /\ kind[n] = "remuxed"
    BY <1>10 DEF IInv, Owns, At, RemuxBegins, Remux
  <2>2. CASE RemuxBegins(n)
    <3>1. ~Exists(Dest(n)) /\ disk' = Written(Dest(n), <<>>)
      BY <2>2 DEF IInv, Placed, At, RemuxBegins
    <3> QED
      BY <3>1, <1>1 DEF Written, Exists
  <2>3. CASE Remux(n)
    <3>1. p # Dest(n) /\ p # Fetched(n)
      BY <2>1, <2>3, <1>5 DEF Remux, BeingRemuxed, p
    <3> QED
      BY <2>3, <3>1, <1>4 DEF Remux, Moved
  <2> QED
    BY <1>10, <2>2, <2>3
<1>11. ASSUME NEW n \in Media, File(n)
       PROVE  Stays
  <2>1. Free(UniqueName)
    BY <1>11, UniqueNameIsFree DEF File
  <2>2. PICK content : disk' = Written(Path(UniqueName, "final"), content)
    BY <1>11 DEF File
  <2> QED
    BY <2>1, <2>2, <1>1 DEF Written, Free, Exists
<1>12. ASSUME NEW n \in Media, Remove(n)
       PROVE  Stays \/ Remove(m)
  <2>1. CASE path[n] = p
    BY <1>12, <2>1 DEF Remove, p
  <2>2. CASE path[n] # p
    BY <1>12, <2>2, <1>3 DEF Remove
  <2> QED
    BY <2>1, <2>2
<1>13. ASSUME Restart PROVE Stays
  BY <1>13, <1>2 DEF Restart
<1> QED
  BY <1>6, <1>7, <1>8, <1>9, <1>10, <1>11, <1>12, <1>13 DEF Next, p

\* No download, cancel, failure or restart touches the file of a completed item;
\* only its removal does, and a failing remux, whose file gets a name that was not
\* reserved.
THEOREM ArchiveIsAlwaysKept == Spec => ArchiveIsKept
<1>1. IInv /\ [Next]_vars =>
        [\A m \in Media :
           item[m] = "completed" /\ Exists(path[m]) /\ ~BeingRemuxed(path[m]) =>
             \/ path[m] \in DOMAIN disk' /\ disk'[path[m]] = disk[path[m]]
             \/ Remove(m)
             \/ \E n \in Media : FallBack(n)]_vars
  BY ArchiveInAStep
<1> QED
  BY <1>1, Invariance, PTL DEF Spec, ArchiveIsKept

===============================================================================
