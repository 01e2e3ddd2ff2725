----------------------------- MODULE LibraryProofs -----------------------------
(***************************************************************************)
(* The rows and files of the library, for all items, names and bounds.     *)
(*                                                                         *)
(* Pictures: as long as no two ffmpegs wrote one file, every file, also    *)
(* the one that was put away, has the picture of the item whose name it    *)
(* has, every hash that is stored or remembered is of its item's picture,  *)
(* and a twin has the picture of the item that is to be linked to it.      *)
(*                                                                         *)
(* Archive: as long as nothing was removed or put on the unmounted folder  *)
(* (Unspoilt), the folder is empty, every row with a file is completed and *)
(* its file on the share, so no check finds a file gone.                   *)
(***************************************************************************)
EXTENDS Library, WellFoundedInduction, TLAPS

Copies == [path : Paths, content : Content]
PathsOf(i) == {p \in Paths : p.item = i}
Placed == {"filed", "embedding", "done", "linking", "recording"}

\* Nothing was removed, and nothing downloaded while the share wasn't mounted.
Unspoilt == away = None /\ FALSE \notin used

Typed(disk) == DOMAIN disk \subseteq Paths /\ \A p \in DOMAIN disk : disk[p] \in Content
Right(disk) == \A p \in DOMAIN disk : disk[p].picture = Picture(p.item)

WorldInv ==
  /\ {twins, mounted, clash} \subseteq BOOLEAN
  /\ used \subseteq BOOLEAN
  /\ info \in Runs \cup {None}
  /\ troubles \in 0 .. MaxTroubles

DiskInv ==
  /\ Typed(share) /\ Typed(local)
  /\ away \in Copies \cup {None}
  /\ ~clash => /\ Right(share) /\ Right(local)
               /\ away \in Copies => away.content.picture = Picture(away.path.item)
  /\ Unspoilt => DOMAIN local = {}

Rows ==
  [status : {"queued", "downloading", "completed", "missing"}, path : Paths \cup {None},
   hash : Content \cup {None}, embedded : BOOLEAN]

RowInv(i) ==
  /\ row[i].status \in {"completed", "missing"} => row[i].path \in Paths
  /\ row[i].path \in Paths => row[i].path.item = i
  /\ ~clash /\ row[i].hash \in Content => row[i].hash.picture = Picture(i)
  /\ Unspoilt /\ row[i].path # None => row[i].status = "completed" /\ row[i].path \in DOMAIN share

Downloads ==
  [at : {"idle", "fetching"} \cup Placed, path : Paths \cup {None},
   hash : Content \cup {None}, embedded : BOOLEAN, twin : Paths \cup {None}]

DownloadInv(i) ==
  /\ download[i].at # "idle" <=> row[i].status = "downloading"
  /\ download[i].at \in Placed =>
       /\ download[i].path \in PathsOf(i)
       /\ download[i].hash \in Content
       /\ ~clash => download[i].hash.picture = Picture(i)
       /\ Unspoilt => download[i].path \in DOMAIN share
  /\ download[i].at = "linking" =>
       download[i].twin \in Paths /\ (~clash => Picture(download[i].twin.item) = Picture(i))

Backlogs ==
  [at : {"idle", "next", "embedding", "saving"}, todo : SUBSET [item : Items, path : Paths],
   item : Items \cup {None}, path : Paths \cup {None}, hash : Content \cup {None}]

BacklogInv ==
  /\ backlog \in Backlogs
  /\ \A c \in backlog.todo : c.path.item = c.item
  /\ backlog.at \in {"embedding", "saving"} => backlog.item \in Items /\ backlog.path \in PathsOf(backlog.item)
  /\ backlog.at = "saving" =>
       backlog.hash \in Content /\ (~clash => backlog.hash.picture = Picture(backlog.item))

Verifies == [at : {"idle", "applying"}, gone : SUBSET Items, back : SUBSET Items, blind : BOOLEAN]

VerifyInv ==
  /\ verify \in [Runs -> Verifies]
  /\ Unspoilt => \A v \in Runs : verify[v].gone = {}

IInv ==
  /\ WorldInv
  /\ DiskInv
  /\ row \in [Items -> Rows] /\ download \in [Items -> Downloads]
  /\ \A i \in Items : RowInv(i) /\ DownloadInv(i)
  /\ BacklogInv
  /\ VerifyInv

-----------------------------------------------------------------------------
(* What stays when nothing happens to it. *)

\* What every step keeps.
Still ==
  /\ twins' = twins
  /\ clash => clash'
  /\ Unspoilt' => Unspoilt /\ DOMAIN share \subseteq DOMAIN share'

LEMMA NoneIsNone ==
  None \notin Items /\ None \notin Paths /\ None \notin Content /\ None \notin Copies
BY LibraryAssumption DEF LibraryAssumption, Copies

LEMMA PicturesStay ==
  ASSUME twins' = twins, NEW i
  PROVE  Picture(i)' = Picture(i)
BY DEF Picture

LEMMA RowStays ==
  ASSUME Still, NEW i \in Items, RowInv(i), row'[i] = row[i]
  PROVE  RowInv(i)'
BY PicturesStay DEF Still, RowInv

LEMMA DownloadStays ==
  ASSUME Still, NEW i \in Items, DownloadInv(i), download'[i] = download[i],
         row'[i].status = "downloading" <=> row[i].status = "downloading"
  PROVE  DownloadInv(i)'
<1>1. Picture(i)' = Picture(i) /\ Picture(download[i].twin.item)' = Picture(download[i].twin.item)
  BY PicturesStay DEF Still
<1>2. download'[i].at # "idle" <=> row'[i].status = "downloading"
  BY DEF DownloadInv
<1>3. download'[i].at \in Placed =>
        /\ download'[i].path \in PathsOf(i)
        /\ download'[i].hash \in Content
        /\ ~clash' => download'[i].hash.picture = Picture(i)
        /\ Unspoilt' => download'[i].path \in DOMAIN share'
  BY DEF Still, DownloadInv
<1>4. download'[i].at = "linking" =>
        download'[i].twin \in Paths /\ (~clash' => Picture(download[i].twin.item) = Picture(i))
  BY DEF Still, DownloadInv
<1> QED
  BY <1>1, <1>2, <1>3, <1>4 DEF DownloadInv, PathsOf, Placed

LEMMA BacklogStays ==
  ASSUME Still, BacklogInv, backlog' = backlog
  PROVE  BacklogInv'
<1>1. Picture(backlog.item)' = Picture(backlog.item)
  BY PicturesStay DEF Still
<1> QED
  BY <1>1 DEF Still, BacklogInv, PathsOf

LEMMA VerifyStays ==
  ASSUME Still, VerifyInv, verify' = verify
  PROVE  VerifyInv'
BY DEF Still, VerifyInv

\* A step that leaves the files alone.
LEMMA FilesStay ==
  ASSUME IInv, UNCHANGED <<twins, away, share, local>>, used \subseteq used', clash => clash'
  PROVE  Still /\ DiskInv'
<1>1. Unspoilt' => Unspoilt
  BY DEF Unspoilt
<1>2. Still
  BY <1>1 DEF Still
<1>3. \A p : Picture(p.item)' = Picture(p.item)
  BY PicturesStay
<1>4. Picture(away.path.item)' = Picture(away.path.item)
  BY PicturesStay
<1>5. Typed(share)' /\ Typed(local)'
  BY DEF IInv, DiskInv, Typed
<1>6. ~clash' => (Right(share) /\ Right(local))'
  BY <1>3 DEF IInv, DiskInv, Right
<1>7. ~clash' => (away \in Copies => away.content.picture = Picture(away.path.item))'
  BY <1>4 DEF IInv, DiskInv
<1>8. Unspoilt' => DOMAIN local' = {}
  BY <1>1 DEF IInv, DiskInv
<1> QED
  BY <1>2, <1>5, <1>6, <1>7, <1>8 DEF IInv, DiskInv

\* A file of the right picture is written: on the share, or over one there is.
LEMMA OfWrite ==
  ASSUME IInv, NEW p \in Paths, NEW c \in Content, Write(p, c),
         UNCHANGED <<twins, mounted, away>>, used \subseteq used', clash => clash',
         ~clash' => c.picture = Picture(p.item),
         mounted \in used' \/ Exists(p) \/ away # None
  PROVE  Still /\ DiskInv' /\ (Unspoilt' => p \in DOMAIN share')
<1>1. Unspoilt' => Unspoilt
  BY DEF Unspoilt
<1>2. mounted \in BOOLEAN
  BY DEF IInv, WorldInv
<1>3. \A q : Picture(q.item)' = Picture(q.item)
  BY PicturesStay
<1>4. ~clash' => (away \in Copies => away.content.picture = Picture(away.path.item))'
  <2>1. Picture(away.path.item)' = Picture(away.path.item)
    BY PicturesStay
  <2> QED
    BY <2>1 DEF IInv, DiskInv
<1>5. CASE mounted
  <2>1. DOMAIN share' = DOMAIN share \cup {p} /\ local' = local
    BY <1>5 DEF Write, Put
  <2>2. \A q \in DOMAIN share' : share'[q] = IF q = p THEN c ELSE share[q]
    BY <1>5, <2>1 DEF Write, Put
  <2>3. Still
    BY <1>1, <2>1 DEF Still
  <2>4. Typed(share)' /\ Typed(local)'
    BY <2>1, <2>2 DEF IInv, DiskInv, Typed
  <2>5. ~clash' => (Right(share) /\ Right(local))'
    BY <1>3, <2>1, <2>2 DEF IInv, DiskInv, Right
  <2>6. Unspoilt' => DOMAIN local' = {}
    BY <1>1, <2>1 DEF IInv, DiskInv
  <2>7. DiskInv'
    BY <1>4, <2>4, <2>5, <2>6 DEF IInv, DiskInv
  <2> QED
    BY <2>1, <2>3, <2>7
<1>6. CASE ~mounted
  <2>1. DOMAIN local' = DOMAIN local \cup {p} /\ share' = share
    BY <1>6 DEF Write, Put
  <2>2. \A q \in DOMAIN local' : local'[q] = IF q = p THEN c ELSE local[q]
    BY <1>6, <2>1 DEF Write, Put
  <2>3. ~Unspoilt'
    <3> SUFFICES ASSUME Unspoilt' PROVE FALSE
      OBVIOUS
    <3>1. FALSE \notin used' /\ DOMAIN local = {} /\ away = None
      BY <1>1 DEF Unspoilt, IInv, DiskInv
    <3>2. mounted = FALSE
      BY <1>2, <1>6
    <3> QED
      BY <3>1, <3>2, <1>6 DEF Exists, Disk
  <2>4. Still
    BY <2>1, <2>3 DEF Still
  <2>5. Typed(share)' /\ Typed(local)'
    BY <2>1, <2>2 DEF IInv, DiskInv, Typed
  <2>6. ~clash' => (Right(share) /\ Right(local))'
    BY <1>3, <2>1, <2>2 DEF IInv, DiskInv, Right
  <2>7. DiskInv'
    BY <1>4, <2>3, <2>5, <2>6 DEF IInv, DiskInv
  <2> QED
    BY <2>3, <2>4, <2>7
<1> QED
  BY <1>5, <1>6

\* What is there has its item's picture.
LEMMA OnDisk ==
  ASSUME IInv, NEW p, Exists(p)
  PROVE  p \in Paths /\ Disk[p] \in Content /\ (~clash => Disk[p].picture = Picture(p.item))
BY DEF IInv, DiskInv, Typed, Right, Exists, Disk

\* So does what ffmpeg makes of it, unless two write.
LEMMA OfRewritten ==
  ASSUME IInv, NEW p, Exists(p), NEW i \in Items, NEW c \in Rewritten(i, p)
  PROVE  c \in Content /\ (~clash => c.picture = Picture(p.item))
<1>1. p \in Paths /\ Disk[p] \in Content /\ (~clash => Disk[p].picture = Picture(p.item))
  BY OnDisk
<1>2. [picture |-> "garbled", tags |-> None] \in Content
  BY DEF Content
<1>3. [Disk[p] EXCEPT !.tags = i] \in Content /\ [Disk[p] EXCEPT !.tags = i].picture = Disk[p].picture
  BY <1>1 DEF Content
<1> QED
  BY <1>1, <1>2, <1>3 DEF Rewritten

\* A step of one item's.
LEMMA OneItem ==
  ASSUME IInv, NEW i \in Items, Still, WorldInv', DiskInv',
         row' \in [Items -> Rows], download' \in [Items -> Downloads],
         \A j \in Items \ {i} : row'[j] = row[j] /\ download'[j] = download[j],
         RowInv(i)', DownloadInv(i)', BacklogInv', VerifyInv'
  PROVE  IInv'
<1>1. \A j \in Items \ {i} : RowInv(j)' /\ DownloadInv(j)'
  BY RowStays, DownloadStays DEF IInv
<1> QED
  BY <1>1 DEF IInv

\* A step that leaves rows and downloads alone.
LEMMA NoItem ==
  ASSUME IInv, Still, WorldInv', DiskInv', row' = row, download' = download, BacklogInv', VerifyInv'
  PROVE  IInv'
<1>1. \A j \in Items : RowInv(j)' /\ DownloadInv(j)'
  BY RowStays, DownloadStays DEF IInv
<1> QED
  BY <1>1 DEF IInv

-----------------------------------------------------------------------------
(* The steps of the user, the share and the process. *)

LEMMA StartsEmpty ==
  Init => IInv
<1> SUFFICES ASSUME Init PROVE IInv
  OBVIOUS
<1>1. 0 \in 0 .. MaxTroubles
  BY LibraryAssumption DEF LibraryAssumption
<1>2. WorldInv
  BY <1>1 DEF Init, WorldInv
<1>3. DOMAIN share = {} /\ DOMAIN local = {} /\ away = None
  BY DEF Init
<1>4. DiskInv
  BY <1>3, NoneIsNone DEF DiskInv, Typed, Right
<1>5. NoDownload \in Downloads /\ NoDownload.at = "idle"
  BY DEF NoDownload, Downloads
<1>6. row \in [Items -> Rows] /\ download \in [Items -> Downloads]
  BY <1>5 DEF Init, Rows
<1>7. ASSUME NEW i \in Items PROVE RowInv(i) /\ DownloadInv(i)
  <2>1. /\ row[i].status = "queued" /\ row[i].path = None /\ row[i].hash = None
        /\ download[i].at = "idle"
    BY <1>5 DEF Init
  <2> QED
    BY <2>1, NoneIsNone DEF RowInv, DownloadInv, Placed
<1>8. BacklogInv
  BY DEF Init, NoBacklog, BacklogInv, Backlogs
<1>9. VerifyInv
  BY DEF Init, NoVerify, VerifyInv, Verifies
<1> QED
  BY <1>2, <1>4, <1>6, <1>7, <1>8, <1>9 DEF IInv

LEMMA TroubleTyped ==
  ASSUME WorldInv, Trouble
  PROVE  troubles' \in 0 .. MaxTroubles
<1>1. troubles \in 0 .. MaxTroubles /\ MaxTroubles \in Nat
  BY LibraryAssumption DEF LibraryAssumption, WorldInv
<1> QED
  BY <1>1 DEF Trouble

\* What the user removes ends Unspoilt, and the copy is right.
LEMMA RemoveKeeps ==
  ASSUME IInv, NEW p \in Paths, Remove(p)
  PROVE  IInv'
<1>1. /\ mounted /\ p \in DOMAIN share
      /\ share' = [q \in DOMAIN share \ {p} |-> share[q]]
      /\ away' = [path |-> p, content |-> share[p]]
      /\ UNCHANGED <<twins, mounted, used, local, row, download, backlog, checks, clash>>
  BY DEF Remove, Exists, Disk
<1>2. DOMAIN share' = DOMAIN share \ {p} /\ \A q \in DOMAIN share' : share'[q] = share[q]
  BY <1>1
<1>3. share[p] \in Content /\ (~clash => share[p].picture = Picture(p.item))
  BY <1>1 DEF IInv, DiskInv, Typed, Right
<1>4. away' \in Copies /\ away'.path = p /\ away'.content = share[p]
  BY <1>1, <1>3 DEF Copies
<1>5. ~Unspoilt'
  BY <1>4, NoneIsNone DEF Unspoilt
<1>6. Still
  BY <1>1, <1>5 DEF Still
<1>7. \A q : Picture(q.item)' = Picture(q.item)
  BY <1>1, PicturesStay
<1>8. Picture(p.item)' = Picture(p.item)
  BY <1>1, PicturesStay
<1>9. Typed(share)' /\ Typed(local)'
  BY <1>1, <1>2 DEF IInv, DiskInv, Typed
<1>10. ~clash' => (Right(share) /\ Right(local))'
  BY <1>1, <1>2, <1>7 DEF IInv, DiskInv, Right
<1>11. ~clash' => away'.content.picture = Picture(p.item)'
  BY <1>1, <1>3, <1>4, <1>8
<1>12. DiskInv'
  BY <1>4, <1>5, <1>9, <1>10, <1>11 DEF DiskInv
<1>13. WorldInv'
  BY <1>1, TroubleTyped DEF Remove, IInv, WorldInv, checks
<1>14. BacklogInv' /\ VerifyInv'
  BY <1>1, <1>6, BacklogStays, VerifyStays DEF IInv, checks
<1> QED
  BY <1>1, <1>6, <1>12, <1>13, <1>14, NoItem

LEMMA RestoreKeeps ==
  ASSUME IInv, Restore
  PROVE  IInv'
<1>1. UNCHANGED <<twins, mounted, used, away, row, download, backlog, verify, info, clash>>
  BY DEF Restore, world, checks
<1>2. away \in Copies
  BY DEF Restore, IInv, DiskInv
<1>3. /\ away.path \in Paths /\ away.content \in Content
      /\ ~clash => away.content.picture = Picture(away.path.item)
  BY <1>2 DEF IInv, DiskInv, Copies
<1>4. Write(away.path, away.content) /\ away # None
  BY DEF Restore
<1>5. Still /\ DiskInv'
  BY <1>1, <1>3, <1>4, OfWrite
<1>6. WorldInv'
  BY <1>1, TroubleTyped DEF Restore, IInv, WorldInv
<1>7. BacklogInv' /\ VerifyInv'
  BY <1>1, <1>5, BacklogStays, VerifyStays DEF IInv
<1> QED
  BY <1>1, <1>5, <1>6, <1>7, NoItem

LEMMA MountKeeps ==
  ASSUME IInv, Mount
  PROVE  IInv'
<1>1. /\ UNCHANGED <<twins, used, away, share, local, row, download, backlog, verify, info, clash>>
      /\ mounted' = ~mounted
  BY DEF Mount, files, checks
<1>2. Still /\ DiskInv'
  BY <1>1, FilesStay
<1>3. WorldInv'
  BY <1>1, TroubleTyped DEF Mount, IInv, WorldInv
<1>4. BacklogInv' /\ VerifyInv'
  BY <1>1, <1>2, BacklogStays, VerifyStays DEF IInv
<1> QED
  BY <1>1, <1>2, <1>3, <1>4, NoItem

LEMMA RetryKeeps ==
  ASSUME IInv, NEW i \in Items, Retry(i)
  PROVE  IInv'
<1>1. /\ UNCHANGED <<twins, mounted, used, away, share, local, download, backlog, verify, info, troubles, clash>>
      /\ row[i].status = "missing"
      /\ row' = [row EXCEPT ![i] = [row[i] EXCEPT !.status = "queued"]]
  BY DEF Retry, world, files, checks
<1>2. Still /\ DiskInv'
  BY <1>1, FilesStay
<1>3. WorldInv'
  BY <1>1 DEF IInv, WorldInv
<1>4. BacklogInv' /\ VerifyInv'
  BY <1>1, <1>2, BacklogStays, VerifyStays DEF IInv
<1>5. /\ row' \in [Items -> Rows]
      /\ row'[i].status = "queued" /\ row'[i].path = row[i].path /\ row'[i].hash = row[i].hash
      /\ \A j \in Items \ {i} : row'[j] = row[j]
  BY <1>1 DEF IInv, Rows
<1>6. row[i].path \in Paths /\ ~Unspoilt'
  BY <1>1, <1>2, NoneIsNone DEF IInv, RowInv, Still
<1>7. RowInv(i)'
  BY <1>1, <1>5, <1>6, PicturesStay DEF IInv, RowInv
<1>8. DownloadInv(i)'
  BY <1>1, <1>2, <1>5, DownloadStays DEF IInv
<1> QED
  BY <1>1, <1>2, <1>3, <1>4, <1>5, <1>7, <1>8, OneItem DEF IInv

LEMMA RestartKeeps ==
  ASSUME IInv, Restart
  PROVE  IInv'
<1>1. UNCHANGED <<twins, mounted, used, away, share, local, clash>>
  BY DEF Restart, world, files
<1>2. Still /\ DiskInv'
  BY <1>1, FilesStay
<1>3. WorldInv'
  BY <1>1, TroubleTyped DEF Restart, IInv, WorldInv
<1>4. NoDownload \in Downloads /\ NoDownload.at = "idle"
  BY DEF NoDownload, Downloads
<1>5. /\ download' \in [Items -> Downloads]
      /\ \A i \in Items : download'[i].at = "idle"
  BY <1>4 DEF Restart
<1>6. ASSUME NEW i \in Items
      PROVE  /\ row'[i] \in Rows
             /\ row[i].status = "downloading" => row'[i].status = "queued"
             /\ row[i].status # "downloading" => row'[i].status = row[i].status
             /\ row'[i].path = row[i].path /\ row'[i].hash = row[i].hash
  BY DEF Restart, IInv, Rows
<1>7. row' \in [Items -> Rows]
  BY <1>6 DEF Restart
<1>8. ASSUME NEW i \in Items PROVE RowInv(i)' /\ DownloadInv(i)'
  <2>1. RowInv(i)
    BY DEF IInv
  <2>2. Picture(i)' = Picture(i)
    BY <1>1, PicturesStay
  <2>3. RowInv(i)'
    BY <1>1, <1>2, <1>6, <2>1, <2>2 DEF RowInv, Still
  <2>4. row'[i].status # "downloading"
    BY <1>6
  <2> QED
    BY <1>5, <2>3, <2>4 DEF DownloadInv, Placed
<1>9. BacklogInv'
  BY DEF Restart, NoBacklog, BacklogInv, Backlogs
<1>10. VerifyInv'
  BY DEF Restart, NoVerify, VerifyInv, Verifies
<1> QED
  BY <1>2, <1>3, <1>5, <1>7, <1>8, <1>9, <1>10 DEF IInv

-----------------------------------------------------------------------------
(* The steps of a download. *)

\* A step that changes the download only.
LEMMA DownloadMoves ==
  ASSUME IInv, NEW i \in Items, NEW d \in Downloads, Becomes(i, d), Still, WorldInv', DiskInv',
         row' = row, backlog' = backlog, verify' = verify,
         d.at # "idle", download[i].at # "idle",
         d.at \in Placed =>
           /\ d.path \in PathsOf(i)
           /\ d.hash \in Content
           /\ ~clash' => d.hash.picture = Picture(i)
           /\ Unspoilt' => d.path \in DOMAIN share',
         d.at = "linking" => d.twin \in Paths /\ (~clash' => Picture(d.twin.item) = Picture(i))
  PROVE  IInv'
<1>1. /\ download' \in [Items -> Downloads]
      /\ download'[i] = d
      /\ \A j \in Items \ {i} : download'[j] = download[j]
  BY DEF Becomes, IInv
<1>2. RowInv(i)'
  BY RowStays DEF IInv
<1>3. Picture(i)' = Picture(i) /\ Picture(d.twin.item)' = Picture(d.twin.item)
  BY PicturesStay DEF Still
<1>4. row[i].status = "downloading"
  BY DEF IInv, DownloadInv
<1>5. DownloadInv(i)'
  BY <1>1, <1>3, <1>4 DEF DownloadInv, PathsOf, Placed
<1>6. BacklogInv' /\ VerifyInv'
  BY BacklogStays, VerifyStays DEF IInv
<1> QED
  BY <1>1, <1>2, <1>5, <1>6, OneItem DEF IInv

LEMMA BeginKeeps ==
  ASSUME IInv, NEW i \in Items, Begin(i)
  PROVE  IInv'
<1> DEFINE d == [NoDownload EXCEPT !.at = "fetching"]
<1>1. /\ UNCHANGED <<twins, mounted, away, share, local, backlog, verify, info, troubles, clash>>
      /\ used' = used \cup {mounted}
      /\ row[i].status = "queued"
      /\ row' = [row EXCEPT ![i] = [row[i] EXCEPT !.status = "downloading"]]
      /\ Becomes(i, d)
  BY DEF Begin, files, checks
<1>2. d \in Downloads /\ d.at = "fetching"
  BY DEF NoDownload, Downloads
<1> HIDE DEF d
<1>3. Still /\ DiskInv'
  BY <1>1, FilesStay
<1>4. WorldInv'
  BY <1>1 DEF IInv, WorldInv
<1>5. BacklogInv' /\ VerifyInv'
  BY <1>1, <1>3, BacklogStays, VerifyStays DEF IInv
<1>6. /\ row' \in [Items -> Rows]
      /\ row'[i].status = "downloading" /\ row'[i].path = row[i].path /\ row'[i].hash = row[i].hash
      /\ \A j \in Items \ {i} : row'[j] = row[j]
  BY <1>1 DEF IInv, Rows
<1>7. /\ download' \in [Items -> Downloads]
      /\ download'[i].at = "fetching"
      /\ \A j \in Items \ {i} : download'[j] = download[j]
  BY <1>1, <1>2 DEF Becomes, IInv
<1>8. Unspoilt' => row[i].path = None
  BY <1>1, <1>3 DEF IInv, RowInv, Still
<1>9. RowInv(i)'
  BY <1>1, <1>6, <1>8, PicturesStay DEF IInv, RowInv
<1>10. DownloadInv(i)'
  BY <1>6, <1>7 DEF DownloadInv, Placed
<1> QED
  BY <1>3, <1>4, <1>5, <1>6, <1>7, <1>9, <1>10, OneItem

LEMMA FreePathIsOwn ==
  ASSUME NEW i \in Items, \E n \in 1 .. MaxNames : ~Exists([item |-> i, number |-> n])
  PROVE  FreePath(i) \in PathsOf(i)
<1> DEFINE Free(n) == ~Exists([item |-> i, number |-> n])
           S == {n \in 1 .. MaxNames : Free(n)}
<1>1. S \subseteq Nat /\ S # {} /\ MaxNames \in Nat
  BY LibraryAssumption DEF LibraryAssumption
<1>2. \E x \in S : \A y \in S : ~(<<y, x>> \in OpToRel(<, Nat))
  <2> HIDE DEF S
  <2> QED
    BY <1>1, NatLessThanWellFounded, WFMin
<1>3. PICK x \in S : \A y \in S : ~(<<y, x>> \in OpToRel(<, Nat))
  BY <1>2
<1>4. \A y \in S : ~(y < x)
  <2> HIDE DEF S
  <2> SUFFICES ASSUME NEW y \in S, y < x PROVE FALSE
    OBVIOUS
  <2>1. <<y, x>> \in Nat \X Nat
    BY <1>1
  <2>2. <<y, x>> \in OpToRel(<, Nat)
    BY <2>1 DEF OpToRel
  <2> QED
    BY <1>3, <2>2
<1>5. x \in 1 .. MaxNames /\ Free(x)
  OBVIOUS
<1> HIDE DEF Free
<1>6. \A k \in 1 .. x - 1 : ~Free(k)
  <2> SUFFICES ASSUME NEW k \in 1 .. x - 1, Free(k) PROVE FALSE
    OBVIOUS
  <2>1. k \in 1 .. MaxNames /\ k < x
    BY <1>1, <1>5
  <2> QED
    BY <2>1, <1>4
<1>7. \E n \in 1 .. MaxNames : Free(n) /\ \A k \in 1 .. n - 1 : ~Free(k)
  BY <1>5, <1>6
<1>8. (CHOOSE n \in 1 .. MaxNames : Free(n) /\ \A k \in 1 .. n - 1 : ~Free(k)) \in 1 .. MaxNames
  BY <1>7
<1>9. FreePath(i).number = (CHOOSE n \in 1 .. MaxNames : Free(n) /\ \A k \in 1 .. n - 1 : ~Free(k))
  BY DEF FreePath, Free
<1> QED
  BY <1>8, <1>9 DEF FreePath, PathsOf, Paths

LEMMA FileKeeps ==
  ASSUME IInv, NEW i \in Items, File(i)
  PROVE  IInv'
<1> DEFINE p == FreePath(i)
           c == [picture |-> Picture(i), tags |-> None]
           d == [[[NoDownload EXCEPT !.at = "filed"] EXCEPT !.path = p] EXCEPT !.hash = c]
<1>1. /\ UNCHANGED <<twins, mounted, away, row, backlog, verify, info, troubles, clash>>
      /\ used' = used \cup {mounted}
      /\ download[i].at = "fetching"
      /\ Write(p, c) /\ Becomes(i, d)
  BY DEF File, checks
<1>2. p \in PathsOf(i)
  BY FreePathIsOwn DEF File
<1>3. p \in Paths /\ p.item = i
  BY <1>2 DEF PathsOf
<1>4. Picture(i) \in Items
  BY DEF Picture
<1>5. c \in Content /\ c.picture = Picture(i)
  BY <1>4 DEF Content
<1> HIDE DEF p, c
<1>6. d \in Downloads /\ d.at = "filed" /\ d.path = p /\ d.hash = c
  BY <1>3, <1>5 DEF NoDownload, Downloads, Placed
<1> HIDE DEF d
<1>7. Still /\ DiskInv' /\ (Unspoilt' => p \in DOMAIN share')
  BY <1>1, <1>3, <1>5, OfWrite
<1>8. WorldInv'
  BY <1>1 DEF IInv, WorldInv
<1> QED
  BY <1>1, <1>2, <1>5, <1>6, <1>7, <1>8, DownloadMoves

\* A run that failed puts its item back into the queue.
LEMMA FileGoneKeeps ==
  ASSUME IInv, NEW i \in Items, FileGone(i)
  PROVE  IInv'
<1>1. /\ UNCHANGED <<twins, mounted, used, away, share, local, backlog, verify, info, troubles, clash>>
      /\ download[i].at = "filed"
      /\ row' = [row EXCEPT ![i] = [row[i] EXCEPT !.status = "queued"]]
      /\ Becomes(i, NoDownload)
  BY DEF FileGone, world, files, checks
<1>2. NoDownload \in Downloads /\ NoDownload.at = "idle"
  BY DEF NoDownload, Downloads
<1>3. Still /\ DiskInv'
  BY <1>1, FilesStay
<1>4. WorldInv'
  BY <1>1 DEF IInv, WorldInv
<1>5. BacklogInv' /\ VerifyInv'
  BY <1>1, <1>3, BacklogStays, VerifyStays DEF IInv
<1>6. /\ row' \in [Items -> Rows]
      /\ row'[i].status = "queued" /\ row'[i].path = row[i].path /\ row'[i].hash = row[i].hash
      /\ \A j \in Items \ {i} : row'[j] = row[j]
  BY <1>1 DEF IInv, Rows
<1>7. /\ download' \in [Items -> Downloads]
      /\ download'[i].at = "idle"
      /\ \A j \in Items \ {i} : download'[j] = download[j]
  BY <1>1, <1>2 DEF Becomes, IInv
<1>8. row[i].status = "downloading"
  BY <1>1 DEF IInv, DownloadInv
<1>9. Unspoilt' => row[i].path = None
  BY <1>3, <1>8 DEF IInv, RowInv, Still
<1>10. RowInv(i)'
  BY <1>1, <1>6, <1>9, PicturesStay DEF IInv, RowInv
<1>11. DownloadInv(i)'
  BY <1>6, <1>7 DEF DownloadInv, Placed
<1> QED
  BY <1>3, <1>4, <1>5, <1>6, <1>7, <1>10, <1>11, OneItem

\* Embedding, and what follows it, of a file that is in its place.
LEMMA PlacedFacts ==
  ASSUME IInv, NEW i \in Items, download[i].at \in Placed
  PROVE  /\ download[i] \in Downloads /\ download[i].at # "idle"
         /\ download[i].path \in PathsOf(i) /\ download[i].path \in Paths /\ download[i].path.item = i
         /\ download[i].hash \in Content
         /\ ~clash => download[i].hash.picture = Picture(i)
         /\ Unspoilt => download[i].path \in DOMAIN share
BY DEF IInv, DownloadInv, PathsOf, Placed

LEMMA StartEmbeddingKeeps ==
  ASSUME IInv, NEW i \in Items, StartEmbedding(i) \/ NotEmbedded(i)
  PROVE  IInv'
<1>1. /\ UNCHANGED <<twins, mounted, used, away, share, local, row, backlog, verify, info, troubles>>
      /\ download[i].at \in {"filed", "embedding"}
      /\ clash => clash' /\ clash' \in BOOLEAN
  BY DEF StartEmbedding, NotEmbedded, world, files, checks, IInv, WorldInv
<1>2. PICK a \in {"embedding", "done"} : Becomes(i, [download[i] EXCEPT !.at = a])
  BY DEF StartEmbedding, NotEmbedded
<1> DEFINE d == [download[i] EXCEPT !.at = a]
<1>3. /\ download[i] \in Downloads /\ download[i].at # "idle"
      /\ download[i].path \in PathsOf(i) /\ download[i].hash \in Content
      /\ ~clash => download[i].hash.picture = Picture(i)
      /\ Unspoilt => download[i].path \in DOMAIN share
  BY <1>1, PlacedFacts DEF Placed
<1>4. d \in Downloads /\ d.at = a /\ d.path = download[i].path /\ d.hash = download[i].hash
  BY <1>3 DEF Downloads, Placed
<1>5. Becomes(i, d)
  BY <1>2
<1> HIDE DEF d
<1>6. Still /\ DiskInv'
  BY <1>1, FilesStay
<1>7. WorldInv'
  BY <1>1 DEF IInv, WorldInv, StartEmbedding, NotEmbedded
<1> QED
  BY <1>1, <1>3, <1>4, <1>5, <1>6, <1>7, DownloadMoves DEF Still

LEMMA EmbeddedKeeps ==
  ASSUME IInv, NEW i \in Items, Embedded(i)
  PROVE  IInv'
<1> DEFINE p == download[i].path
<1>1. /\ UNCHANGED <<twins, mounted, used, away, row, backlog, verify, info, troubles, clash>>
      /\ download[i].at = "embedding"
      /\ Exists(p)
  BY DEF Embedded, world, checks
<1>2. PICK c \in Rewritten(i, p) :
        Write(p, c) /\ Becomes(i, [download[i] EXCEPT !.at = "done", !.hash = c, !.embedded = TRUE])
  BY DEF Embedded
<1> DEFINE d == [[[download[i] EXCEPT !.at = "done"] EXCEPT !.hash = c] EXCEPT !.embedded = TRUE]
<1>3. /\ download[i] \in Downloads /\ download[i].at # "idle"
      /\ p \in PathsOf(i) /\ p \in Paths /\ p.item = i
  BY <1>1, PlacedFacts DEF Placed
<1>4. c \in Content /\ (~clash => c.picture = Picture(i))
  BY <1>1, <1>2, <1>3, OfRewritten
<1>5. d \in Downloads /\ d.at = "done" /\ d.path = p /\ d.hash = c
  BY <1>3, <1>4 DEF Downloads, Placed
<1>6. Becomes(i, d)
  BY <1>2
<1> HIDE DEF d, p
<1>7. Still /\ DiskInv' /\ (Unspoilt' => p \in DOMAIN share')
  BY <1>1, <1>2, <1>3, <1>4, OfWrite
<1>8. WorldInv'
  BY <1>1 DEF IInv, WorldInv
<1> QED
  BY <1>1, <1>3, <1>4, <1>5, <1>6, <1>7, <1>8, DownloadMoves

\* A twin has the picture of what was downloaded.
LEMMA LookForTwinKeeps ==
  ASSUME IInv, NEW i \in Items, LookForTwin(i)
  PROVE  IInv'
<1>1. /\ UNCHANGED <<twins, mounted, used, away, share, local, row, backlog, verify, info, troubles, clash>>
      /\ download[i].at = "done"
  BY DEF LookForTwin, world, files, checks
<1>2. Still /\ DiskInv'
  BY <1>1, FilesStay
<1>3. WorldInv'
  BY <1>1 DEF IInv, WorldInv
<1>4. /\ download[i] \in Downloads /\ download[i].at # "idle"
      /\ download[i].path \in PathsOf(i) /\ download[i].hash \in Content
      /\ ~clash => download[i].hash.picture = Picture(i)
      /\ Unspoilt => download[i].path \in DOMAIN share
  BY <1>1, PlacedFacts DEF Placed
<1>5. CASE TwinsOf(i) = {}
  <2> DEFINE d == [download[i] EXCEPT !.at = "recording"]
  <2>1. Becomes(i, d)
    BY <1>5 DEF LookForTwin
  <2>2. d \in Downloads /\ d.at = "recording" /\ d.path = download[i].path /\ d.hash = download[i].hash
    BY <1>4 DEF Downloads, Placed
  <2> HIDE DEF d
  <2> QED
    BY <1>1, <1>2, <1>3, <1>4, <2>1, <2>2, DownloadMoves DEF Still
<1>6. CASE TwinsOf(i) # {}
  <2>1. PICK j \in TwinsOf(i) :
          Becomes(i, [download[i] EXCEPT !.at = "linking", !.twin = row[j].path])
    BY <1>6 DEF LookForTwin
  <2>2. j \in Items /\ row[j].status = "completed" /\ row[j].hash = download[i].hash
    BY DEF TwinsOf
  <2>3. row[j].path \in Paths /\ row[j].path.item = j /\ (~clash => row[j].hash.picture = Picture(j))
    BY <2>2, <1>4 DEF IInv, RowInv
  <2> DEFINE d == [[download[i] EXCEPT !.at = "linking"] EXCEPT !.twin = row[j].path]
  <2>4. Becomes(i, d)
    BY <2>1
  <2>5. /\ d \in Downloads /\ d.at = "linking" /\ d.path = download[i].path /\ d.hash = download[i].hash
        /\ d.twin = row[j].path
    BY <1>4, <2>3 DEF Downloads, Placed
  <2>6. ~clash' => Picture(d.twin.item) = Picture(i)
    BY <1>1, <1>4, <2>2, <2>3, <2>5
  <2> HIDE DEF d
  <2> QED
    BY <1>1, <1>2, <1>3, <1>4, <2>3, <2>4, <2>5, <2>6, DownloadMoves DEF Still
<1> QED
  BY <1>5, <1>6

LEMMA LinkKeeps ==
  ASSUME IInv, NEW i \in Items, Link(i)
  PROVE  IInv'
<1> DEFINE p == download[i].path
           q == download[i].twin
           d == [[download[i] EXCEPT !.at = "recording"] EXCEPT !.twin = None]
<1>1. /\ UNCHANGED <<twins, mounted, used, away, row, backlog, verify, info, troubles, clash>>
      /\ download[i].at = "linking"
      /\ Becomes(i, d)
  BY DEF Link, world, checks
<1>2. /\ download[i] \in Downloads /\ download[i].at # "idle"
      /\ p \in PathsOf(i) /\ p \in Paths /\ p.item = i
      /\ download[i].hash \in Content
      /\ ~clash => download[i].hash.picture = Picture(i)
      /\ Unspoilt => p \in DOMAIN share
  BY <1>1, PlacedFacts DEF Placed
<1>3. q \in Paths /\ (~clash => Picture(q.item) = Picture(i))
  BY <1>1 DEF IInv, DownloadInv
<1>4. d \in Downloads /\ d.at = "recording" /\ d.path = p /\ d.hash = download[i].hash
  BY <1>2 DEF Downloads, Placed
<1>5. WorldInv'
  BY <1>1 DEF IInv, WorldInv
<1>6. Still /\ DiskInv'
  <2>1. CASE Exists(p) /\ Exists(q)
    <3>1. Disk[q] \in Content /\ (~clash => Disk[q].picture = Picture(q.item))
      BY <2>1, OnDisk
    <3>2. Write(p, Disk[q])
      BY <2>1 DEF Link
    <3>3. ~clash => Disk[q].picture = Picture(p.item)
      BY <1>2, <1>3, <3>1
    <3> HIDE DEF p, q, d
    <3> QED
      BY <1>1, <1>2, <2>1, <3>1, <3>2, <3>3, OfWrite
  <2>2. CASE ~(Exists(p) /\ Exists(q))
    <3>1. UNCHANGED files
      BY <2>2 DEF Link
    <3> QED
      BY <1>1, <3>1, FilesStay DEF files
  <2> QED
    BY <2>1, <2>2
<1> HIDE DEF d
<1> QED
  BY <1>1, <1>2, <1>4, <1>5, <1>6, DownloadMoves DEF Still

LEMMA RecordKeeps ==
  ASSUME IInv, NEW i \in Items, Record(i)
  PROVE  IInv'
<1> DEFINE r == [status |-> "completed", path |-> download[i].path,
                 hash |-> download[i].hash, embedded |-> download[i].embedded]
<1>1. /\ UNCHANGED <<twins, mounted, used, away, share, local, backlog, verify, info, troubles, clash>>
      /\ download[i].at = "recording"
      /\ row' = [row EXCEPT ![i] = r]
      /\ Becomes(i, NoDownload)
  BY DEF Record, world, files, checks
<1>2. NoDownload \in Downloads /\ NoDownload.at = "idle"
  BY DEF NoDownload, Downloads
<1>3. /\ download[i] \in Downloads
      /\ download[i].path \in Paths /\ download[i].path.item = i
      /\ download[i].hash \in Content
      /\ ~clash => download[i].hash.picture = Picture(i)
      /\ Unspoilt => download[i].path \in DOMAIN share
  BY <1>1, PlacedFacts DEF Placed
<1>4. /\ r \in Rows /\ r.status = "completed" /\ r.path = download[i].path /\ r.hash = download[i].hash
  BY <1>3 DEF Rows, Downloads
<1> HIDE DEF r
<1>5. Still /\ DiskInv'
  BY <1>1, FilesStay
<1>6. WorldInv'
  BY <1>1 DEF IInv, WorldInv
<1>7. BacklogInv' /\ VerifyInv'
  BY <1>1, <1>5, BacklogStays, VerifyStays DEF IInv
<1>8. /\ row' \in [Items -> Rows] /\ row'[i] = r
      /\ \A j \in Items \ {i} : row'[j] = row[j]
  BY <1>1, <1>4 DEF IInv
<1>9. /\ download' \in [Items -> Downloads]
      /\ download'[i].at = "idle"
      /\ \A j \in Items \ {i} : download'[j] = download[j]
  BY <1>1, <1>2 DEF Becomes, IInv
<1>10. RowInv(i)'
  BY <1>1, <1>3, <1>4, <1>5, <1>8, PicturesStay DEF RowInv, Still
<1>11. DownloadInv(i)'
  BY <1>4, <1>8, <1>9 DEF DownloadInv, Placed
<1> QED
  BY <1>5, <1>6, <1>7, <1>8, <1>9, <1>10, <1>11, OneItem

-----------------------------------------------------------------------------
(* The steps of the tasks. *)

LEMMA BacklogMoves ==
  ASSUME IInv, backlog' \in Backlogs, Still, WorldInv', DiskInv',
         UNCHANGED <<row, download, verify>>,
         \A c \in backlog'.todo : c.path.item = c.item,
         backlog'.at \in {"embedding", "saving"} =>
           backlog'.item \in Items /\ backlog'.path \in PathsOf(backlog'.item),
         backlog'.at = "saving" =>
           backlog'.hash \in Content /\ (~clash' => backlog'.hash.picture = Picture(backlog'.item))
  PROVE  IInv'
<1>1. Picture(backlog'.item) = Picture(backlog.item)'
  BY DEF Still, Picture
<1>2. BacklogInv'
  BY <1>1 DEF BacklogInv, PathsOf
<1>3. VerifyInv'
  BY VerifyStays DEF IInv
<1> QED
  BY <1>2, <1>3, NoItem

LEMMA StartBacklogKeeps ==
  ASSUME IInv, StartBacklog
  PROVE  IInv'
<1> DEFINE todo == {[item |-> i, path |-> row[i].path] :
                      i \in {j \in Items : row[j].status = "completed" /\ ~row[j].embedded}}
<1>1. /\ UNCHANGED <<twins, mounted, used, away, share, local, row, download, verify, info, clash>>
      /\ backlog' = [[NoBacklog EXCEPT !.at = "next"] EXCEPT !.todo = todo]
  BY DEF StartBacklog, world, files, checks
<1>2. \A i \in Items : row[i].status = "completed" => row[i].path \in Paths /\ row[i].path.item = i
  BY DEF IInv, RowInv
<1>3. todo \in SUBSET [item : Items, path : Paths] /\ \A c \in todo : c.path.item = c.item
  BY <1>2
<1> HIDE DEF todo
<1>4. backlog' \in Backlogs /\ backlog'.at = "next" /\ backlog'.todo = todo
  BY <1>1, <1>3 DEF NoBacklog, Backlogs
<1>5. Still /\ DiskInv'
  BY <1>1, FilesStay
<1>6. WorldInv'
  BY <1>1, TroubleTyped DEF StartBacklog, IInv, WorldInv
<1> QED
  BY <1>1, <1>3, <1>4, <1>5, <1>6, BacklogMoves

LEMMA NextInBacklogKeeps ==
  ASSUME IInv, NEW c \in backlog.todo, NextInBacklog(c)
  PROVE  IInv'
<1> DEFINE rest == [backlog EXCEPT !.todo = backlog.todo \ {c}]
<1>1. /\ UNCHANGED <<twins, mounted, used, away, share, local, row, download, verify, info, troubles>>
      /\ clash => clash' /\ clash' \in BOOLEAN
      /\ backlog.at = "next"
  BY DEF NextInBacklog, world, files, checks, IInv, WorldInv
<1>2. /\ backlog \in Backlogs /\ c \in [item : Items, path : Paths] /\ c.path.item = c.item
      /\ \A b \in backlog.todo : b.path.item = b.item
  BY DEF IInv, BacklogInv, Backlogs
<1>3. rest \in Backlogs /\ rest.at = "next" /\ rest.todo \subseteq backlog.todo
  BY <1>1, <1>2 DEF Backlogs
<1> HIDE DEF rest
<1>4. Still /\ DiskInv'
  BY <1>1, FilesStay
<1>5. WorldInv'
  BY <1>1 DEF NextInBacklog, IInv, WorldInv
<1>6. CASE Exists(c.path)
  <2>1. backlog' = [[[rest EXCEPT !.at = "embedding"] EXCEPT !.item = c.item] EXCEPT !.path = c.path]
    BY <1>6 DEF NextInBacklog, rest
  <2>2. /\ backlog' \in Backlogs /\ backlog'.at = "embedding" /\ backlog'.todo = rest.todo
        /\ backlog'.item = c.item /\ backlog'.path = c.path
    BY <2>1, <1>2, <1>3 DEF Backlogs
  <2>3. c.item \in Items /\ c.path \in PathsOf(c.item)
    BY <1>2 DEF PathsOf
  <2> QED
    BY <1>1, <1>2, <1>3, <1>4, <1>5, <2>2, <2>3, BacklogMoves
<1>7. CASE ~Exists(c.path)
  <2>1. backlog' = rest
    BY <1>7 DEF NextInBacklog, rest
  <2> QED
    BY <1>1, <1>2, <1>3, <1>4, <1>5, <2>1, BacklogMoves
<1> QED
  BY <1>6, <1>7

LEMMA BacklogEmbeddedKeeps ==
  ASSUME IInv, BacklogEmbedded
  PROVE  IInv'
<1> DEFINE i == backlog.item
           p == backlog.path
<1>1. /\ UNCHANGED <<twins, mounted, used, away, row, download, verify, info, troubles, clash>>
      /\ backlog.at = "embedding"
      /\ Exists(p)
  BY DEF BacklogEmbedded, world, checks
<1>2. PICK c \in Rewritten(i, p) :
        Write(p, c) /\ backlog' = [[backlog EXCEPT !.at = "saving"] EXCEPT !.hash = c]
  BY DEF BacklogEmbedded
<1>3. /\ backlog \in Backlogs /\ i \in Items /\ p \in PathsOf(i) /\ p \in Paths /\ p.item = i
      /\ \A b \in backlog.todo : b.path.item = b.item
  BY <1>1 DEF IInv, BacklogInv, PathsOf
<1>4. c \in Content /\ (~clash => c.picture = Picture(i))
  BY <1>1, <1>2, <1>3, OfRewritten
<1>5. /\ backlog' \in Backlogs /\ backlog'.at = "saving" /\ backlog'.todo = backlog.todo
      /\ backlog'.item = i /\ backlog'.path = p /\ backlog'.hash = c
  BY <1>2, <1>3, <1>4 DEF Backlogs
<1> HIDE DEF i, p
<1>6. Still /\ DiskInv'
  BY <1>1, <1>2, <1>3, <1>4, OfWrite
<1>7. WorldInv'
  BY <1>1 DEF IInv, WorldInv
<1> QED
  BY <1>1, <1>3, <1>4, <1>5, <1>6, <1>7, BacklogMoves

LEMMA BacklogGoesOn ==
  ASSUME IInv, BacklogNotEmbedded \/ EndBacklog
  PROVE  IInv'
<1>1. UNCHANGED <<twins, mounted, used, away, share, local, row, download, verify, info, troubles, clash>>
  BY DEF BacklogNotEmbedded, EndBacklog, world, files, checks
<1>2. backlog \in Backlogs /\ \A b \in backlog.todo : b.path.item = b.item
  BY DEF IInv, BacklogInv
<1>3. Still /\ DiskInv'
  BY <1>1, FilesStay
<1>4. WorldInv'
  BY <1>1 DEF IInv, WorldInv
<1>5. backlog' \in Backlogs /\ backlog'.at \in {"next", "idle"} /\ backlog'.todo \subseteq backlog.todo
  <2>1. CASE BacklogNotEmbedded
    <3>1. backlog' = [[[backlog EXCEPT !.at = "next"] EXCEPT !.item = None] EXCEPT !.path = None]
      BY <2>1 DEF BacklogNotEmbedded
    <3> QED
      BY <1>2, <3>1 DEF Backlogs
  <2>2. CASE EndBacklog
    BY <2>2 DEF EndBacklog, NoBacklog, Backlogs
  <2> QED
    BY <2>1, <2>2
<1> QED
  BY <1>1, <1>2, <1>3, <1>4, <1>5, BacklogMoves

LEMMA BacklogSavedKeeps ==
  ASSUME IInv, BacklogSaved
  PROVE  IInv'
<1>0. backlog.item \in Items
  BY DEF BacklogSaved, IInv, BacklogInv
<1> PICK i \in Items : i = backlog.item
  BY <1>0
<1> DEFINE r == [[row[i] EXCEPT !.hash = backlog.hash] EXCEPT !.embedded = TRUE]
<1>1. /\ UNCHANGED <<twins, mounted, used, away, share, local, download, verify, info, troubles, clash>>
      /\ backlog.at = "saving"
      /\ backlog' = [[[[backlog EXCEPT !.at = "next"] EXCEPT !.item = None] EXCEPT !.path = None]
                       EXCEPT !.hash = None]
  BY DEF BacklogSaved, world, files, checks
<1>2. /\ backlog \in Backlogs /\ i \in Items /\ backlog.hash \in Content
      /\ ~clash => backlog.hash.picture = Picture(i)
      /\ \A b \in backlog.todo : b.path.item = b.item
  BY <1>1 DEF IInv, BacklogInv
<1>3. row[i] \in Rows /\ row' = [row EXCEPT ![i] = r]
  BY <1>2 DEF BacklogSaved, IInv
<1>4. /\ r \in Rows /\ r.status = row[i].status /\ r.path = row[i].path /\ r.hash = backlog.hash
  BY <1>2, <1>3 DEF Rows
<1>5. backlog' \in Backlogs /\ backlog'.at = "next" /\ backlog'.todo = backlog.todo
  BY <1>1, <1>2 DEF Backlogs
<1> HIDE DEF r
<1>6. Still /\ DiskInv'
  BY <1>1, FilesStay
<1>7. WorldInv'
  BY <1>1 DEF IInv, WorldInv
<1>8. BacklogInv'
  BY <1>2, <1>5 DEF BacklogInv
<1>9. VerifyInv'
  BY <1>1, <1>6, VerifyStays DEF IInv
<1>10. /\ row' \in [Items -> Rows] /\ row'[i] = r
       /\ \A j \in Items \ {i} : row'[j] = row[j]
  BY <1>2, <1>3, <1>4 DEF IInv
<1>11. RowInv(i)
  BY <1>2 DEF IInv
<1>12. RowInv(i)'
  BY <1>1, <1>2, <1>4, <1>6, <1>10, <1>11, PicturesStay DEF RowInv, Still
<1>13. DownloadInv(i)'
  BY <1>1, <1>2, <1>4, <1>6, <1>10, DownloadStays DEF IInv
<1> QED
  BY <1>1, <1>2, <1>6, <1>7, <1>8, <1>9, <1>10, <1>12, <1>13, OneItem DEF IInv

\* A step that changes neither files nor downloads, but the checks.
LEMMA VerifyMoves ==
  ASSUME IInv, UNCHANGED <<world, files, row, download, backlog, clash>>, VerifyInv',
         info' \in Runs \cup {None}, troubles' \in 0 .. MaxTroubles
  PROVE  IInv'
<1>1. UNCHANGED <<twins, mounted, used, away, share, local>>
  BY DEF world, files
<1>2. Still /\ DiskInv'
  BY <1>1, FilesStay
<1>3. WorldInv'
  BY <1>1 DEF IInv, WorldInv
<1>4. BacklogInv'
  BY <1>2, BacklogStays DEF IInv
<1> QED
  BY <1>2, <1>3, <1>4, NoItem

LEMMA RegisterKeeps ==
  ASSUME IInv, Register
  PROVE  IInv'
<1>1. UNCHANGED Unspoilt /\ VerifyInv
  BY DEF Register, world, Unspoilt, IInv
<1>2. VerifyInv'
  BY <1>1 DEF Register, VerifyInv
<1>3. troubles' \in 0 .. MaxTroubles
  BY TroubleTyped DEF Register, IInv
<1> QED
  BY <1>2, <1>3, VerifyMoves DEF Register

\* A look at an unspoilt library finds nothing gone: everything is on the share,
\* or what is looked at is an empty folder.
LEMMA NothingIsGone ==
  ASSUME IInv, Unspoilt, ~RootUnavailable
  PROVE  {i \in Archived : row[i].status = "completed"} \ Present = {}
<1>1. mounted \in used /\ mounted \in BOOLEAN
  BY DEF RootUnavailable, IInv, WorldInv
<1>2. mounted
  BY <1>1 DEF Unspoilt
<1>3. ASSUME NEW i \in Archived, row[i].status = "completed" PROVE i \in Present
  <2>1. i \in Items /\ row[i].path \in Paths /\ row[i].path # None
    BY <1>3, NoneIsNone DEF Archived, IInv, RowInv
  <2>2. row[i].path \in DOMAIN share
    BY <2>1 DEF IInv, RowInv
  <2> QED
    BY <1>2, <2>2 DEF Present, Exists, Disk
<1> QED
  BY <1>3

LEMMA LookKeeps ==
  ASSUME IInv, NEW v \in Runs, Look(v)
  PROVE  IInv'
<1> DEFINE empty == [NoVerify EXCEPT !.at = "applying"]
           gone == {i \in Archived : row[i].status = "completed"} \ Present
           seen == [at |-> "applying", gone |-> gone,
                    back |-> {i \in Present : row[i].status = "missing"}, blind |-> ~mounted]
           new == IF RootUnavailable THEN empty ELSE seen
<1>1. /\ UNCHANGED <<world, files, row, download, backlog, troubles, clash>>
      /\ verify' = [verify EXCEPT ![v] = new] /\ info' = v
  BY DEF Look
<1>2. empty \in Verifies /\ empty.gone = {}
  BY DEF NoVerify, Verifies
<1>3. seen \in Verifies /\ seen.gone = gone
  BY DEF Verifies, Archived, Present, IInv, WorldInv
<1>4. Unspoilt /\ ~RootUnavailable => gone = {}
  BY NothingIsGone
<1> HIDE DEF empty, gone, seen
<1>5. new \in Verifies /\ (Unspoilt => new.gone = {})
  BY <1>2, <1>3, <1>4
<1> HIDE DEF new
<1>6. Unspoilt' <=> Unspoilt
  BY <1>1 DEF world, Unspoilt
<1>7. VerifyInv'
  BY <1>1, <1>5, <1>6 DEF IInv, VerifyInv
<1> QED
  BY <1>1, <1>7, VerifyMoves DEF IInv, WorldInv

LEMMA EndVerifyKeeps ==
  ASSUME IInv, NEW v \in Runs, EndVerify(v)
  PROVE  IInv'
<1>1. /\ UNCHANGED <<world, files, row, download, backlog, troubles, clash>>
      /\ verify' = [verify EXCEPT ![v] = NoVerify] /\ info' \in {info, None}
  BY DEF EndVerify
<1>2. NoVerify \in Verifies /\ NoVerify.gone = {}
  BY DEF NoVerify, Verifies
<1>3. Unspoilt' <=> Unspoilt
  BY <1>1 DEF world, Unspoilt
<1>4. VerifyInv'
  BY <1>1, <1>2, <1>3 DEF IInv, VerifyInv
<1> QED
  BY <1>1, <1>4, VerifyMoves DEF IInv, WorldInv

\* A mark changes a status only of a row whose file was looked for.
LEMMA MarkKeeps ==
  ASSUME IInv, NEW v \in Runs, NEW i \in Items, MarkMissing(v, i) \/ MarkFound(v, i)
  PROVE  IInv'
<1>1. UNCHANGED <<twins, mounted, used, away, share, local, download, backlog, info, troubles, clash>>
  BY DEF MarkMissing, MarkFound, world, files
<1>2. Still /\ DiskInv'
  BY <1>1, FilesStay
<1>3. WorldInv'
  BY <1>1 DEF IInv, WorldInv
<1>4. BacklogInv'
  BY <1>1, <1>2, BacklogStays DEF IInv
<1>5. verify[v] \in Verifies /\ verify[v].gone \subseteq Items /\ verify[v].back \subseteq Items
  BY DEF IInv, VerifyInv, Verifies
<1>6. PICK w \in Verifies : verify' = [verify EXCEPT ![v] = w] /\ w.gone \subseteq verify[v].gone
  <2>1. CASE MarkMissing(v, i)
    <3> DEFINE w == [verify[v] EXCEPT !.gone = verify[v].gone \ {i}]
    <3>1. verify' = [verify EXCEPT ![v] = w]
      BY <2>1 DEF MarkMissing, IInv, VerifyInv
    <3>2. w \in Verifies /\ w.gone \subseteq verify[v].gone
      BY <1>5 DEF Verifies
    <3> HIDE DEF w
    <3> QED
      BY <3>1, <3>2
  <2>2. CASE MarkFound(v, i)
    <3> DEFINE w == [verify[v] EXCEPT !.back = verify[v].back \ {i}]
    <3>1. verify' = [verify EXCEPT ![v] = w]
      BY <2>2 DEF MarkFound, IInv, VerifyInv
    <3>2. w \in Verifies /\ w.gone \subseteq verify[v].gone
      BY <1>5 DEF Verifies
    <3> HIDE DEF w
    <3> QED
      BY <3>1, <3>2
  <2> QED
    BY <2>1, <2>2
<1>7. Unspoilt' => verify[v].gone = {}
  BY <1>2 DEF Still, IInv, VerifyInv
<1>8. VerifyInv'
  BY <1>2, <1>6, <1>7 DEF Still, IInv, VerifyInv
<1>9. CASE row' = row
  BY <1>1, <1>2, <1>3, <1>4, <1>8, <1>9, NoItem
<1>10. ASSUME NEW s \in {"completed", "missing", "queued"}, row' = [row EXCEPT ![i] = [row[i] EXCEPT !.status = s]],
              row[i].status \in {"completed", "missing"}, ~Unspoilt'
       PROVE  IInv'
  <2>1. row[i] \in Rows
    BY DEF IInv
  <2>2. /\ [row[i] EXCEPT !.status = s] \in Rows
        /\ [row[i] EXCEPT !.status = s].status = s
        /\ [row[i] EXCEPT !.status = s].path = row[i].path
        /\ [row[i] EXCEPT !.status = s].hash = row[i].hash
    BY <2>1 DEF Rows
  <2>3. /\ row' \in [Items -> Rows]
        /\ row'[i].status = s /\ row'[i].path = row[i].path /\ row'[i].hash = row[i].hash
        /\ \A j \in Items \ {i} : row'[j] = row[j]
    BY <1>10, <2>2 DEF IInv
  <2>4. row[i].path \in Paths /\ RowInv(i)
    BY <1>10 DEF IInv, RowInv
  <2>5. RowInv(i)'
    BY <1>1, <1>10, <2>3, <2>4, PicturesStay DEF RowInv
  <2>6. DownloadInv(i)'
    BY <1>1, <1>2, <1>10, <2>3, DownloadStays DEF IInv
  <2> QED
    BY <1>1, <1>2, <1>3, <1>4, <1>8, <2>3, <2>5, <2>6, OneItem DEF IInv
<1>11. CASE MarkMissing(v, i) /\ row' # row
  <2>1. PICK s \in {"missing", "queued"} : row' = [row EXCEPT ![i] = [row[i] EXCEPT !.status = s]]
    BY <1>11 DEF MarkMissing
  <2>2. row[i].status = "completed" /\ i \in verify[v].gone
    BY <1>11 DEF MarkMissing
  <2> QED
    BY <1>7, <1>10, <2>1, <2>2
<1>12. CASE MarkFound(v, i) /\ row' # row
  <2>1. row[i].status = "missing" /\ row' = [row EXCEPT ![i] = [row[i] EXCEPT !.status = "completed"]]
    BY <1>12 DEF MarkFound
  <2>2. ~Unspoilt
    BY <2>1, NoneIsNone DEF IInv, RowInv
  <2> QED
    BY <1>2, <1>10, <2>1, <2>2 DEF Still
<1> QED
  BY <1>9, <1>11, <1>12

-----------------------------------------------------------------------------
LEMMA StepsKeep ==
  IInv /\ [Next]_vars => IInv'
<1> SUFFICES ASSUME IInv, [Next]_vars PROVE IInv'
  OBVIOUS
<1>1. CASE UNCHANGED vars
  <2>1. /\ UNCHANGED <<world, files, row, download, backlog, clash>>
        /\ UNCHANGED <<verify, info, troubles, used, away>>
    BY <1>1 DEF vars, checks, world
  <2>2. VerifyInv'
    BY <2>1 DEF IInv, VerifyInv, Unspoilt
  <2> QED
    BY <2>1, <2>2, VerifyMoves DEF IInv, WorldInv
<1>2. CASE (\E p \in Paths : Remove(p)) \/ Restore \/ Mount \/ Restart
  BY <1>2, RemoveKeeps, RestoreKeeps, MountKeeps, RestartKeeps
<1>3. ASSUME NEW i \in Items, Retry(i) \/ DownloadStep(i)
      PROVE  IInv'
  BY <1>3, RetryKeeps, BeginKeeps, FileKeeps, FileGoneKeeps, StartEmbeddingKeeps, EmbeddedKeeps,
     LookForTwinKeeps, LinkKeeps, RecordKeeps DEF DownloadStep
<1>4. CASE StartBacklog \/ BacklogStep
  BY <1>4, StartBacklogKeeps, NextInBacklogKeeps, BacklogEmbeddedKeeps, BacklogGoesOn, BacklogSavedKeeps
     DEF BacklogStep
<1>5. CASE Register
  BY <1>5, RegisterKeeps
<1>6. ASSUME NEW v \in Runs, Look(v) \/ VerifyStep(v)
      PROVE  IInv'
  BY <1>6, LookKeeps, MarkKeeps, EndVerifyKeeps DEF VerifyStep
<1> QED
  BY <1>1, <1>2, <1>3, <1>4, <1>5, <1>6 DEF Next

\* At every time rows, runs, tasks and files agree on whose picture is where, and
\* of an unspoilt library every row's file is on the share.
THEOREM Invariance == Spec => []IInv
BY StartsEmpty, StepsKeep, PTL DEF Spec

\* Rows, runs and files are of the kinds the code has.
THEOREM TypesHold == Spec => []TypeOK
<1>1. ASSUME IInv, NEW i \in Items
      PROVE  /\ row[i].status \in {"queued", "downloading", "completed", "missing"}
             /\ {row[i].path, download[i].path, download[i].twin} \subseteq Paths \cup {None}
             /\ {row[i].hash, download[i].hash} \subseteq Content \cup {None}
             /\ {row[i].embedded, download[i].embedded} \subseteq BOOLEAN
             /\ download[i].at \in {"idle", "fetching", "filed", "embedding", "done", "linking", "recording"}
             /\ row[i].status = "downloading" <=> download[i].at # "idle"
             /\ row[i].status \in {"completed", "missing"} => row[i].path # None
  <2>1. row[i] \in Rows /\ download[i] \in Downloads /\ RowInv(i) /\ DownloadInv(i)
    BY <1>1 DEF IInv
  <2>2. /\ row[i].status = "downloading" <=> download[i].at # "idle"
        /\ row[i].status \in {"completed", "missing"} => row[i].path # None
    BY <2>1, NoneIsNone DEF RowInv, DownloadInv
  <2> QED
    BY <2>1, <2>2 DEF Rows, Downloads, Placed
<1>2. ASSUME IInv PROVE TypeOK
  <2>1. WorldInv /\ DiskInv /\ BacklogInv /\ VerifyInv
    BY <1>2 DEF IInv
  <2>2. \A disk \in {share, local} : DOMAIN disk \subseteq Paths /\ \A p \in DOMAIN disk : disk[p] \in Content
    BY <2>1 DEF DiskInv, Typed
  <2>3. away \in [path : Paths, content : Content] \cup {None}
    BY <2>1 DEF DiskInv, Copies
  <2>4. backlog.at \in {"idle", "next", "embedding", "saving"} /\ backlog.todo \subseteq [item : Items, path : Paths]
    BY <2>1 DEF BacklogInv, Backlogs
  <2>5. \A v \in Runs : verify[v].at \in {"idle", "applying"} /\ verify[v].gone \cup verify[v].back \subseteq Items
    BY <2>1 DEF VerifyInv, Verifies
  <2> QED
    BY <1>1, <1>2, <2>1, <2>2, <2>3, <2>4, <2>5 DEF TypeOK, WorldInv
<1>3. IInv => TypeOK
  BY <1>2
<1> QED
  BY <1>3, Invariance, PTL

\* Whatever was embedded, linked, removed, restored and downloaded again, the
\* picture of an archived file is its item's, unless two ffmpegs wrote one file.
THEOREM PictureIsAlwaysKept == Spec => []PictureIsKept
<1>1. IInv => PictureIsKept
  <2> SUFFICES ASSUME IInv, ~clash, NEW i \in Items, row[i].status = "completed", Exists(row[i].path)
               PROVE  Disk[row[i].path].picture = Picture(i)
    BY DEF PictureIsKept
  <2>1. row[i].path.item = i
    BY DEF IInv, RowInv
  <2> QED
    BY <2>1, OnDisk
<1> QED
  BY <1>1, Invariance, PTL

\* Whenever the checks look, the share comes and goes or the process dies: what is
\* archived stays so, unless the user removes something or something is downloaded
\* into the folder that the share is to be mounted on.
THEOREM ArchiveAlwaysStays == Spec => []ArchiveStays
<1>1. IInv => ArchiveStays
  BY DEF IInv, RowInv, ArchiveStays, Unspoilt
<1> QED
  BY <1>1, Invariance, PTL

===============================================================================
