-------------------------------- MODULE ScanRun --------------------------------
(***************************************************************************)
(* One scan of one creator (scanner/scanner.py): the sources of its        *)
(* provider are listed page by page, newest post first, and each page is   *)
(* stored in a session of its own.  Between two pages posts are published  *)
(* and edited, the user cancels the scan or deletes the creator, and the   *)
(* process stops or dies.  ScanQueue says which scan runs when; here one   *)
(* starts whenever none runs.  Names that ScanQueue has too say Run here,  *)
(* so that a module can extend both.                                       *)
(*                                                                         *)
(* A post is its place in the order of publication.  An edition is 0 for   *)
(* a post that doesn't exist, 1 as published, 2 as edited.                 *)
(***************************************************************************)
EXTENDS Naturals, Sequences, SequencesExt

CONSTANTS
  NumSources,   \* sources 1..NumSources are listed in this order
  Whole,        \* those a provider fetches whole, then cuts into pages
  NumPosts,     \* bound: posts of the first source
  NumOthers,    \* bound: posts of each other source
  PageSize,
  Overlap,      \* scan.overlap_posts
  MaxEdits,     \* bound
  MaxRestarts,  \* bound
  MaxCreators,  \* bound: creators that may have this id, one after the other
  Absent

Sources == 1 .. NumSources
Posts == 1 .. NumPosts

ASSUME ScanRunAssumption ==
  /\ {NumSources, NumPosts, NumOthers, PageSize, Overlap, MaxCreators} \subseteq Nat \ {0}
  /\ {MaxEdits, MaxRestarts} \subseteq Nat
  /\ NumOthers <= NumPosts
  /\ Whole \subseteq Sources

VARIABLES
  remote,    \* editions the provider lists
  known,     \* editions stored in posts
  creator,   \* which creator has the row with this id; Absent when there is none
  fullDone,  \* creator.last_full_scan_at is set
  run,       \* the last scan_runs row: its status and mode, or Absent
  at,        \* where scan_creator is, "idle" outside of it, "down" while the process is
  scan,      \* its local variables
  cancel,    \* the scan manager's cancel event
  edits, restarts,
  before,    \* history: known when the scan began
  horizon,   \* history: remote when the scan began
  whole,     \* history: a full scan ended well, and no scan was cut short since
  deleted,   \* history: the creator was deleted since the scan began
  foreign    \* history: posts of one creator were stored under another

feed == <<remote, edits>>
rows == <<known, creator, fullDone, run>>
progress == <<at, scan, cancel>>
history == <<before, horizon, whole, deleted, foreign>>
runVars == <<feed, rows, progress, restarts, history>>

Editions == [Sources -> [Posts -> 0 .. 2]]
Nothing == [s \in Sources |-> [p \in Posts |-> 0]]
Entry == [post : Posts, edition : 1 .. 2]
Outcomes == {"ok", "error", "cancelled"}
Scan == [creator : 1 .. MaxCreators \cup {Absent}, mode : {"full", "incremental"}, source : Sources,
         cursor : 1 .. NumPosts + 1, read : BOOLEAN, listing : Seq(Entry), page : Seq(Entry),
         consecutive : Nat, outcome : Outcomes]
NoScan == [creator |-> Absent, mode |-> "full", source |-> 1, cursor |-> NumPosts + 1, read |-> FALSE,
           listing |-> <<>>, page |-> <<>>, consecutive |-> 0, outcome |-> "ok"]

RunTypeOK ==
  /\ {remote, known, before, horizon} \subseteq Editions
  /\ creator \in 1 .. MaxCreators \cup {Absent}
  /\ fullDone \in BOOLEAN
  /\ run \in [status : {"running"} \cup Outcomes, mode : {"full", "incremental"}] \cup {Absent}
  /\ at \in {"idle", "starting", "fetching", "page", "checking", "finishing", "down"}
  /\ scan \in Scan
  /\ {cancel, whole, deleted, foreign} \subseteq BOOLEAN
  /\ edits \in 0 .. MaxEdits
  /\ restarts \in 0 .. MaxRestarts

RunInit ==
  /\ remote = [s \in Sources |-> [p \in Posts |-> IF s = 1 /\ p < NumPosts THEN 1 ELSE 0]]
  /\ known = Nothing
  /\ creator = 1
  /\ fullDone = FALSE
  /\ run = Absent
  /\ at = "idle"
  /\ scan = NoScan
  /\ cancel = FALSE
  /\ edits = 0
  /\ restarts = 0
  /\ before = Nothing
  /\ horizon = Nothing
  /\ whole = FALSE
  /\ deleted = FALSE
  /\ foreign = FALSE

-----------------------------------------------------------------------------
(* What goes on at the provider and in the web interface meanwhile. *)

Publish(s) ==
  \E p \in 1 .. IF s = 1 THEN NumPosts ELSE NumOthers :
    /\ remote[s][p] = 0
    /\ \A q \in 1 .. p - 1 : remote[s][q] # 0
    /\ remote' = [remote EXCEPT ![s][p] = 1]
    /\ UNCHANGED <<edits, rows, progress, restarts, history>>

Edit(s, p) ==
  /\ edits < MaxEdits
  /\ remote[s][p] = 1
  /\ remote' = [remote EXCEPT ![s][p] = 2]
  /\ edits' = edits + 1
  /\ UNCHANGED <<rows, progress, restarts, history>>

\* ScanManager.cancel_current
Cancel ==
  /\ at \notin {"idle", "down"}
  /\ cancel' = TRUE
  /\ UNCHANGED <<feed, rows, at, scan, restarts, history>>

\* delete_creator: the rows of its posts and scan runs go with it.  A scan of
\* it isn't told.
Delete ==
  /\ at # "down"
  /\ creator # Absent
  /\ creator' = Absent
  /\ known' = Nothing
  /\ fullDone' = FALSE
  /\ run' = Absent
  /\ whole' = FALSE
  /\ deleted' = (at # "idle")
  /\ UNCHANGED <<feed, progress, restarts, before, horizon, foreign>>

\* _create_creator when the deleted row had the greatest id: SQLite gives the
\* id again.
Add(c) ==
  /\ at # "down"
  /\ creator = Absent
  /\ creator' = c
  /\ UNCHANGED <<feed, known, fullDone, run, progress, restarts, history>>

-----------------------------------------------------------------------------
(* scan_creator *)

\* Mutant of StartRun: a full scan is made once only.
StartRunFullOnce(asked) ==
  /\ at = "idle"
  /\ creator # Absent
  /\ LET mode == IF fullDone THEN "incremental" ELSE "full"
     IN  /\ run' = [status |-> "running", mode |-> mode]
         /\ scan' = [NoScan EXCEPT !.creator = creator, !.mode = mode]
  /\ at' = "starting"
  /\ cancel' = FALSE
  /\ before' = known
  /\ horizon' = remote
  /\ UNCHANGED <<feed, known, creator, fullDone, restarts, whole, deleted, foreign>>

\* _start_run, in a thread
StartRun(asked) ==
  /\ at = "idle"
  /\ creator # Absent
  /\ LET mode == IF asked # "auto" THEN asked ELSE IF fullDone THEN "incremental" ELSE "full"
     IN  /\ run' = [status |-> "running", mode |-> mode]
         /\ scan' = [NoScan EXCEPT !.creator = creator, !.mode = mode]
  /\ at' = "starting"
  /\ cancel' = FALSE
  /\ before' = known
  /\ horizon' = remote
  /\ UNCHANGED <<feed, known, creator, fullDone, restarts, whole, deleted, foreign>>

Forget == before' = Nothing /\ horizon' = Nothing /\ deleted' = FALSE

\* The effective mode is read from the run's row, which may be gone by now:
\* that raises before anything is closed.
BeginRun ==
  /\ at = "starting"
  /\ \/ run # Absent /\ at' = "fetching" /\ UNCHANGED scan
        /\ UNCHANGED history
     \/ run = Absent /\ at' = "idle" /\ scan' = NoScan
        /\ Forget /\ UNCHANGED <<whole, foreign>>
  /\ UNCHANGED <<feed, rows, cancel, restarts>>

\* The newest post of a source, 0 if it has none
Newest(s) == CHOOSE n \in 0 .. NumPosts : \A p \in Posts : remote[s][p] # 0 <=> p <= n

\* The posts of source s older than the cursor, newest first.
Listing(s, cursor) ==
  LET newest == Min({cursor - 1, Newest(s)})
      Older(i) == newest + 1 - i
  IN  [i \in 1 .. newest |-> [post |-> Older(i), edition |-> remote[s][Older(i)]]]

\* The first PageSize posts of a listing
Cut(listing) == SubSeq(listing, 1, Min({PageSize, Len(listing)}))

\* A page as PatreonClient.iter_posts and OnlyFansClient list it: fetched when
\* it is asked for, from where the last one ended.
FetchPage ==
  /\ at = "fetching"
  /\ scan.source \notin Whole
  /\ LET page == Cut(Listing(scan.source, scan.cursor))
     IN  scan' = [scan EXCEPT !.page = page,
                              !.cursor = IF page = <<>> THEN @ ELSE Last(page).post]
  /\ at' = "page"
  /\ UNCHANGED <<feed, rows, cancel, restarts, history>>

\* YouTube, Instagram and Reddit list a source at once ...
FetchWhole ==
  /\ at = "fetching"
  /\ scan.source \in Whole
  /\ ~scan.read
  /\ scan' = [scan EXCEPT !.listing = Listing(scan.source, NumPosts + 1), !.read = TRUE]
  /\ UNCHANGED <<feed, rows, at, cancel, restarts, history>>

\* ... and yield it in pages.
CutPage ==
  /\ at = "fetching"
  /\ scan.read
  /\ LET page == Cut(scan.listing)
     IN  scan' = [scan EXCEPT !.page = page,
                              !.listing = SubSeq(@, Len(page) + 1, Len(@)),
                              !.cursor = IF page = <<>> THEN @ ELSE Last(page).post]
  /\ at' = "page"
  /\ UNCHANGED <<feed, rows, cancel, restarts, history>>

\* The request fails: a lost session or a challenge (admission is told by
\* mark_auth_invalid), any other error, or a 403, whose session is checked
\* before the run is closed.
FetchFails ==
  /\ at = "fetching"
  /\ at' \in {"finishing", "checking"}
  /\ scan' = [scan EXCEPT !.outcome = "error"]
  /\ UNCHANGED <<feed, rows, cancel, restarts, history>>

Checked ==
  /\ at = "checking"
  /\ at' = "finishing"
  /\ UNCHANGED <<feed, rows, scan, cancel, restarts, history>>

\* _upsert_post finds the post new or changed
Differs(e) == known[scan.source][e.post] # e.edition

\* Mutant of StorePage: a post that is known already isn't stored again.
StorePageNewOnly ==
  IF creator = scan.creator
  THEN /\ known' = [known EXCEPT ![scan.source] = [p \in Posts |->
              IF known[scan.source][p] # 0 THEN known[scan.source][p]
              ELSE IF \E e \in ToSet(scan.page) : e.post = p THEN 1 ELSE 0]]
       /\ UNCHANGED foreign
  ELSE /\ foreign' = (foreign \/ scan.page # <<>>)
       /\ UNCHANGED known

\* _process_page: what one session stores, of which creator
StorePage ==
  IF creator = scan.creator
  THEN /\ known' = [known EXCEPT ![scan.source] = [p \in Posts |->
              LET listed == {e \in ToSet(scan.page) : e.post = p}
              IN  IF listed = {} THEN known[scan.source][p] ELSE (CHOOSE e \in listed : TRUE).edition]]
       /\ UNCHANGED foreign
  ELSE /\ foreign' = (foreign \/ scan.page # <<>>)
       /\ UNCHANGED known

\* PageStats.consecutive_known and the caller's count of whole pages
Trailing(page) ==
  LET changed == {i \in DOMAIN page : Differs(page[i])}
  IN  IF changed = {} THEN scan.consecutive + Len(page)
      ELSE Len(page) - (CHOOSE i \in changed : \A j \in changed : j <= i)

More(s) == IF s \in Whole THEN scan.listing # <<>> ELSE Listing(s, scan.cursor) # <<>>

\* Mutant of AfterPage: the overlap ends the scan instead of the source.
AfterPageEndsAll(consecutive) ==
  LET enough == scan.mode = "incremental" /\ consecutive >= Overlap
  IN  IF More(scan.source) /\ ~enough
      THEN /\ at' = "fetching"
           /\ scan' = [scan EXCEPT !.page = <<>>, !.consecutive = consecutive]
      ELSE IF scan.source < NumSources /\ ~enough
      THEN /\ at' = "fetching"
           /\ scan' = [NoScan EXCEPT !.creator = scan.creator, !.mode = scan.mode,
                                     !.source = scan.source + 1]
      ELSE /\ at' = "finishing"
           /\ scan' = [scan EXCEPT !.page = <<>>, !.listing = <<>>]

\* The next page of the source, the next source, or the end of the scan.
AfterPage(consecutive) ==
  LET enough == scan.mode = "incremental" /\ consecutive >= Overlap
  IN  IF More(scan.source) /\ ~enough
      THEN /\ at' = "fetching"
           /\ scan' = [scan EXCEPT !.page = <<>>, !.consecutive = consecutive]
      ELSE IF scan.source < NumSources
      THEN /\ at' = "fetching"
           /\ scan' = [NoScan EXCEPT !.creator = scan.creator, !.mode = scan.mode,
                                     !.source = scan.source + 1]
      ELSE /\ at' = "finishing"
           /\ scan' = [scan EXCEPT !.page = <<>>, !.listing = <<>>]

ProcessPage ==
  /\ at = "page"
  /\ ~cancel
  /\ creator # Absent
  /\ StorePage
  /\ AfterPage(Trailing(scan.page))
  /\ UNCHANGED <<feed, creator, fullDone, run, cancel, restarts, before, horizon, whole, deleted>>

\* ScanCancelled: the event is set, or the creator's row is gone.
StopScan ==
  /\ at = "page"
  /\ cancel \/ creator = Absent
  /\ at' = "finishing"
  /\ scan' = [scan EXCEPT !.outcome = "cancelled"]
  /\ UNCHANGED <<feed, rows, cancel, restarts, history>>

\* _finish_run: the run's row and the creator's, as far as they exist
CloseRun(outcome) ==
  /\ run' = IF run = Absent THEN Absent ELSE [run EXCEPT !.status = outcome]
  /\ fullDone' = (fullDone \/ (creator # Absent /\ outcome = "ok" /\ scan.mode = "full"))

Ended(outcome) ==
  /\ whole' = IF outcome = "ok" THEN whole \/ (scan.mode = "full" /\ creator # Absent /\ ~deleted)
              ELSE whole /\ before = known
  /\ Forget
  /\ UNCHANGED foreign

FinishRun ==
  /\ at = "finishing"
  /\ CloseRun(scan.outcome)
  /\ Ended(scan.outcome)
  /\ at' = "idle"
  /\ scan' = NoScan
  /\ UNCHANGED <<feed, known, creator, cancel, restarts>>

-----------------------------------------------------------------------------
(* The process stops, dies and starts again. *)

\* The task is cancelled while it fetches or stores a page: the run is closed
\* at once.  The thread that stores a page isn't stopped.
ShutdownInLoop ==
  /\ at \in {"fetching", "page"}
  /\ restarts < MaxRestarts
  /\ \/ UNCHANGED <<known, foreign>>
     \/ at = "page" /\ ~cancel /\ creator # Absent /\ StorePage
  /\ CloseRun("cancelled")
  /\ whole' = (whole /\ before = known')
  /\ Forget
  /\ at' = "down"
  /\ scan' = NoScan
  /\ restarts' = restarts + 1
  /\ UNCHANGED <<feed, creator, cancel>>

\* Outside the loop nothing catches the cancellation, and a killed process
\* closes nothing: the run stays "running".
Stop ==
  /\ at # "down"
  /\ restarts < MaxRestarts
  /\ whole' = (whole /\ (at \in {"idle", "starting"} \/ before = known))
  /\ Forget
  /\ at' = "down"
  /\ scan' = NoScan
  /\ restarts' = restarts + 1
  /\ UNCHANGED <<feed, rows, cancel, foreign>>

\* Mutant of Start: interrupted runs are not closed.
StartLeavesRuns ==
  /\ at = "down"
  /\ at' = "idle"
  /\ cancel' = FALSE
  /\ UNCHANGED <<feed, rows, scan, restarts, history>>

\* close_interrupted_runs
Start ==
  /\ at = "down"
  /\ run' = IF run # Absent /\ run.status = "running" THEN [run EXCEPT !.status = "error"] ELSE run
  /\ at' = "idle"
  /\ cancel' = FALSE
  /\ UNCHANGED <<feed, known, creator, fullDone, scan, restarts, history>>

-----------------------------------------------------------------------------
Step == BeginRun \/ FetchPage \/ FetchWhole \/ CutPage \/ Checked \/ ProcessPage \/ StopScan \/ FinishRun

RunNext ==
  \/ \E s \in Sources : Publish(s) \/ \E p \in Posts : Edit(s, p)
  \/ Cancel
  \/ Delete
  \/ \E c \in 1 .. MaxCreators : Add(c)
  \/ \E asked \in {"auto", "full", "incremental"} : StartRun(asked)
  \/ BeginRun
  \/ FetchPage
  \/ FetchWhole
  \/ CutPage
  \/ FetchFails
  \/ Checked
  \/ ProcessPage
  \/ StopScan
  \/ FinishRun
  \/ ShutdownInLoop
  \/ Stop
  \/ Start

RunSpec == RunInit /\ [][RunNext]_runVars

\* A scan goes on, a stopped process is started again, and the scheduler's
\* full_rescan asks for full scans again and again (scan.full_rescan_days is
\* set; it is off by default).
FairRunSpec == RunSpec /\ WF_runVars(Step) /\ WF_runVars(Start) /\ SF_runVars(StartRun("full"))
-----------------------------------------------------------------------------
Ends == at = "finishing" /\ at' = "idle" /\ scan.outcome = "ok"

\* A full scan that ends well has stored everything its provider listed when it
\* began, edits of old posts included, whatever is published meanwhile.
FullSeesAll ==
  [][Ends /\ scan.mode = "full" /\ ~deleted
       => \A s \in Sources, p \in Posts : known[s][p] >= horizon[s][p]]_runVars

\* An incremental scan misses no post either, if there has been a full scan and
\* no scan was cut short since.  (It does miss posts for good after one was: the
\* newest are known then, and the scan stops at them.  And it misses edits of
\* posts older than the overlap.)
NoGap ==
  [][Ends /\ whole /\ ~deleted
       => \A s \in Sources, p \in Posts : horizon[s][p] # 0 => known[s][p] # 0]_runVars

\* A run shows as running only while it is scanned (or the process is down):
\* neither an error, a shutdown nor a crash leaves one behind.
NoOrphanRun == at = "idle" /\ run # Absent => run.status # "running"

\* scanner.py:107 "creator deleted during scan": such a scan ends, and stores
\* nothing under another creator.
DeletedStopsScan == ~foreign

\* Interruptions come to an end.
Undisturbed ==
  /\ <>[][~(at = "fetching" /\ at' \in {"finishing", "checking"}) /\ (cancel' => cancel)]_runVars
  /\ <>[](creator # Absent)

\* With full scans made now and then, every post is stored in the end, also one
\* that an interrupted scan left behind.
SeenInTheEnd ==
  Undisturbed => []<>(\A s \in Sources, p \in Posts : remote[s][p] # 0 => known[s][p] # 0)
=============================================================================
