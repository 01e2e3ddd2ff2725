---------------------------- MODULE MediaLifecycle ----------------------------
(***************************************************************************)
(* The media lifecycle: core/lifecycle.py driven by everything that calls  *)
(* it - the API's users, scans, the scheduler, the library check and the   *)
(* download workers of downloader/manager.py - over one creator.           *)
(*                                                                         *)
(* One action is one committed session.  What the session announces on     *)
(* commit (the cancel flags of running downloads) is part of the action.   *)
(* The actions' choices are what the program does not decide: the user's   *)
(* clicks, the provider's answers, how a download ends, when a retry is    *)
(* due.                                                                    *)
(***************************************************************************)
EXTENDS MediaRules

CONSTANTS
  Media,        \* media items the creator's posts may have
  Posts,        \* the creator's posts
  PostOf,       \* the post each media item belongs to
  Videos,       \* media the creator preferences can't exclude
  OldPosts,     \* posts published before the creator's download_since
  Workers,      \* download workers (downloads.concurrency)
  None,         \* no media item
  MaxCrashes    \* bound: restarts explored

ASSUME LifecycleAssumption ==
  /\ PostOf \in [Media -> Posts]
  /\ Videos \subseteq Media
  /\ OldPosts \subseteq Posts
  /\ None \notin Media
  /\ MaxCrashes \in Nat

VARIABLES
  row,          \* each media item's row and active job
  postStatus,   \* Post.status, "absent" for a post that has no row
  canView,      \* Post.current_user_can_view
  include,      \* the creator's include switches, as one
  auto,         \* Creator.auto_download
  claim,        \* what each worker holds
  crashes       \* restarts so far

vars == <<row, postStatus, canView, include, auto, claim, crashes>>

\* A worker's claim: "claimed" until its progress reporter is registered,
\* then "running".  A claim whose media item was deleted holds None.
Idle == [at |-> "idle", media |-> None, cancel |-> FALSE]
Claim == [at : {"idle", "claimed", "running"}, media : Media \cup {None}, cancel : BOOLEAN]

TypeOK ==
  /\ row \in [Media -> Row]
  /\ postStatus \in [Posts -> PostStatuses \cup {"absent"}]
  /\ canView \in [Posts -> BOOLEAN]
  /\ include \in BOOLEAN
  /\ auto \in BOOLEAN
  /\ claim \in [Workers -> Claim]
  /\ crashes \in 0..MaxCrashes

Init ==
  /\ row = [m \in Media |-> Absent]
  /\ postStatus = [p \in Posts |-> "absent"]
  /\ canView = [p \in Posts |-> TRUE]
  /\ include \in BOOLEAN
  /\ auto \in BOOLEAN
  /\ claim = [w \in Workers |-> Idle]
  /\ crashes = 0

-------------------------------------------------------------------------------
MediaOf(p) == {m \in Media : PostOf[m] = p}
Known(p) == postStatus[p] # "absent"
Wants(m, included) == m \in Videos \/ included       \* _kind_wanted

\* Mutant of ShouldAutoQueue: download_since is forgotten.
AutoQueueAll(p, automatic) == automatic
ShouldAutoQueue(p, automatic) == automatic /\ p \notin OldPosts
RunningJobs(S) == {m \in S : row[m].job = "running"}

\* The rows of a post's media, in a table of rows.
ItemsOf(p, rows) == {rows[m] : m \in {n \in MediaOf(p) : Present(rows[n])}}

\* Commit a table of rows, with the statuses of the touched posts derived again.
CommitRows(rows, touched) ==
  /\ row' = rows
  /\ postStatus' = [p \in Posts |->
       IF p \in touched THEN DerivePostStatus(canView'[p], ItemsOf(p, rows)) ELSE postStatus[p]]

\* fx.cancel: manager.cancel_job reaches registered workers only.
SignalCancel(S) ==
  claim' = [w \in Workers |->
    IF claim[w].at = "running" /\ claim[w].media \in S THEN [claim[w] EXCEPT !.cancel = TRUE]
    ELSE claim[w]]

\* Deleting media (their job rows go with them) leaves their workers nothing to record.
OrphanClaims(S) ==
  claim' = [w \in Workers |->
    IF claim[w].media \in S THEN [claim[w] EXCEPT !.media = None] ELSE claim[w]]

-------------------------------------------------------------------------------
\* What a provider reports.

\* sync_post, called by a scan, by the Refresh button and by a download that
\* renews its links (both refresh).  An access change is always a change.
SyncPost(p, produced, view, changed, refresh) ==
  LET isNew   == ~Known(p)
      resolve == \/ isNew \/ changed \/ refresh
                 \/ \E m \in MediaOf(p) : row[m].status \in AwaitingLinks
      Synced(m) ==
        LET r == IF m \in produced THEN SyncProduced(row[m], Wants(m, include))
                 ELSE SyncUnproduced(row[m])
        IN  IF view THEN r ELSE Hide(r)
      Queue(r) == IF ShouldAutoQueue(p, auto) THEN AutoQueue(r) ELSE r
      rows == [m \in Media |-> IF m \notin MediaOf(p) THEN row[m]
                               ELSE Queue(IF resolve THEN Synced(m) ELSE row[m])]
  IN  /\ refresh => Known(p)
      /\ produced \subseteq MediaOf(p)
      /\ Known(p) /\ view # canView[p] => changed
      /\ canView' = [canView EXCEPT ![p] = view]
      /\ CommitRows(rows, {p})
      /\ OrphanClaims({m \in MediaOf(p) : Present(row[m]) /\ ~Present(rows[m])})
      /\ UNCHANGED <<include, auto, crashes>>

\* reresolve_all, one post per session: the stored post, resolved again.
Reresolve(p, produced) ==
  /\ Known(p)
  /\ SyncPost(p, produced, canView[p], FALSE, TRUE)

-------------------------------------------------------------------------------
\* The user's actions on a post.
ChangePost(p, rows) ==
  /\ Known(p)
  /\ UNCHANGED <<canView, include, auto, crashes>>
  /\ CommitRows([m \in Media |-> IF m \in MediaOf(p) /\ Present(row[m])
                                 THEN rows[m] ELSE row[m]], {p})

DownloadPost(p, force) ==
  /\ ChangePost(p, [m \in Media |-> DownloadInPost(row[m], Wants(m, include), force)])
  /\ UNCHANGED claim

SkipPost(p) ==
  /\ ChangePost(p, [m \in Media |-> Skip(row[m])])
  /\ SignalCancel(RunningJobs(MediaOf(p)))

UnskipPost(p) ==
  /\ ChangePost(p, [m \in Media |-> UnskipInPost(row[m], Wants(m, include))])
  /\ UNCHANGED claim

\* The user's actions on an item and on a job.
ChangeItem(m, r) ==
  /\ Present(row[m])
  /\ UNCHANGED <<canView, include, auto, crashes>>
  /\ CommitRows([row EXCEPT ![m] = r], {PostOf[m]})

RetryMedia(m) == ChangeItem(m, Retry(row[m])) /\ UNCHANGED claim
SkipMedia(m) == ChangeItem(m, Skip(row[m])) /\ SignalCancel(RunningJobs({m}))
UnskipMedia(m) == ChangeItem(m, UnskipItem(row[m])) /\ UNCHANGED claim

RemoveJob(m) ==
  \/ /\ row[m].job = "queued"
     /\ ChangeItem(m, RemoveQueued(row[m]))
     /\ UNCHANGED claim
  \/ /\ row[m].job = "running"
     /\ SignalCancel({m})
     /\ UNCHANGED <<row, postStatus, canView, include, auto, crashes>>

\* The failed list's buttons, over every failed item at once.
FailedItems == {m \in Media : row[m].status \in FailedStatuses}

\* Mutant of ChangeFailed: one post's status only is derived again.
ChangeFailedOnePost(rows) ==
  /\ FailedItems # {}
  /\ UNCHANGED <<canView, include, auto, crashes>>
  /\ CommitRows([m \in Media |-> IF m \in FailedItems THEN rows[m] ELSE row[m]],
                {PostOf[CHOOSE m \in FailedItems : TRUE]})

ChangeFailed(rows) ==
  /\ FailedItems # {}
  /\ UNCHANGED <<canView, include, auto, crashes>>
  /\ CommitRows([m \in Media |-> IF m \in FailedItems THEN rows[m] ELSE row[m]],
                {PostOf[m] : m \in FailedItems})

RetryFailed == ChangeFailed([m \in Media |-> Retry(row[m])]) /\ UNCHANGED claim
ClearFailed == ChangeFailed([m \in Media |-> Skip(row[m])]) /\ SignalCancel(RunningJobs(FailedItems))

\* patch_creator: the preferences are re-applied when an include switch
\* changed or auto_download was turned on.
PatchCreator(included, automatic) ==
  LET Prefs(m) ==
        LET r == ApplyPrefs(row[m], Wants(m, included))
        IN  IF ShouldAutoQueue(PostOf[m], automatic) THEN AutoQueue(r) ELSE r
  IN  /\ <<included, automatic>> # <<include, auto>>
      /\ include' = included
      /\ auto' = automatic
      /\ UNCHANGED <<canView, claim, crashes>>
      /\ IF included # include \/ (automatic /\ ~auto)
         THEN CommitRows([m \in Media |-> IF Present(row[m]) THEN Prefs(m) ELSE row[m]],
                         {p \in Posts : Known(p)})
         ELSE UNCHANGED <<row, postStatus>>

\* delete_creator: its running downloads are signalled and its rows deleted.
\* The creator may be added again, with any preferences.
DeleteCreator(included, automatic) ==
  /\ \E p \in Posts : Known(p)
  /\ row' = [m \in Media |-> Absent]
  /\ postStatus' = [p \in Posts |-> "absent"]
  /\ canView' = [p \in Posts |-> TRUE]
  /\ include' = included
  /\ auto' = automatic
  /\ claim' = [w \in Workers |->
       CASE claim[w].at = "running" -> [claim[w] EXCEPT !.media = None, !.cancel = TRUE]
         [] claim[w].at = "claimed" -> [claim[w] EXCEPT !.media = None]
         [] OTHER -> claim[w]]
  /\ UNCHANGED crashes

-------------------------------------------------------------------------------
\* The scheduler and the library check.

\* retry_due: the failed downloads whose time has come, in one session.
RetryDue(due) ==
  /\ due # {}
  /\ \A m \in due : row[m].status = "failed" /\ row[m].wanted
  /\ UNCHANGED <<canView, include, auto, claim, crashes>>
  /\ CommitRows([m \in Media |-> IF m \in due THEN QueueAgain(row[m]) ELSE row[m]],
                {PostOf[m] : m \in due})

\* verify_files: an archived file is gone from disk, or is back.
FileGone(m, requeue) ==
  /\ row[m].status = "completed"
  /\ ChangeItem(m, FileMissing(row[m], requeue))
  /\ UNCHANGED claim

FileBack(m) ==
  /\ row[m].status = "missing"
  /\ ChangeItem(m, FileFound(row[m]))
  /\ UNCHANGED claim

-------------------------------------------------------------------------------
\* The download workers.

\* Mutant of Start: the job is claimed whatever its status.
StartUnguarded(w, m) ==
  /\ claim[w].at = "idle"
  /\ row[m].job # "none"
  /\ row' = [row EXCEPT ![m] = Started(@)]
  /\ claim' = [claim EXCEPT ![w] = [at |-> "claimed", media |-> m, cancel |-> FALSE]]
  /\ UNCHANGED <<postStatus, canView, include, auto, crashes>>

\* claims.next and start_download.  The post's status is not derived again.
Start(w, m) ==
  /\ claim[w].at = "idle"
  /\ row[m].job = "queued"
  /\ row' = [row EXCEPT ![m] = Started(@)]
  /\ claim' = [claim EXCEPT ![w] = [at |-> "claimed", media |-> m, cancel |-> FALSE]]
  /\ UNCHANGED <<postStatus, canView, include, auto, crashes>>

\* Back on the event loop, the worker registers its progress reporter.
Register(w) ==
  /\ claim[w].at = "claimed"
  /\ claim' = [claim EXCEPT ![w].at = "running"]
  /\ UNCHANGED <<row, postStatus, canView, include, auto, crashes>>

\* The run ends and record_outcome commits.  A run is cancelled only when its
\* flag is set or its media item is gone; a flag set too late changes nothing.
Record(w, outcome) ==
  /\ claim[w].at = "running"
  /\ outcome = "cancelled" => claim[w].cancel \/ claim[w].media = None
  /\ claim' = [claim EXCEPT ![w] = Idle]
  /\ UNCHANGED <<canView, include, auto, crashes>>
  /\ IF claim[w].media = None
     THEN UNCHANGED <<row, postStatus>>
     ELSE CommitRows([row EXCEPT ![claim[w].media] = RecordOutcome(@, outcome)],
                     {PostOf[claim[w].media]})

\* The process stops and starts again: recover_interrupted.
CrashRestart ==
  /\ crashes < MaxCrashes
  /\ crashes' = crashes + 1
  /\ row' = [m \in Media |-> Recover(row[m])]
  /\ claim' = [w \in Workers |-> Idle]
  /\ UNCHANGED <<postStatus, canView, include, auto>>

-------------------------------------------------------------------------------
PostStep(p) ==
  \/ \E produced \in SUBSET MediaOf(p), view, changed, refresh \in BOOLEAN :
       SyncPost(p, produced, view, changed, refresh)
  \/ \E produced \in SUBSET MediaOf(p) : Reresolve(p, produced)
  \/ \E force \in BOOLEAN : DownloadPost(p, force)
  \/ SkipPost(p)
  \/ UnskipPost(p)

ItemStep(m) ==
  \/ RetryMedia(m)
  \/ SkipMedia(m)
  \/ UnskipMedia(m)
  \/ RemoveJob(m)
  \/ \E requeue \in BOOLEAN : FileGone(m, requeue)
  \/ FileBack(m)

CreatorStep ==
  \/ RetryFailed
  \/ ClearFailed
  \/ \E included, automatic \in BOOLEAN :
       PatchCreator(included, automatic) \/ DeleteCreator(included, automatic)
  \/ \E due \in SUBSET Media : RetryDue(due)

WorkerStep(w) ==
  \/ \E m \in Media : Start(w, m)
  \/ Register(w)
  \/ \E outcome \in Outcomes : Record(w, outcome)

Next ==
  \/ \E p \in Posts : PostStep(p)
  \/ \E m \in Media : ItemStep(m)
  \/ CreatorStep
  \/ \E w \in Workers : WorkerStep(w)
  \/ CrashRestart

Spec == Init /\ [][Next]_vars

\* The workers' loop goes on as long as the process runs: a registered run
\* ends, and the scheduler's retry task comes round again.
Fairness ==
  /\ \A w \in Workers : WF_vars(Register(w)) /\ WF_vars(\E o \in Outcomes : Record(w, o))
  /\ \A m \in Media : WF_vars(\E due \in SUBSET Media : m \in due /\ RetryDue(due))

FairSpec == Spec /\ Fairness

-------------------------------------------------------------------------------
(***************************************************************************)
(* Properties.                                                             *)
(***************************************************************************)
\* A row never says one thing and its job another (RowConsistent), through any
\* interleaving of clicks, scans, retries, workers, deletions and restarts.
JobsMatchStatus == \A m \in Media : RowConsistent(row[m])

\* Every running job is held by exactly one worker and every claim whose
\* media item still exists is a running job, across deletions and restarts.
OneDownloadPerMedia ==
  /\ \A w \in Workers : claim[w].at = "idle" => claim[w].media = None
  /\ \A v, w \in Workers : v # w /\ claim[v].media = claim[w].media => claim[v].media = None
  /\ \A m \in Media : row[m].job = "running" <=> \E w \in Workers : claim[w].media = m

\* A stored post status is the one derive_post_status would give now.
StoredStatusIsDerived ==
  \A p \in Posts :
    IF Known(p) THEN postStatus[p] = DerivePostStatus(canView[p], ItemsOf(p, row))
    ELSE ItemsOf(p, row) = {}

\* "Stopped by the user or the creator preferences: never downloaded on
\* their own" (lifecycle.py:87): no worker starts a stopped item.
StoppedStaysStopped ==
  [][\A m \in Media : row[m].status \in Stopped => row'[m].status # "downloading"]_vars

\* What the user stopped, and has no download left, changes only by another
\* of the user's actions on it (or goes with its row).
UserActsOn(m) ==
  \/ \E force \in BOOLEAN : DownloadPost(PostOf[m], force)
  \/ SkipPost(PostOf[m]) \/ UnskipPost(PostOf[m])
  \/ RetryMedia(m) \/ SkipMedia(m) \/ UnskipMedia(m)

UserStopHolds ==
  [][\A m \in Media :
       row[m].status \in {"skipped", "cancelled"} /\ row[m].job = "none" =>
         row'[m].status \in {row[m].status, "absent"} \/ UserActsOn(m)]_vars

\* The item has a download, or had one: it waits for the retry task, or a file
\* of it was archived.
Begun(r) == r.job # "none" \/ r.status = "failed" \/ Archived(r)

\* "Only download posts published after" (Creator.download_since): of an older
\* post, no download begins but by the user's action, neither when a scan finds
\* the item (and queues new ones in the same step), nor when the creator's
\* preferences, the item's access or its file change, nor after a restart.
OldPostsWait ==
  [][\A m \in Media : PostOf[m] \in OldPosts /\ ~Begun(row[m]) =>
       ~Begun(row'[m]) \/ UserActsOn(m) \/ RetryFailed]_vars

\* An archived item keeps its row until its creator is deleted, and leaves
\* "completed" only for a new download or because its file is gone.
ArchivedIsKept ==
  [][\A m \in Media : row[m].status = "completed" =>
       \/ row'[m].status \in {"completed", "queued", "missing"}
       \/ \A p \in Posts : postStatus'[p] = "absent"]_vars

\* A failed item that is wanted is tried again.
FailedIsRetried ==
  \A m \in Media : row[m].status = "failed" /\ row[m].wanted
                    ~> row[m].status # "failed" \/ ~row[m].wanted
===============================================================================
