------------------------- MODULE MediaLifecycleProofs -------------------------
(***************************************************************************)
(* What the media lifecycle keeps for every set of posts, media and        *)
(* workers, every attempt limit and any number of restarts.                *)
(*                                                                         *)
(* First what every rule of MediaRules keeps: a row stays a row, the row   *)
(* and its job stay consistent, and only a sync makes or drops a row.  One *)
(* lemma per rule; the proofs about the state machine cite them.           *)
(*                                                                         *)
(* The inductive invariant is the conjunction of properties that need each *)
(* other: a claim's media item has a running job (OneDownloadPerMedia),    *)
(* which is why recording an outcome finds a row that JobsMatchStatus lets *)
(* it settle.  NoStoppedJob strengthens it for StoppedStaysStopped: until  *)
(* the first restart no stopped row has a job waiting in the queue.        *)
(*                                                                         *)
(* Then the post statuses: a stored one is the one derive_post_status      *)
(* would give.  Every session that changes rows derives the posts it       *)
(* touches again, except the claim of a job.  That a claim changes no      *)
(* derived status is what needs an invariant: a job that waits belongs to  *)
(* an item which already counts as active, or to a post that can't be      *)
(* viewed.                                                                 *)
(*                                                                         *)
(* Last the steps.  None moves what the user stopped, begins a download in *)
(* an older post, or loses what is archived.  That is proved together:     *)
(* Still says what a rule that no user chose does to a row, and one        *)
(* lemma per kind of step shows that its rules are such.                   *)
(***************************************************************************)
EXTENDS QueueRefinement, TLAPS

-------------------------------------------------------------------------------
(* The rules. *)

\* A media item's row that is not absent, in a state the rules keep.
Good(r) == r \in Row /\ RowConsistent(r) /\ Present(r)

\* A stopped row whose job still waits in the queue.
StoppedJob(r) == r.job = "queued" /\ r.status \in Stopped

\* A rule that starts and ends no download, makes no such row and archives nothing.
Keeps(r, s) ==
  /\ Good(s)
  /\ s.job = "running" <=> r.job = "running"
  /\ s.status = "downloading" => r.status = "downloading"
  /\ StoppedJob(s) => StoppedJob(r)
  /\ Archived(s) => Archived(r)

USE MaxAttemptsAssumption
USE DEF Good, Keeps, StoppedJob, Archived, Row, Present, RowConsistent, Statuses, Stopped, Finished, AwaitingLinks,
        ActiveStatuses

\* Queueing a row that has no job keeps it well-formed and consistent.
LEMMA AddJobKeeps ==
  ASSUME NEW r, Good(r), r.job = "none"
  PROVE  Keeps(r, AddJob(r))
  BY DEF AddJob

\* The user's requeue (_requeue) keeps a row consistent.
LEMMA RequeueKeeps ==
  ASSUME NEW r, Good(r), NEW force \in BOOLEAN
  PROVE  Keeps(r, Requeue(r, force))
<1> DEFINE s == [r EXCEPT !.attempts = 0]
<1>1. CASE r.job = "none"
  <2>1. Good(s) /\ s.job = "none"
    BY <1>1
  <2>2. Keeps(r, AddJob(s))
    BY <2>1, AddJobKeeps
  <2> QED
    BY <2>2 DEF Requeue
<1>2. CASE r.job # "none"
  BY <1>2 DEF Requeue
<1> QED
  BY <1>1, <1>2

\* Applying the preferences (_apply_prefs) keeps a row consistent.
LEMMA ApplyPrefsKeeps ==
  ASSUME NEW r, Good(r), NEW wants \in BOOLEAN
  PROVE  Keeps(r, ApplyPrefs(r, wants))
  BY ZenonT(60) DEF ApplyPrefs, UserSkipped, DropQueuedJob

\* Skipping (_skip) keeps a row consistent.
LEMMA SkipKeeps ==
  ASSUME NEW r, Good(r)
  PROVE  Keeps(r, Skip(r))
  BY DEF Skip, DropQueuedJob

\* A failure (_failed) leaves a consistent row with no job.
LEMMA FailedKeeps ==
  ASSUME NEW r, Good(r), NEW kind \in FailureKinds
  PROVE  Good(Failed(r, kind))
<1> DEFINE attempts == CountAttempt(r.attempts, kind)
           status == FailureStatus(attempts, kind)
<1>1. attempts \in 0..MaxAttempts
  BY DEF CountAttempt
<1>2. /\ status \in {"no_access", "failed_permanent", "unsupported", "failed"}
      /\ status = "failed" => attempts < MaxAttempts
  BY <1>1 DEF FailureStatus, FailureKinds
<1>3. Failed(r, kind) = [r EXCEPT !.status = status, !.attempts = attempts, !.job = "none"]
  BY DEF Failed
<1> HIDE DEF attempts, status
<1> QED
  BY <1>1, <1>2, <1>3

\* An automatic retry (_queue_again) keeps a row consistent.
LEMMA QueueAgainKeeps ==
  ASSUME NEW r, Good(r)
  PROVE  Keeps(r, QueueAgain(r))
  BY AddJobKeeps DEF QueueAgain

\* Automatic queueing (_auto_queue) keeps a row consistent.
LEMMA AutoQueueKeeps ==
  ASSUME NEW r, Good(r)
  PROVE  Keeps(r, AutoQueue(r))
  BY AddJobKeeps DEF AutoQueue

\* Removing a queued job (remove_job) keeps its row consistent.
LEMMA RemoveQueuedKeeps ==
  ASSUME NEW r, Good(r), r.job = "queued"
  PROVE  Keeps(r, RemoveQueued(r))
  BY DEF RemoveQueued

\* retry_media keeps a row consistent.
LEMMA RetryKeeps ==
  ASSUME NEW r, Good(r)
  PROVE  Keeps(r, Retry(r))
<1> DEFINE s == [r EXCEPT !.wanted = TRUE]
<1>1. Keeps(r, s)
  OBVIOUS
<1>2. Keeps(s, Requeue(s, TRUE))
  <2> HIDE DEF s
  <2>1. TRUE \in BOOLEAN
    OBVIOUS
  <2> QED
    BY <1>1, <2>1, RequeueKeeps
<1> QED
  BY <1>1, <1>2 DEF Retry

\* A stopped row that is discovered again is consistent.
LEMMA DiscoverKeeps ==
  ASSUME NEW r, Good(r)
  PROVE  Keeps(r, Discover(r))
  BY DEF Discover

\* unskip_media keeps a row consistent.
LEMMA UnskipItemKeeps ==
  ASSUME NEW r, Good(r)
  PROVE  Keeps(r, UnskipItem(r))
  BY ZenonT(60), DiscoverKeeps DEF UnskipItem

\* unskip_post keeps each row consistent.
LEMMA UnskipInPostKeeps ==
  ASSUME NEW r, Good(r), NEW wants \in BOOLEAN
  PROVE  Keeps(r, UnskipInPost(r, wants))
<1>1. Keeps(r, Discover(r))
  BY DiscoverKeeps
<1>2. Keeps(Discover(r), ApplyPrefs(Discover(r), wants))
  BY <1>1, ApplyPrefsKeeps
<1> QED
  BY <1>1, <1>2 DEF UnskipInPost

\* download_post keeps each row consistent.
LEMMA DownloadInPostKeeps ==
  ASSUME NEW r, Good(r), NEW wants \in BOOLEAN, NEW force \in BOOLEAN
  PROVE  Keeps(r, DownloadInPost(r, wants, force))
<1> DEFINE back == IF UserSkipped(r) THEN ApplyPrefs(Discover(r), wants) ELSE r
<1>1. Keeps(r, Discover(r))
  BY DiscoverKeeps
<1>2. Keeps(Discover(r), ApplyPrefs(Discover(r), wants))
  BY <1>1, ApplyPrefsKeeps
<1>3. Keeps(r, back)
  BY <1>1, <1>2
<1>4. Keeps(back, Requeue(back, force))
  BY <1>3, RequeueKeeps
<1> QED
  BY <1>3, <1>4 DEF DownloadInPost

\* A row that is absent has no job, so a sync that makes it keeps that too.
LEMMA SyncProducedKeeps ==
  ASSUME NEW r \in Row, RowConsistent(r), NEW wants \in BOOLEAN
  PROVE  Keeps(r, SyncProduced(r, wants))
<1> DEFINE s == CASE ~Present(r) -> NewRow
                  [] r.status = "no_access" -> [r EXCEPT !.status = "discovered"]
                  [] OTHER -> r
<1>1. Keeps(r, s)
  BY DEF NewRow
<1>2. Keeps(s, ApplyPrefs(s, wants))
  BY <1>1, ApplyPrefsKeeps
<1> QED
  BY <1>1, <1>2 DEF SyncProduced

\* Hiding what can't be viewed (_sync_media) keeps a row consistent.
LEMMA HideKeeps ==
  ASSUME NEW r, Good(r)
  PROVE  Keeps(r, Hide(r))
  BY DEF Hide

\* start_download leaves a consistent row with a running job.
LEMMA StartedKeeps ==
  ASSUME NEW r, Good(r), r.job = "queued"
  PROVE  Good(Started(r)) /\ Started(r).job = "running" /\ ~Archived(Started(r))
  BY DEF Started

\* record_outcome leaves a consistent row with no job.
LEMMA RecordOutcomeKeeps ==
  ASSUME NEW r, Good(r), r.job = "running", NEW outcome \in Outcomes
  PROVE  Good(RecordOutcome(r, outcome)) /\ RecordOutcome(r, outcome).job = "none"
<1>1. Good(Completed(r)) /\ Completed(r).job = "none"
  BY DEF Completed
<1>2. Good(Cancelled(r)) /\ Cancelled(r).job = "none"
  BY DEF Cancelled
<1>3. ASSUME outcome \in FailureKinds
      PROVE  Good(Failed(r, outcome)) /\ Failed(r, outcome).job = "none"
  <2>1. Good(Failed(r, outcome))
    BY <1>3, FailedKeeps
  <2>2. Failed(r, outcome).job = "none"
    BY DEF Failed
  <2> QED
    BY <2>1, <2>2
<1> QED
  BY <1>1, <1>2, <1>3 DEF RecordOutcome, Outcomes, FailureKinds

\* recover_interrupted keeps a row consistent, its job no longer running.
LEMMA RecoverKeeps ==
  ASSUME NEW r \in Row, RowConsistent(r)
  PROVE  /\ Recover(r) \in Row /\ RowConsistent(Recover(r))
         /\ Recover(r).job # "running"
         /\ Recover(r).job = IF r.job = "running" THEN "queued" ELSE r.job
         /\ Archived(Recover(r)) <=> Archived(r)
  BY DEF Recover

\* file_missing keeps a row consistent.
LEMMA FileMissingKeeps ==
  ASSUME NEW r, Good(r), r.status = "completed", NEW requeue \in BOOLEAN
  PROVE  Keeps(r, FileMissing(r, requeue))
<1> DEFINE gone == [r EXCEPT !.status = "missing"]
<1>1. Keeps(r, gone)
  OBVIOUS
<1>2. Keeps(gone, QueueAgain(gone))
  BY <1>1, QueueAgainKeeps
<1> QED
  BY <1>1, <1>2 DEF FileMissing

\* file_found keeps a row consistent.
LEMMA FileFoundKeeps ==
  ASSUME NEW r, Good(r), r.status = "missing"
  PROVE  Keeps(r, FileFound(r))
  BY DEF FileFound

\* "Queued and downloading items are already on their way, and an item the
\* post's access hides can't be fetched" (lifecycle.py:950): every button that is
\* shown does what it says.  A retry or a new download queues the item with all
\* its attempts, if no job of it is left; a skip makes it the user's skip, which
\* shows the way back; that way back is gone once it was taken.
THEOREM ButtonsDoWhatTheySay ==
  ASSUME NEW r, Good(r)
  PROVE  /\ (Offers(r, "retry") \/ Offers(r, "redownload")) /\ r.job = "none" =>
              Retry(r) = [status |-> "queued", wanted |-> TRUE, attempts |-> 0, job |-> "queued"]
         /\ Offers(r, "skip") => UserSkipped(Skip(r)) /\ Offers(Skip(r), "unskip")
         /\ Offers(r, "unskip") => UnskipItem(r) # r /\ ~Offers(UnskipItem(r), "unskip")
<1>1. ASSUME Offers(r, "retry") \/ Offers(r, "redownload"), r.job = "none"
      PROVE  Retry(r) = [status |-> "queued", wanted |-> TRUE, attempts |-> 0, job |-> "queued"]
  BY <1>1 DEF Offers, Retry, Requeue, AddJob
<1>2. Offers(r, "skip") => UserSkipped(Skip(r)) /\ Offers(Skip(r), "unskip")
  BY DEF Offers, Skip, DropQueuedJob, UserSkipped
<1>3. Offers(r, "unskip") => UnskipItem(r) # r /\ ~Offers(UnskipItem(r), "unskip")
  BY DEF Offers, UnskipItem, Discover
<1> QED
  BY <1>1, <1>2, <1>3

HIDE MaxAttemptsAssumption
HIDE DEF Good, Keeps, StoppedJob, Archived, Row, Present, RowConsistent, Statuses, Stopped, Finished,
         AwaitingLinks, ActiveStatuses

-------------------------------------------------------------------------------
(* The state machine. *)

NoStoppedJob == crashes = 0 => \A m \in Media : ~StoppedJob(row[m])

IInv == TypeOK /\ JobsMatchStatus /\ OneDownloadPerMedia /\ NoStoppedJob

\* What every step keeps besides: a download that starts has a job that waited.
StartsOnlyQueued ==
  \A m \in Media : row'[m].status = "downloading"
                    => row[m].status = "downloading" \/ row[m].job = "queued"

\* And it is a step, or none, of the abstract download queue.
Moves == [Queue!Next]_(Queue!queueVars)

Step == IInv' /\ StartsOnlyQueued /\ Moves

-------------------------------------------------------------------------------
\* A step that changes no job, no claim's item and nothing archived is none of the queue's.
LEMMA MovesNothing ==
  ASSUME \A m \in Media : row'[m].job = row[m].job /\ (Archived(row'[m]) <=> Archived(row[m])),
         \A w \in Workers : claim'[w].media = claim[w].media
  PROVE  Moves
  BY DEF Moves, Queue!queueVars

\* Jobs that are queued and dropped are the queue's Arrange.
LEMMA MovesArranged ==
  ASSUME NEW D \in SUBSET Media,
         row' \in [Media -> Row],
         \A m \in Media : row'[m].job = "running" <=> row[m].job = "running" /\ m \notin D,
         \A m \in Media : Archived(row'[m]) => Archived(row[m]),
         \A w \in Workers :
           claim'[w].media = IF claim[w].media \in D THEN None ELSE claim[w].media
  PROVE  Moves
<1>1. Queue!Arrange(D)
  <2>1. \A m \in Media : row'[m].job \in {"none", "queued", "running"}
    BY DEF Row
  <2> QED
    BY <2>1 DEF Queue!Arrange
<1> QED
  BY <1>1 DEF Moves, Queue!Next

\* derive_post_status gives one of the post statuses.
LEMMA StatusType ==
  ASSUME NEW view \in BOOLEAN, NEW items
  PROVE  DerivePostStatus(view, items) \in PostStatuses
  BY DEF DerivePostStatus, PostStatuses

\* A signal flags claims and moves none.
LEMMA SignalKeepsClaims ==
  ASSUME claim \in [Workers -> Claim], NEW S, SignalCancel(S)
  PROVE  /\ claim' \in [Workers -> Claim]
         /\ \A w \in Workers : claim'[w].at = claim[w].at /\ claim'[w].media = claim[w].media
  BY DEF SignalCancel, Claim

\* A step that replaces the rows by consistent ones, starts and ends no
\* download, and orphans the claims of the running media in D, which it drops.
LEMMA KeptStep ==
  ASSUME IInv,
         NEW rows \in [Media -> Row], NEW D \in SUBSET Media, NEW touched,
         \A m \in Media : RowConsistent(rows[m]),
         \A m \in Media : rows[m].job = "running" <=> row[m].job = "running" /\ m \notin D,
         \A m \in Media : StoppedJob(rows[m]) => StoppedJob(row[m]),
         \A m \in Media : rows[m].status = "downloading" => row[m].status = "downloading",
         \A m \in Media : Archived(rows[m]) => Archived(row[m]),
         CommitRows(rows, touched),
         canView' \in [Posts -> BOOLEAN], include' \in BOOLEAN, auto' \in BOOLEAN,
         UNCHANGED crashes,
         claim' \in [Workers -> Claim],
         \A w \in Workers :
           /\ claim'[w].at = claim[w].at
           /\ claim'[w].media = IF claim[w].media \in D THEN None ELSE claim[w].media
  PROVE  Step
<1>1. row' = rows
  BY DEF CommitRows
<1>2. postStatus' \in [Posts -> PostStatuses \cup {"absent"}]
  BY StatusType DEF CommitRows, IInv, TypeOK
<1>3. TypeOK'
  BY <1>1, <1>2 DEF IInv, TypeOK
<1>4. JobsMatchStatus'
  BY <1>1 DEF JobsMatchStatus
<1>5. OneDownloadPerMedia'
  BY <1>1, LifecycleAssumption DEF IInv, OneDownloadPerMedia, TypeOK, Claim
<1>6. NoStoppedJob'
  BY <1>1 DEF IInv, NoStoppedJob
<1>7. StartsOnlyQueued
  BY <1>1 DEF StartsOnlyQueued
<1>8. Moves
  BY <1>1, MovesArranged
<1> QED
  BY <1>3, <1>4, <1>5, <1>6, <1>7, <1>8 DEF IInv, Step

\* The same step without deletions: each row is kept by a rule.
LEMMA RulesStep ==
  ASSUME IInv,
         NEW rows, rows = [m \in Media |-> rows[m]], NEW touched,
         \A m \in Media : rows[m] = row[m] \/ Keeps(row[m], rows[m]),
         CommitRows(rows, touched),
         canView' \in [Posts -> BOOLEAN], include' \in BOOLEAN, auto' \in BOOLEAN,
         UNCHANGED crashes,
         claim' \in [Workers -> Claim],
         \A w \in Workers : claim'[w].at = claim[w].at /\ claim'[w].media = claim[w].media
  PROVE  Step
<1>1. /\ \A m \in Media : rows[m] \in Row /\ RowConsistent(rows[m])
      /\ \A m \in Media : rows[m].job = "running" <=> row[m].job = "running" /\ m \notin {}
  BY DEF Keeps, Good, IInv, TypeOK, JobsMatchStatus
<1>2. rows \in [Media -> Row]
  BY <1>1
<1>3. \A w \in Workers :
        /\ claim'[w].at = claim[w].at
        /\ claim'[w].media = IF claim[w].media \in {} THEN None ELSE claim[w].media
  OBVIOUS
<1>4. \A m \in Media : StoppedJob(rows[m]) => StoppedJob(row[m])
  BY DEF Keeps
<1>8. \A m \in Media : rows[m].status = "downloading" => row[m].status = "downloading"
  BY DEF Keeps
<1>9. \A m \in Media : Archived(rows[m]) => Archived(row[m])
  BY DEF Keeps
<1>5. {} \in SUBSET Media
  OBVIOUS
<1>6. \A m \in Media : RowConsistent(rows[m])
  BY <1>1
<1>7. \A m \in Media : rows[m].job = "running" <=> row[m].job = "running" /\ m \notin {}
  BY <1>1
<1> QED
  BY ONLY <1>2, <1>3, <1>4, <1>5, <1>6, <1>7, <1>8, <1>9, KeptStep, IInv, CommitRows(rows, touched),
     UNCHANGED crashes,
     canView' \in [Posts -> BOOLEAN], include' \in BOOLEAN, auto' \in BOOLEAN,
     claim' \in [Workers -> Claim]

\* What the induction hypothesis says of one media item that has a row.
LEMMA GoodRow ==
  ASSUME IInv, NEW m \in Media, Present(row[m])
  PROVE  Good(row[m])
  BY DEF Good, IInv, TypeOK, JobsMatchStatus

\* A step that leaves the workers alone changes no claim.
LEMMA ClaimUnchanged ==
  ASSUME IInv, UNCHANGED claim
  PROVE  /\ claim' \in [Workers -> Claim]
         /\ \A w \in Workers : claim'[w].at = claim[w].at /\ claim'[w].media = claim[w].media
  BY DEF IInv, TypeOK

\* A row whose status is not "absent" is there.
LEMMA PresentStatus ==
  ASSUME NEW r, r.status # "absent"
  PROVE  Present(r)
  BY DEF Present

-------------------------------------------------------------------------------
\* The user's actions on a post, an item and the failed list.

\* A user's action on a post is a step of the invariant if its rule keeps each row.
LEMMA ChangePostStep ==
  ASSUME IInv, NEW p \in Posts, NEW rows,
         \A m \in Media : Present(row[m]) => Keeps(row[m], rows[m]),
         ChangePost(p, rows),
         claim' \in [Workers -> Claim],
         \A w \in Workers : claim'[w].at = claim[w].at /\ claim'[w].media = claim[w].media
  PROVE  Step
<1> DEFINE new == [m \in Media |-> IF m \in MediaOf(p) /\ Present(row[m]) THEN rows[m] ELSE row[m]]
<1>1. CommitRows(new, {p}) /\ UNCHANGED <<canView, include, auto, crashes>>
  BY DEF ChangePost
<1>2. \A m \in Media : new[m] = row[m] \/ Keeps(row[m], new[m])
  OBVIOUS
<1>3. new = [m \in Media |-> new[m]]
  OBVIOUS
<1> HIDE DEF new
<1> QED
  BY <1>1, <1>2, <1>3, RulesStep DEF IInv, TypeOK

\* A user's action on an item is a step of the invariant if its rule keeps the row.
LEMMA ChangeItemStep ==
  ASSUME IInv, NEW m \in Media, NEW r, Present(row[m]) => Keeps(row[m], r),
         ChangeItem(m, r),
         claim' \in [Workers -> Claim],
         \A w \in Workers : claim'[w].at = claim[w].at /\ claim'[w].media = claim[w].media
  PROVE  Step
<1> DEFINE new == [row EXCEPT ![m] = r]
<1>1. CommitRows(new, {PostOf[m]}) /\ UNCHANGED <<canView, include, auto, crashes>>
  BY DEF ChangeItem
<1>2. \A n \in Media : new[n] = row[n] \/ Keeps(row[n], new[n])
  BY DEF ChangeItem, IInv, TypeOK
<1>3. new = [n \in Media |-> new[n]]
  BY DEF IInv, TypeOK
<1> HIDE DEF new
<1> QED
  BY <1>1, <1>2, <1>3, RulesStep DEF IInv, TypeOK

\* A failed list button is a step of the invariant if its rule keeps each row.
LEMMA ChangeFailedStep ==
  ASSUME IInv, NEW rows, \A m \in Media : Present(row[m]) => Keeps(row[m], rows[m]),
         ChangeFailed(rows),
         claim' \in [Workers -> Claim],
         \A w \in Workers : claim'[w].at = claim[w].at /\ claim'[w].media = claim[w].media
  PROVE  Step
<1> DEFINE new == [m \in Media |-> IF m \in FailedItems THEN rows[m] ELSE row[m]]
<1>1. CommitRows(new, {PostOf[m] : m \in FailedItems}) /\ UNCHANGED <<canView, include, auto, crashes>>
  BY DEF ChangeFailed
<1>2. \A m \in FailedItems : Present(row[m])
  BY DEF FailedItems, FailedStatuses, Present
<1>3. \A m \in Media : new[m] = row[m] \/ Keeps(row[m], new[m])
  BY <1>2
<1>4. new = [m \in Media |-> new[m]]
  OBVIOUS
<1> HIDE DEF new
<1> QED
  BY <1>1, <1>3, <1>4, RulesStep DEF IInv, TypeOK

\* _kind_wanted gives a Boolean.
LEMMA WantsType ==
  ASSUME NEW m, NEW included \in BOOLEAN
  PROVE  Wants(m, included) \in BOOLEAN
  BY DEF Wants

\* The actions on a post: download_post, skip_post, unskip_post.
LEMMA UserOnPost ==
  ASSUME IInv, NEW p \in Posts,
         \/ \E force \in BOOLEAN : DownloadPost(p, force)
         \/ SkipPost(p)
         \/ UnskipPost(p)
  PROVE  Step
<1>0. claim \in [Workers -> Claim] /\ include \in BOOLEAN
  BY DEF IInv, TypeOK
<1>1. ASSUME NEW force \in BOOLEAN, DownloadPost(p, force) PROVE Step
  <2> DEFINE rows == [m \in Media |-> DownloadInPost(row[m], Wants(m, include), force)]
  <2>1. ChangePost(p, rows) /\ UNCHANGED claim
    BY <1>1 DEF DownloadPost
  <2>2. \A m \in Media : Present(row[m]) => Keeps(row[m], rows[m])
    BY <1>0, GoodRow, WantsType, DownloadInPostKeeps
  <2> HIDE DEF rows
  <2> QED
    BY <2>1, <2>2, ClaimUnchanged, ChangePostStep
<1>2. ASSUME SkipPost(p) PROVE Step
  <2> DEFINE rows == [m \in Media |-> Skip(row[m])]
  <2>1. ChangePost(p, rows) /\ SignalCancel(RunningJobs(MediaOf(p)))
    BY <1>2 DEF SkipPost
  <2>2. \A m \in Media : Present(row[m]) => Keeps(row[m], rows[m])
    BY GoodRow, SkipKeeps
  <2> HIDE DEF rows
  <2> QED
    BY <1>0, <2>1, <2>2, SignalKeepsClaims, ChangePostStep
<1>3. ASSUME UnskipPost(p) PROVE Step
  <2> DEFINE rows == [m \in Media |-> UnskipInPost(row[m], Wants(m, include))]
  <2>1. ChangePost(p, rows) /\ UNCHANGED claim
    BY <1>3 DEF UnskipPost
  <2>2. \A m \in Media : Present(row[m]) => Keeps(row[m], rows[m])
    BY <1>0, GoodRow, WantsType, UnskipInPostKeeps
  <2> HIDE DEF rows
  <2> QED
    BY <2>1, <2>2, ClaimUnchanged, ChangePostStep
<1> QED
  BY <1>1, <1>2, <1>3

\* The actions on an item, on its job and on its file.
LEMMA UserOnItem ==
  ASSUME IInv, NEW m \in Media, ItemStep(m)
  PROVE  Step
<1>0. claim \in [Workers -> Claim]
  BY DEF IInv, TypeOK
<1>1. CASE RetryMedia(m)
  BY <1>1, GoodRow, RetryKeeps, ClaimUnchanged, ChangeItemStep DEF RetryMedia
<1>2. CASE SkipMedia(m)
  BY <1>0, <1>2, GoodRow, SkipKeeps, SignalKeepsClaims, ChangeItemStep DEF SkipMedia
<1>3. CASE UnskipMedia(m)
  BY <1>3, GoodRow, UnskipItemKeeps, ClaimUnchanged, ChangeItemStep DEF UnskipMedia
<1>4. CASE RemoveJob(m)
  <2>1. CASE row[m].job = "queued" /\ ChangeItem(m, RemoveQueued(row[m])) /\ UNCHANGED claim
    BY <2>1, GoodRow, RemoveQueuedKeeps, ClaimUnchanged, ChangeItemStep
  <2>2. CASE SignalCancel({m}) /\ UNCHANGED <<row, postStatus, canView, include, auto, crashes>>
    <3>1. /\ claim' \in [Workers -> Claim]
          /\ \A w \in Workers : claim'[w].at = claim[w].at /\ claim'[w].media = claim[w].media
      BY <1>0, <2>2, SignalKeepsClaims
    <3>2. Moves
      BY <2>2, <3>1, MovesNothing
    <3> QED
      BY <2>2, <3>1, <3>2 DEF IInv, TypeOK, JobsMatchStatus, OneDownloadPerMedia, NoStoppedJob,
               Step, StartsOnlyQueued
  <2> QED
    BY <1>4, <2>1, <2>2 DEF RemoveJob
<1>5. ASSUME NEW requeue \in BOOLEAN, FileGone(m, requeue) PROVE Step
  BY <1>5, GoodRow, FileMissingKeeps, ClaimUnchanged, ChangeItemStep DEF FileGone
<1>6. CASE FileBack(m)
  BY <1>6, GoodRow, FileFoundKeeps, ClaimUnchanged, ChangeItemStep DEF FileBack
<1> QED
  BY <1>1, <1>2, <1>3, <1>4, <1>5, <1>6 DEF ItemStep

\* The failed list: retry_failed and clear_failed.
LEMMA UserOnFailed ==
  ASSUME IInv, RetryFailed \/ ClearFailed
  PROVE  Step
<1>1. CASE RetryFailed
  <2> DEFINE rows == [m \in Media |-> Retry(row[m])]
  <2>1. ChangeFailed(rows) /\ UNCHANGED claim
    BY <1>1 DEF RetryFailed
  <2>2. \A m \in Media : Present(row[m]) => Keeps(row[m], rows[m])
    BY GoodRow, RetryKeeps
  <2> HIDE DEF rows
  <2> QED
    BY <2>1, <2>2, ClaimUnchanged, ChangeFailedStep
<1>2. CASE ClearFailed
  <2> DEFINE rows == [m \in Media |-> Skip(row[m])]
  <2>1. ChangeFailed(rows) /\ SignalCancel(RunningJobs(FailedItems))
    BY <1>2 DEF ClearFailed
  <2>2. \A m \in Media : Present(row[m]) => Keeps(row[m], rows[m])
    BY GoodRow, SkipKeeps
  <2>3. claim \in [Workers -> Claim]
    BY DEF IInv, TypeOK
  <2> HIDE DEF rows
  <2> QED
    BY <2>1, <2>2, <2>3, SignalKeepsClaims, ChangeFailedStep
<1> QED
  BY <1>1, <1>2

-------------------------------------------------------------------------------
\* What a provider reports.  The media whose rows it drops lose their claims.

\* sync_post, which may make, change and drop rows.
LEMMA SyncStep ==
  ASSUME IInv, NEW p \in Posts, NEW produced, NEW view \in BOOLEAN, NEW changed \in BOOLEAN,
         NEW refresh \in BOOLEAN, SyncPost(p, produced, view, changed, refresh)
  PROVE  Step
<1> DEFINE resolve == \/ ~Known(p) \/ changed \/ refresh
                      \/ \E m \in MediaOf(p) : row[m].status \in AwaitingLinks
           Resolved(m) == IF m \in produced THEN SyncProduced(row[m], Wants(m, include))
                          ELSE SyncUnproduced(row[m])
           Synced(m) == IF view THEN Resolved(m) ELSE Hide(Resolved(m))
           Before(m) == IF resolve THEN Synced(m) ELSE row[m]
           After(m) == IF ShouldAutoQueue(p, auto) THEN AutoQueue(Before(m)) ELSE Before(m)
           rows == [m \in Media |-> IF m \notin MediaOf(p) THEN row[m] ELSE After(m)]
           D == {m \in MediaOf(p) : Present(row[m]) /\ ~Present(rows[m])}
<1>1. /\ CommitRows(rows, {p})
      /\ OrphanClaims(D)
      /\ canView' = [canView EXCEPT ![p] = view]
      /\ UNCHANGED <<include, auto, crashes>>
  BY DEF SyncPost
<1>2. /\ row \in [Media -> Row] /\ \A m \in Media : RowConsistent(row[m])
      /\ include \in BOOLEAN /\ canView \in [Posts -> BOOLEAN] /\ claim \in [Workers -> Claim]
      /\ auto \in BOOLEAN /\ crashes \in 0..MaxCrashes
  BY DEF IInv, TypeOK, JobsMatchStatus
\* A row is kept by the rules, or is absent and has no job.
<1> DEFINE Fine(m, r) == Keeps(row[m], r) \/ r = Absent \/ r = row[m]
<1>3. \A m \in Media : Fine(m, Resolved(m))
  <2> TAKE m \in Media
  <2>1. Keeps(row[m], SyncProduced(row[m], Wants(m, include)))
    BY <1>2, WantsType, SyncProducedKeeps
  <2>2. SyncUnproduced(row[m]) \in {row[m], Absent}
    BY DEF SyncUnproduced
  <2> QED
    BY <2>1, <2>2
<1> HIDE DEF Resolved
<1>4. \A m \in Media : Fine(m, Synced(m))
  <2> TAKE m \in Media
  <2>1. Hide(Absent) = Absent
    BY DEF Hide, Absent
  <2>2. ASSUME NEW r, Good(r) PROVE Keeps(r, Hide(r))
    BY <2>2, HideKeeps
  <2>3. ~Present(row[m]) => Hide(row[m]) = row[m]
    BY DEF Hide, Present
  <2>4. Fine(m, Hide(Resolved(m)))
    <3>1. CASE Keeps(row[m], Resolved(m))
      BY <3>1, <2>2 DEF Keeps
    <3>2. CASE Resolved(m) = Absent
      BY <3>2, <2>1
    <3>3. CASE Resolved(m) = row[m]
      BY <3>3, <2>2, <2>3, GoodRow
    <3> QED
      BY <3>1, <3>2, <3>3, <1>3
  <2> QED
    BY <1>3, <2>4
<1> HIDE DEF Synced
<1>5. \A m \in Media : Fine(m, Before(m))
  BY <1>4
<1> HIDE DEF Before
<1>6. \A m \in Media : Fine(m, After(m))
  <2> TAKE m \in Media
  <2>1. AutoQueue(Absent) = Absent
    BY DEF AutoQueue, Absent
  <2>2. ASSUME NEW r, Good(r) PROVE Keeps(r, AutoQueue(r))
    BY <2>2, AutoQueueKeeps
  <2>3. ~Present(row[m]) => AutoQueue(row[m]) = row[m]
    BY DEF AutoQueue, Present
  <2>4. Fine(m, AutoQueue(Before(m)))
    <3>1. CASE Keeps(row[m], Before(m))
      BY <3>1, <2>2 DEF Keeps
    <3>2. CASE Before(m) = Absent
      BY <3>2, <2>1
    <3>3. CASE Before(m) = row[m]
      BY <3>3, <2>2, <2>3, GoodRow
    <3> QED
      BY <3>1, <3>2, <3>3, <1>5
  <2> QED
    BY <1>5, <2>4
<1> HIDE DEF After
<1>7. /\ Absent \in Row /\ RowConsistent(Absent) /\ ~Present(Absent) /\ Absent.job = "none"
      /\ ~StoppedJob(Absent) /\ Absent.status = "absent"
  BY MaxAttemptsAssumption DEF Absent, Row, RowConsistent, Present, Statuses, StoppedJob
<1>8. \A m \in Media :
        /\ rows[m] \in Row /\ RowConsistent(rows[m])
        /\ rows[m].job = "running" <=> row[m].job = "running" /\ m \notin D
        /\ StoppedJob(rows[m]) => StoppedJob(row[m])
        /\ rows[m].status = "downloading" => row[m].status = "downloading"
        /\ Archived(rows[m]) => Archived(row[m])
  <2> TAKE m \in Media
  <2>1. CASE m \notin MediaOf(p) \/ rows[m] = row[m]
    BY <2>1, <1>2
  <2>2. CASE m \in MediaOf(p) /\ rows[m] = Absent
    BY <2>2, <1>2, <1>7 DEF RowConsistent, Present, Row, Archived
  <2>3. CASE m \in MediaOf(p) /\ Keeps(row[m], rows[m])
    BY <2>3 DEF Keeps, Good
  <2> QED
    BY <2>1, <2>2, <2>3, <1>6
<1>9. D \subseteq Media
  BY DEF MediaOf
<1>10. rows \in [Media -> Row]
  BY <1>8
<1> HIDE DEF rows, D
<1>11. /\ claim' \in [Workers -> Claim]
       /\ \A w \in Workers :
            /\ claim'[w].at = claim[w].at
            /\ claim'[w].media = IF claim[w].media \in D THEN None ELSE claim[w].media
  BY <1>1, <1>2 DEF OrphanClaims, Claim
<1>12. canView' \in [Posts -> BOOLEAN] /\ UNCHANGED crashes
       /\ include' \in BOOLEAN /\ auto' \in BOOLEAN
  BY <1>1, <1>2
<1>13. /\ \A m \in Media : RowConsistent(rows[m])
       /\ \A m \in Media : rows[m].job = "running" <=> row[m].job = "running" /\ m \notin D
  BY <1>8
<1>14. /\ \A m \in Media : StoppedJob(rows[m]) => StoppedJob(row[m])
       /\ \A m \in Media : rows[m].status = "downloading" => row[m].status = "downloading"
       /\ \A m \in Media : Archived(rows[m]) => Archived(row[m])
  BY <1>8
<1> QED
  BY <1>1, <1>9, <1>10, <1>11, <1>12, <1>13, <1>14, KeptStep

-------------------------------------------------------------------------------
\* The creator's preferences, its deletion, and the retries that are due.

\* patch_creator and apply_creator_prefs.
LEMMA PatchStep ==
  ASSUME IInv, NEW included \in BOOLEAN, NEW automatic \in BOOLEAN,
         PatchCreator(included, automatic)
  PROVE  Step
<1> DEFINE Pref(m) == ApplyPrefs(row[m], Wants(m, included))
           New(m) == IF ShouldAutoQueue(PostOf[m], automatic) THEN AutoQueue(Pref(m)) ELSE Pref(m)
           rows == [m \in Media |-> IF Present(row[m]) THEN New(m) ELSE row[m]]
           known == {p \in Posts : Known(p)}
<1>1. /\ UNCHANGED <<canView, claim, crashes>> /\ include' = included /\ auto' = automatic
      /\ CommitRows(rows, known) \/ UNCHANGED <<row, postStatus>>
  BY DEF PatchCreator
<1>2. CASE UNCHANGED <<row, postStatus>>
  <2>1. Moves
    BY <1>1, <1>2, MovesNothing
  <2> QED
    BY <1>1, <1>2, <2>1
    DEF IInv, TypeOK, JobsMatchStatus, OneDownloadPerMedia, NoStoppedJob, Step, StartsOnlyQueued
<1>3. CASE CommitRows(rows, known)
  <2>1. \A m \in Media : Present(row[m]) => Keeps(row[m], New(m))
    <3> SUFFICES ASSUME NEW m \in Media, Present(row[m]) PROVE Keeps(row[m], New(m))
      OBVIOUS
    <3>1. Keeps(row[m], Pref(m))
      BY GoodRow, WantsType, ApplyPrefsKeeps
    <3> HIDE DEF Pref
    <3>2. Keeps(Pref(m), AutoQueue(Pref(m)))
      BY <3>1, AutoQueueKeeps DEF Keeps
    <3> QED
      BY <3>1, <3>2 DEF Keeps
  <2>2. \A m \in Media : rows[m] = row[m] \/ Keeps(row[m], rows[m])
    BY <2>1
  <2>3. rows = [m \in Media |-> rows[m]]
    OBVIOUS
  <2>4. /\ canView' \in [Posts -> BOOLEAN] /\ include' \in BOOLEAN /\ auto' \in BOOLEAN
        /\ UNCHANGED crashes
    BY <1>1 DEF IInv, TypeOK
  <2> HIDE DEF rows, known
  <2> QED
    BY <1>1, <1>3, <2>2, <2>3, <2>4, ClaimUnchanged, RulesStep
<1> QED
  BY <1>1, <1>2, <1>3

\* An absent row is consistent.
LEMMA AbsentRow ==
  /\ Absent \in Row /\ RowConsistent(Absent) /\ Absent.job = "none" /\ ~StoppedJob(Absent)
  /\ Absent.status = "absent"
  BY MaxAttemptsAssumption DEF Absent, Row, RowConsistent, Statuses, StoppedJob

\* delete_creator, with claims left to workers whose rows are gone.
LEMMA DeleteStep ==
  ASSUME IInv, NEW included \in BOOLEAN, NEW automatic \in BOOLEAN,
         DeleteCreator(included, automatic)
  PROVE  Step
<1>1. TypeOK'
  BY AbsentRow DEF IInv, TypeOK, DeleteCreator, Claim
<1>2. JobsMatchStatus'
  BY AbsentRow DEF DeleteCreator, JobsMatchStatus
<1>3. \A w \in Workers : claim'[w].media = None
  <2> TAKE w \in Workers
  <2>1. claim[w] \in Claim /\ (claim[w].at = "idle" => claim[w].media = None)
    BY DEF IInv, TypeOK, OneDownloadPerMedia
  <2>2. claim'[w] = CASE claim[w].at = "running" -> [claim[w] EXCEPT !.media = None, !.cancel = TRUE]
                      [] claim[w].at = "claimed" -> [claim[w] EXCEPT !.media = None]
                      [] OTHER -> claim[w]
    BY DEF DeleteCreator
  <2> QED
    BY <2>1, <2>2 DEF Claim
<1>4. \A m \in Media : row'[m].job # "running"
  BY AbsentRow DEF DeleteCreator
<1>5. OneDownloadPerMedia'
  BY <1>3, <1>4, LifecycleAssumption DEF OneDownloadPerMedia
<1>6. NoStoppedJob'
  BY AbsentRow DEF DeleteCreator, NoStoppedJob
<1>7. StartsOnlyQueued
  BY AbsentRow DEF DeleteCreator, StartsOnlyQueued
<1>8. Moves
  <2>1. \A w \in Workers : claim[w].media \in Media \cup {None}
    BY DEF IInv, TypeOK, Claim
  <2>2. \A m \in Media : row'[m] = Absent
    BY DEF DeleteCreator
  <2>3. row' \in [Media -> Row] /\ Media \in SUBSET Media
    BY <1>1 DEF TypeOK
  <2>4. \A m \in Media : Archived(row'[m]) => Archived(row[m])
    BY <2>2, AbsentRow DEF Archived
  <2>5. \A w \in Workers :
          claim'[w].media = IF claim[w].media \in Media THEN None ELSE claim[w].media
    BY <1>3, <2>1
  <2> QED
    BY <1>4, <2>3, <2>4, <2>5, MovesArranged
<1> QED
  BY <1>1, <1>2, <1>5, <1>6, <1>7, <1>8 DEF IInv, Step

\* retry_due.
LEMMA RetryDueStep ==
  ASSUME IInv, NEW due \in SUBSET Media, RetryDue(due)
  PROVE  Step
<1> DEFINE rows == [m \in Media |-> IF m \in due THEN QueueAgain(row[m]) ELSE row[m]]
           touched == {PostOf[m] : m \in due}
<1>1. CommitRows(rows, touched) /\ UNCHANGED <<canView, include, auto, claim, crashes>>
  BY DEF RetryDue
<1>2. \A m \in due : Keeps(row[m], QueueAgain(row[m]))
  BY GoodRow, QueueAgainKeeps DEF RetryDue, Present
<1>3. \A m \in Media : rows[m] = row[m] \/ Keeps(row[m], rows[m])
  BY <1>2
<1>4. rows = [m \in Media |-> rows[m]]
  OBVIOUS
<1> HIDE DEF rows, touched
<1> QED
  BY <1>1, <1>3, <1>4, ClaimUnchanged, RulesStep DEF IInv, TypeOK

-------------------------------------------------------------------------------
\* The workers.

\* start_download: the only step that makes a job run.
LEMMA StartStep ==
  ASSUME IInv, NEW w \in Workers, NEW m \in Media, Start(w, m)
  PROVE  Step
<1>1. Good(Started(row[m])) /\ Started(row[m]).job = "running" /\ ~Archived(Started(row[m]))
  <2>1. row[m] \in Row /\ RowConsistent(row[m]) /\ row[m].job = "queued"
    BY DEF Start, IInv, TypeOK, JobsMatchStatus
  <2>2. Good(row[m])
    BY <2>1 DEF Good, Present, RowConsistent
  <2> QED
    BY <2>1, <2>2, StartedKeeps
<1>2. /\ row' = [row EXCEPT ![m] = Started(row[m])]
      /\ claim' = [claim EXCEPT ![w] = [at |-> "claimed", media |-> m, cancel |-> FALSE]]
      /\ UNCHANGED <<postStatus, canView, include, auto, crashes>>
  BY DEF Start
<1>3. TypeOK'
  BY <1>1, <1>2 DEF IInv, TypeOK, Claim, Good
<1>4. JobsMatchStatus'
  BY <1>1, <1>2 DEF IInv, TypeOK, JobsMatchStatus, Good
<1>5. \A v \in Workers : claim[v].media # m
  BY DEF Start, IInv, OneDownloadPerMedia
<1>6. OneDownloadPerMedia'
  <2>1. \A v \in Workers : claim'[v].media = IF v = w THEN m ELSE claim[v].media
    BY <1>2 DEF IInv, TypeOK
  <2>2. \A v \in Workers : claim'[v].at = IF v = w THEN "claimed" ELSE claim[v].at
    BY <1>2 DEF IInv, TypeOK
  <2>3. \A n \in Media : row'[n].job = IF n = m THEN "running" ELSE row[n].job
    BY <1>1, <1>2 DEF IInv, TypeOK
  <2>4. claim[w].media = None
    BY DEF Start, IInv, OneDownloadPerMedia
  <2> QED
    BY <1>5, <2>1, <2>2, <2>3, <2>4, LifecycleAssumption DEF IInv, OneDownloadPerMedia
<1>7. NoStoppedJob'
  BY <1>1, <1>2 DEF IInv, TypeOK, NoStoppedJob, StoppedJob
<1>8. StartsOnlyQueued
  BY <1>2 DEF Start, IInv, TypeOK, StartsOnlyQueued
<1>9. Moves
  <2>1. \A n \in Media : row'[n] = IF n = m THEN Started(row[m]) ELSE row[n]
    BY <1>2 DEF IInv, TypeOK
  <2>2. \A v \in Workers : claim'[v].media = IF v = w THEN m ELSE claim[v].media
    BY <1>2 DEF IInv, TypeOK
  <2>3. claim[w].media = None /\ row[m].job = "queued"
    BY DEF Start, IInv, OneDownloadPerMedia
  <2>4. Queue!Take(w, m)
    BY <1>1, <2>1, <2>2, <2>3 DEF Queue!Take
  <2> QED
    BY <2>4 DEF Moves, Queue!Next
<1> QED
  BY <1>3, <1>4, <1>6, <1>7, <1>8, <1>9 DEF IInv, Step

\* A worker registers its reporter.
LEMMA RegisterStep ==
  ASSUME IInv, NEW w \in Workers, Register(w)
  PROVE  Step
<1>1. TypeOK'
  BY DEF IInv, TypeOK, Register, Claim
<1>2. JobsMatchStatus'
  BY DEF IInv, JobsMatchStatus, Register
<1>3. \A v \in Workers : /\ claim'[v].media = claim[v].media
                         /\ claim'[v].at = "idle" => claim[v].at = "idle"
  BY DEF IInv, TypeOK, Register, Claim
<1>4. OneDownloadPerMedia'
  BY <1>3 DEF IInv, OneDownloadPerMedia, Register
<1>5. NoStoppedJob'
  BY DEF IInv, NoStoppedJob, Register
<1>6. Moves
  BY <1>3, MovesNothing DEF Register
<1> QED
  BY <1>1, <1>2, <1>4, <1>5, <1>6 DEF IInv, Step, StartsOnlyQueued, Register

\* record_outcome.
LEMMA RecordStep ==
  ASSUME IInv, NEW w \in Workers, NEW outcome \in Outcomes, Record(w, outcome)
  PROVE  Step
<1>1. /\ claim' = [claim EXCEPT ![w] = Idle]
      /\ UNCHANGED <<canView, include, auto, crashes>>
  BY DEF Record
<1>2. /\ claim' \in [Workers -> Claim]
      /\ \A v \in Workers : claim'[v].at = IF v = w THEN "idle" ELSE claim[v].at
      /\ \A v \in Workers : claim'[v].media = IF v = w THEN None ELSE claim[v].media
  BY <1>1 DEF IInv, TypeOK, Claim, Idle
<1>3. CASE claim[w].media = None
  <2>1. UNCHANGED <<row, postStatus>>
    BY <1>3 DEF Record
  <2>2. Moves
    BY <1>2, <1>3, <2>1, MovesNothing
  <2> QED
    BY <1>1, <1>2, <1>3, <2>1, <2>2, LifecycleAssumption
    DEF IInv, TypeOK, JobsMatchStatus, OneDownloadPerMedia, NoStoppedJob, Step, StartsOnlyQueued
<1>4. CASE claim[w].media # None
  <2> DEFINE m == claim[w].media
             rows == [row EXCEPT ![m] = RecordOutcome(row[m], outcome)]
  <2>1. m \in Media /\ row[m].job = "running"
    BY <1>4 DEF IInv, TypeOK, OneDownloadPerMedia, Claim
  <2>2. Good(row[m])
    BY <2>1 DEF Good, Present, IInv, TypeOK, JobsMatchStatus, RowConsistent
  <2>3. Good(RecordOutcome(row[m], outcome)) /\ RecordOutcome(row[m], outcome).job = "none"
    BY <2>1, <2>2, RecordOutcomeKeeps
  <2>4. CommitRows(rows, {PostOf[m]})
    BY <1>4 DEF Record
  <2>5. /\ row' = rows
        /\ \A n \in Media : row'[n].job = IF n = m THEN "none" ELSE row[n].job
    BY <2>3, <2>4 DEF CommitRows, IInv, TypeOK
  <2>6. postStatus' \in [Posts -> PostStatuses \cup {"absent"}]
    BY <1>1, <2>4, StatusType DEF CommitRows, IInv, TypeOK
  <2>7. TypeOK'
    BY <1>1, <1>2, <2>1, <2>3, <2>5, <2>6 DEF IInv, TypeOK, Good
  <2>8. JobsMatchStatus'
    BY <2>1, <2>3, <2>5 DEF IInv, TypeOK, JobsMatchStatus, Good
  <2>9. OneDownloadPerMedia'
    BY <1>2, <2>1, <2>5, LifecycleAssumption DEF IInv, OneDownloadPerMedia
  <2>10. NoStoppedJob'
    BY <1>1, <2>1, <2>3, <2>5 DEF IInv, TypeOK, NoStoppedJob, StoppedJob
  <2>11. StartsOnlyQueued
    BY <2>1, <2>3, <2>5 DEF IInv, TypeOK, StartsOnlyQueued, Good, RowConsistent
  <2>12. Moves
    <3>1. \A n \in Media : n # m => row'[n] = row[n]
      BY <2>1, <2>5 DEF IInv, TypeOK
    <3>2. /\ [n \in Media |-> row'[n].job] = [[n \in Media |-> row[n].job] EXCEPT ![m] = "none"]
          /\ [v \in Workers |-> claim'[v].media]
               = [[v \in Workers |-> claim[v].media] EXCEPT ![w] = None]
      BY <1>2, <2>5
    <3>3. {n \in Media : Archived(row'[n])} \in
            {{n \in Media : Archived(row[n])}, {n \in Media : Archived(row[n])} \cup {m}}
      <4>1. ~Archived(row[m])
        BY <2>1 DEF Archived, IInv, JobsMatchStatus, RowConsistent
      <4>2. CASE Archived(row'[m])
        BY <2>1, <3>1, <4>2
      <4>3. CASE ~Archived(row'[m])
        BY <3>1, <4>1, <4>3
      <4> QED
        BY <4>2, <4>3
    <3>4. Queue!Return(w)
      BY <1>4, <3>2, <3>3 DEF Queue!Return
    <3> QED
      BY <3>4 DEF Moves, Queue!Next
  <2> QED
    BY <2>7, <2>8, <2>9, <2>10, <2>11, <2>12 DEF IInv, Step
<1> QED
  BY <1>3, <1>4

\* A restart with recover_interrupted.
LEMMA CrashStep ==
  ASSUME IInv, CrashRestart
  PROVE  Step
<1>1. /\ row' = [m \in Media |-> Recover(row[m])]
      /\ claim' = [w \in Workers |-> Idle]
      /\ crashes' = crashes + 1 /\ crashes < MaxCrashes
      /\ UNCHANGED <<postStatus, canView, include, auto>>
  BY DEF CrashRestart
<1>2. \A m \in Media :
        /\ Recover(row[m]) \in Row /\ RowConsistent(Recover(row[m]))
        /\ Recover(row[m]).job = IF row[m].job = "running" THEN "queued" ELSE row[m].job
        /\ Archived(Recover(row[m])) <=> Archived(row[m])
  BY RecoverKeeps DEF IInv, TypeOK, JobsMatchStatus
<1>3. Idle \in Claim /\ Idle.media = None
  BY DEF Idle, Claim
<1>4. crashes' \in 0..MaxCrashes
  BY <1>1, LifecycleAssumption DEF IInv, TypeOK
<1>5. TypeOK'
  BY <1>1, <1>2, <1>3, <1>4 DEF IInv, TypeOK
<1>6. JobsMatchStatus'
  BY <1>1, <1>2 DEF JobsMatchStatus
<1>7. OneDownloadPerMedia'
  BY <1>1, <1>2, <1>3, LifecycleAssumption DEF OneDownloadPerMedia
<1>8. NoStoppedJob'
  BY <1>1 DEF IInv, TypeOK, NoStoppedJob
<1>9. StartsOnlyQueued
  BY <1>1, <1>2 DEF StartsOnlyQueued, RowConsistent
<1>10. Queue!Restart
  <2>1. [w \in Workers |-> claim'[w].media] = [w \in Workers |-> None]
    BY <1>1, <1>3
  <2>2. [m \in Media |-> row'[m].job]
          = [m \in Media |-> IF row[m].job = "running" THEN "queued" ELSE row[m].job]
    BY <1>1, <1>2
  <2>3. {m \in Media : Archived(row'[m])} = {m \in Media : Archived(row[m])}
    BY <1>1, <1>2
  <2> QED
    BY <2>1, <2>2, <2>3 DEF Queue!Restart
<1>11. Moves
  BY <1>10 DEF Moves, Queue!Next
<1> QED
  BY <1>5, <1>6, <1>7, <1>8, <1>9, <1>11 DEF IInv, Step

-------------------------------------------------------------------------------
LEMMA InitIInv == Init => IInv
<1> SUFFICES ASSUME Init PROVE IInv
  OBVIOUS
<1>1. TypeOK
  BY AbsentRow, LifecycleAssumption DEF Init, TypeOK, Idle, Claim
<1>2. JobsMatchStatus
  BY AbsentRow DEF Init, JobsMatchStatus
<1>3. OneDownloadPerMedia
  BY AbsentRow, LifecycleAssumption DEF Init, OneDownloadPerMedia, Idle
<1>4. NoStoppedJob
  BY AbsentRow DEF Init, NoStoppedJob
<1> QED
  BY <1>1, <1>2, <1>3, <1>4 DEF IInv

\* Every step keeps the invariant and starts only queued jobs.
LEMMA NextStep == IInv /\ [Next]_vars => Step
<1> SUFFICES ASSUME IInv, [Next]_vars PROVE Step
  OBVIOUS
<1>1. ASSUME NEW p \in Posts, PostStep(p) PROVE Step
  <2>1. ASSUME NEW produced \in SUBSET MediaOf(p), Reresolve(p, produced) PROVE Step
    <3>1. SyncPost(p, produced, canView[p], FALSE, TRUE) /\ canView[p] \in BOOLEAN
      BY <2>1 DEF Reresolve, IInv, TypeOK
    <3>2. TRUE \in BOOLEAN /\ FALSE \in BOOLEAN
      OBVIOUS
    <3> QED
      BY <3>1, <3>2, SyncStep
  <2> QED
    BY <1>1, <2>1, SyncStep, UserOnPost DEF PostStep
<1>2. ASSUME NEW m \in Media, ItemStep(m) PROVE Step
  BY <1>2, UserOnItem
<1>3. CASE CreatorStep
  BY <1>3, UserOnFailed, PatchStep, DeleteStep, RetryDueStep DEF CreatorStep
<1>4. ASSUME NEW w \in Workers, WorkerStep(w) PROVE Step
  BY <1>4, StartStep, RegisterStep, RecordStep DEF WorkerStep
<1>5. CASE CrashRestart
  BY <1>5, CrashStep
<1>6. CASE UNCHANGED vars
  <2>1. Moves
    BY <1>6, MovesNothing DEF vars
  <2> QED
    BY <1>6, <2>1 DEF vars, IInv, TypeOK, JobsMatchStatus, OneDownloadPerMedia, NoStoppedJob, Step,
              StartsOnlyQueued
<1> QED
  BY <1>1, <1>2, <1>3, <1>4, <1>5, <1>6 DEF Next

\* The three parts of the invariant hold in every reachable state.
THEOREM Invariance == Spec => []IInv
<1>1. Init => IInv
  BY InitIInv
<1>2. IInv /\ [Next]_vars => IInv'
  BY NextStep DEF Step
<1> QED
  BY <1>1, <1>2, PTL DEF Spec

\* Every row, status, claim and flag has its type.
THEOREM TypeCorrect == Spec => []TypeOK
<1>1. IInv => TypeOK
  BY DEF IInv
<1> QED
  BY <1>1, Invariance, PTL

\* No row says one thing and its job another: nothing queued is without a job
\* to claim, nothing downloading without a running job, and nothing settled
\* keeps a job, whatever the user, the scans, the workers and restarts do.
THEOREM JobsAlwaysMatchStatus == Spec => []JobsMatchStatus
<1>1. IInv => JobsMatchStatus
  BY DEF IInv
<1> QED
  BY <1>1, Invariance, PTL

\* A media item is downloaded by one worker at a time, and each running job
\* has the worker that will record its outcome.
THEOREM AlwaysOneDownloadPerMedia == Spec => []OneDownloadPerMedia
<1>1. IInv => OneDownloadPerMedia
  BY DEF IInv
<1> QED
  BY <1>1, Invariance, PTL

\* Without a restart, what the user or the creator preferences stopped is never
\* downloaded on its own: no step takes a stopped item to "downloading".  (A
\* restart can break it: recover_interrupted queues the job of an item that was
\* skipped while it ran.)
THEOREM StoppedIsNeverStarted ==
  ASSUME MaxCrashes = 0
  PROVE  Spec => StoppedStaysStopped
<1> DEFINE Kept == \A m \in Media : row[m].status \in Stopped => row'[m].status # "downloading"
<1>1. IInv /\ [Next]_vars => [Kept]_vars
  <2> SUFFICES ASSUME IInv, [Next]_vars, NEW m \in Media, row[m].status \in Stopped,
                      row'[m].status = "downloading"
               PROVE  FALSE
    OBVIOUS
  <2>1. row[m].status = "downloading" \/ row[m].job = "queued"
    BY NextStep DEF Step, StartsOnlyQueued
  <2>2. crashes = 0
    BY DEF IInv, TypeOK
  <2> QED
    BY <2>1, <2>2 DEF IInv, NoStoppedJob, StoppedJob, Stopped
<1> QED
  BY <1>1, Invariance, PTL DEF Spec, StoppedStaysStopped

\* The media lifecycle implements the download queue: whatever the user, the
\* scans and the restarts do, a worker takes only a waiting job, holds it until
\* it returns it, the row is dropped or the process stops, and only a returned
\* download adds to the archive.
THEOREM LifecycleImplementsQueue == Spec => ImplementsQueue
<1>1. Init => Queue!Init
  BY AbsentRow DEF Init, Queue!Init, Idle, Archived
<1>2. IInv /\ [Next]_vars => [Queue!Next]_(Queue!queueVars)
  BY NextStep DEF Step, Moves
<1> QED
  BY <1>1, <1>2, Invariance, PTL DEF Spec, ImplementsQueue, Queue!Spec

-------------------------------------------------------------------------------
(* Post statuses. *)

\* A job that waits although its item was hidden.
HiddenJob(r) == r.job = "queued" /\ r.status = "no_access"

HiddenWait == \A m \in Media : HiddenJob(row[m]) => ~canView[PostOf[m]]

StatusInv == StoredStatusIsDerived /\ HiddenWait

-------------------------------------------------------------------------------
\* The rules.

\* No rule but Hide leaves a job waiting behind a hidden item.
LEMMA NoRuleHides ==
  ASSUME NEW r \in Row, ~HiddenJob(r), NEW wants \in BOOLEAN, NEW force \in BOOLEAN
  PROVE  /\ ~HiddenJob(Skip(r)) /\ ~HiddenJob(RemoveQueued(r))
         /\ ~HiddenJob(AutoQueue(r)) /\ ~HiddenJob(QueueAgain(r))
         /\ ~HiddenJob(Requeue(r, force)) /\ ~HiddenJob(Retry(r))
         /\ ~HiddenJob(UnskipItem(r)) /\ ~HiddenJob(FileFound(r))
         /\ ~HiddenJob(ApplyPrefs(r, wants))
<1> USE DEF HiddenJob, Row
<1>1. ~HiddenJob(Skip(r)) /\ ~HiddenJob(RemoveQueued(r)) /\ ~HiddenJob(FileFound(r))
  BY DEF Skip, RemoveQueued, DropQueuedJob, FileFound
<1>2. ~HiddenJob(AutoQueue(r)) /\ ~HiddenJob(QueueAgain(r)) /\ ~HiddenJob(Requeue(r, force))
  BY DEF AutoQueue, QueueAgain, Requeue, AddJob
<1>3. ~HiddenJob(Retry(r))
  BY DEF Retry, Requeue, AddJob
<1>4. ~HiddenJob(UnskipItem(r))
  BY DEF UnskipItem, Discover
<1>5. ~HiddenJob(ApplyPrefs(r, wants))
  BY DEF ApplyPrefs, UserSkipped, DropQueuedJob
<1> QED
  BY <1>1, <1>2, <1>3, <1>4, <1>5

\* The user's actions on a post's items are compositions of those rules.
LEMMA NoPostActionHides ==
  ASSUME NEW r, Good(r), ~HiddenJob(r), NEW wants \in BOOLEAN, NEW force \in BOOLEAN
  PROVE  ~HiddenJob(DownloadInPost(r, wants, force)) /\ ~HiddenJob(UnskipInPost(r, wants))
<1>1. Good(Discover(r)) /\ ~HiddenJob(Discover(r))
  BY DiscoverKeeps DEF Keeps, HiddenJob, Discover, Good, Row
<1>2. /\ Good(ApplyPrefs(Discover(r), wants)) /\ ~HiddenJob(ApplyPrefs(Discover(r), wants))
  BY <1>1, ApplyPrefsKeeps, NoRuleHides DEF Keeps, Good
<1>3. ~HiddenJob(Requeue(r, force)) /\ ~HiddenJob(Requeue(ApplyPrefs(Discover(r), wants), force))
  BY <1>2, NoRuleHides DEF Good
<1> QED
  BY <1>2, <1>3 DEF DownloadInPost, UnskipInPost

\* What the resolver produced is not hidden before the post is.
LEMMA NoSyncHides ==
  ASSUME NEW r \in Row, RowConsistent(r), NEW wants \in BOOLEAN
  PROVE  ~HiddenJob(SyncProduced(r, wants)) /\ ~HiddenJob(SyncUnproduced(r))
<1> DEFINE s == CASE ~Present(r) -> NewRow
                  [] r.status = "no_access" -> [r EXCEPT !.status = "discovered"]
                  [] OTHER -> r
<1>1. s \in Row /\ s.status # "no_access"
  BY MaxAttemptsAssumption
  DEF Row, NewRow, Present, Statuses, Stopped, Finished, AwaitingLinks, ActiveStatuses
<1> HIDE DEF s
<1>2. ~HiddenJob(ApplyPrefs(s, wants))
  BY <1>1, NoRuleHides DEF HiddenJob
<1>3. SyncProduced(r, wants) = ApplyPrefs(s, wants)
  BY DEF SyncProduced, s
<1>4. ~HiddenJob(SyncUnproduced(r))
  BY DEF SyncUnproduced, HiddenJob, Absent
<1> QED
  BY <1>2, <1>3, <1>4

\* A failed or finished run leaves no job.
LEMMA RecordedHasNoJob ==
  ASSUME NEW r \in Row, NEW outcome \in Outcomes
  PROVE  ~HiddenJob(RecordOutcome(r, outcome))
  BY DEF HiddenJob, RecordOutcome, Completed, Cancelled, Failed, Row

-------------------------------------------------------------------------------
\* Sessions that derive the status of every post they touch.

\* A commit that touches the posts of all the rows it changes keeps the statuses derived.
LEMMA CommittedIsDerived ==
  ASSUME IInv, StoredStatusIsDerived, NEW rows, NEW touched,
         CommitRows(rows, touched),
         canView' \in [Posts -> BOOLEAN],
         \A p \in Posts : p \notin touched => canView'[p] = canView[p],
         \A m \in Media : PostOf[m] \notin touched => rows[m] = row[m]
  PROVE  StoredStatusIsDerived'
<1> SUFFICES ASSUME NEW p \in Posts
             PROVE  IF Known(p)' THEN postStatus'[p] = DerivePostStatus(canView'[p], ItemsOf(p, row'))
                    ELSE ItemsOf(p, row') = {}
  BY DEF StoredStatusIsDerived
<1>1. row' = rows
  BY DEF CommitRows
<1>2. CASE p \in touched
  <2>1. postStatus'[p] = DerivePostStatus(canView'[p], ItemsOf(p, row'))
    BY <1>1, <1>2 DEF CommitRows
  <2>2. postStatus'[p] \in PostStatuses
    BY <2>1, StatusType
  <2> QED
    BY <2>1, <2>2 DEF Known, PostStatuses
<1>3. CASE p \notin touched
  <2>1. postStatus'[p] = postStatus[p] /\ canView'[p] = canView[p]
    BY <1>3 DEF CommitRows
  <2>2. \A m \in MediaOf(p) : row'[m] = row[m]
    BY <1>1, <1>3 DEF MediaOf
  <2>3. ItemsOf(p, row') = ItemsOf(p, row)
    BY <2>2 DEF ItemsOf
  <2> QED
    BY <2>1, <2>3 DEF StoredStatusIsDerived, Known
<1> QED
  BY <1>2, <1>3

\* The same, for sessions that leave access to the posts alone.
LEMMA CommitStep ==
  ASSUME IInv, StatusInv, NEW rows, NEW touched, CommitRows(rows, touched), UNCHANGED canView,
         \A m \in Media : PostOf[m] \notin touched => rows[m] = row[m],
         \A m \in Media : HiddenJob(rows[m]) => HiddenJob(row[m])
  PROVE  StatusInv'
<1>1. StoredStatusIsDerived'
  BY CommittedIsDerived DEF StatusInv, IInv, TypeOK
<1>2. row' = rows
  BY DEF CommitRows
<1>3. HiddenWait'
  BY <1>2 DEF StatusInv, HiddenWait
<1> QED
  BY <1>1, <1>3 DEF StatusInv

\* A user's action on a post.
LEMMA ChangePostDerives ==
  ASSUME IInv, StatusInv, NEW p \in Posts, NEW rows, ChangePost(p, rows),
         \A m \in Media : Present(row[m]) /\ HiddenJob(rows[m]) => HiddenJob(row[m])
  PROVE  StatusInv'
<1> DEFINE new == [m \in Media |-> IF m \in MediaOf(p) /\ Present(row[m]) THEN rows[m] ELSE row[m]]
<1>1. CommitRows(new, {p}) /\ UNCHANGED canView
  BY DEF ChangePost
<1>2. \A m \in Media : PostOf[m] \notin {p} => new[m] = row[m]
  BY DEF MediaOf
<1>3. \A m \in Media : HiddenJob(new[m]) => HiddenJob(row[m])
  OBVIOUS
<1> HIDE DEF new
<1> QED
  BY <1>1, <1>2, <1>3, CommitStep

\* A user's action on an item, or what the library check finds of it.
LEMMA ChangeItemDerives ==
  ASSUME IInv, StatusInv, NEW m \in Media, NEW r, ChangeItem(m, r),
         HiddenJob(r) => HiddenJob(row[m])
  PROVE  StatusInv'
<1> DEFINE new == [row EXCEPT ![m] = r]
<1>1. CommitRows(new, {PostOf[m]}) /\ UNCHANGED canView
  BY DEF ChangeItem
<1>2. row \in [Media -> Row]
  BY DEF IInv, TypeOK
<1>3. /\ \A n \in Media : PostOf[n] \notin {PostOf[m]} => new[n] = row[n]
      /\ \A n \in Media : HiddenJob(new[n]) => HiddenJob(row[n])
  BY <1>2
<1> HIDE DEF new
<1> QED
  BY <1>1, <1>3, CommitStep

\* A button of the failed list.
LEMMA ChangeFailedDerives ==
  ASSUME IInv, StatusInv, NEW rows, ChangeFailed(rows),
         \A m \in Media : HiddenJob(rows[m]) => HiddenJob(row[m])
  PROVE  StatusInv'
<1> DEFINE new == [m \in Media |-> IF m \in FailedItems THEN rows[m] ELSE row[m]]
           touched == {PostOf[m] : m \in FailedItems}
<1>1. CommitRows(new, touched) /\ UNCHANGED canView
  BY DEF ChangeFailed
<1>2. /\ \A m \in Media : PostOf[m] \notin touched => new[m] = row[m]
      /\ \A m \in Media : HiddenJob(new[m]) => HiddenJob(row[m])
  OBVIOUS
<1> HIDE DEF new, touched
<1> QED
  BY <1>1, <1>2, CommitStep

\* A row is well-formed, and _kind_wanted gives a Boolean.
LEMMA RowsAndWants ==
  ASSUME IInv
  PROVE  /\ \A m \in Media : row[m] \in Row /\ RowConsistent(row[m])
         /\ \A m \in Media : Wants(m, include) \in BOOLEAN
         /\ include \in BOOLEAN
  BY WantsType DEF IInv, TypeOK, JobsMatchStatus

\* The actions on a post.
LEMMA PostDerives ==
  ASSUME IInv, StatusInv, NEW p \in Posts,
         \/ \E force \in BOOLEAN : DownloadPost(p, force)
         \/ SkipPost(p)
         \/ UnskipPost(p)
  PROVE  StatusInv'
<1>1. ASSUME NEW force \in BOOLEAN, DownloadPost(p, force) PROVE StatusInv'
  <2> DEFINE rows == [m \in Media |-> DownloadInPost(row[m], Wants(m, include), force)]
  <2>1. ChangePost(p, rows)
    BY <1>1 DEF DownloadPost
  <2>2. \A m \in Media : Present(row[m]) /\ HiddenJob(rows[m]) => HiddenJob(row[m])
    BY GoodRow, RowsAndWants, NoPostActionHides
  <2> HIDE DEF rows
  <2> QED
    BY <2>1, <2>2, ChangePostDerives
<1>2. CASE SkipPost(p)
  <2> DEFINE rows == [m \in Media |-> Skip(row[m])]
  <2>1. ChangePost(p, rows)
    BY <1>2 DEF SkipPost
  <2>2. \A m \in Media : Present(row[m]) /\ HiddenJob(rows[m]) => HiddenJob(row[m])
    BY RowsAndWants, NoRuleHides
  <2> HIDE DEF rows
  <2> QED
    BY <2>1, <2>2, ChangePostDerives
<1>3. CASE UnskipPost(p)
  <2> DEFINE rows == [m \in Media |-> UnskipInPost(row[m], Wants(m, include))]
  <2>1. ChangePost(p, rows)
    BY <1>3 DEF UnskipPost
  <2>2. \A m \in Media : Present(row[m]) /\ HiddenJob(rows[m]) => HiddenJob(row[m])
    BY GoodRow, RowsAndWants, NoPostActionHides
  <2> HIDE DEF rows
  <2> QED
    BY <2>1, <2>2, ChangePostDerives
<1> QED
  BY <1>1, <1>2, <1>3

\* The actions on an item, on its job and on its file.
LEMMA ItemDerives ==
  ASSUME IInv, StatusInv, NEW m \in Media, ItemStep(m)
  PROVE  StatusInv'
<1>0. /\ ~HiddenJob(row[m]) =>
           /\ ~HiddenJob(Retry(row[m])) /\ ~HiddenJob(Skip(row[m])) /\ ~HiddenJob(UnskipItem(row[m]))
           /\ ~HiddenJob(RemoveQueued(row[m])) /\ ~HiddenJob(FileFound(row[m]))
      /\ row[m] \in Row
  BY RowsAndWants, NoRuleHides
<1>1. CASE RetryMedia(m) \/ SkipMedia(m) \/ UnskipMedia(m)
  BY <1>0, <1>1, ChangeItemDerives DEF RetryMedia, SkipMedia, UnskipMedia
<1>2. CASE RemoveJob(m)
  <2>1. CASE ChangeItem(m, RemoveQueued(row[m]))
    BY <1>0, <2>1, ChangeItemDerives
  <2>2. CASE UNCHANGED <<row, postStatus, canView, include, auto, crashes>>
    BY <2>2 DEF StatusInv, StoredStatusIsDerived, HiddenWait, Known, ItemsOf
  <2> QED
    BY <1>2, <2>1, <2>2 DEF RemoveJob
<1>3. ASSUME NEW requeue \in BOOLEAN, FileGone(m, requeue) PROVE StatusInv'
  <2> DEFINE gone == [row[m] EXCEPT !.status = "missing"]
  <2>1. gone \in Row /\ ~HiddenJob(gone)
    BY <1>0 DEF Row, Statuses, AwaitingLinks, HiddenJob
  <2> HIDE DEF gone
  <2>2. ~HiddenJob(QueueAgain(gone))
    BY <2>1, NoRuleHides
  <2>3. ~HiddenJob(FileMissing(row[m], requeue))
    BY <2>1, <2>2 DEF FileMissing, gone
  <2> QED
    BY <1>3, <2>3, ChangeItemDerives DEF FileGone
<1>4. CASE FileBack(m)
  BY <1>0, <1>4, ChangeItemDerives DEF FileBack
<1> QED
  BY <1>1, <1>2, <1>3, <1>4 DEF ItemStep

\* The failed list, the retries that are due and the preferences.
LEMMA CreatorDerives ==
  ASSUME IInv, StatusInv, CreatorStep
  PROVE  StatusInv'
<1>1. CASE RetryFailed
  <2> DEFINE rows == [m \in Media |-> Retry(row[m])]
  <2>1. ChangeFailed(rows)
    BY <1>1 DEF RetryFailed
  <2>2. \A m \in Media : HiddenJob(rows[m]) => HiddenJob(row[m])
    BY RowsAndWants, NoRuleHides
  <2> HIDE DEF rows
  <2> QED
    BY <2>1, <2>2, ChangeFailedDerives
<1>2. CASE ClearFailed
  <2> DEFINE rows == [m \in Media |-> Skip(row[m])]
  <2>1. ChangeFailed(rows)
    BY <1>2 DEF ClearFailed
  <2>2. \A m \in Media : HiddenJob(rows[m]) => HiddenJob(row[m])
    BY RowsAndWants, NoRuleHides
  <2> HIDE DEF rows
  <2> QED
    BY <2>1, <2>2, ChangeFailedDerives
<1>3. ASSUME NEW included \in BOOLEAN, NEW automatic \in BOOLEAN, PatchCreator(included, automatic)
      PROVE  StatusInv'
  <2> DEFINE Pref(m) == ApplyPrefs(row[m], Wants(m, included))
             New(m) == IF ShouldAutoQueue(PostOf[m], automatic) THEN AutoQueue(Pref(m)) ELSE Pref(m)
             rows == [m \in Media |-> IF Present(row[m]) THEN New(m) ELSE row[m]]
             known == {p \in Posts : Known(p)}
  <2>1. UNCHANGED canView /\ (CommitRows(rows, known) \/ UNCHANGED <<row, postStatus>>)
    BY <1>3 DEF PatchCreator
  <2>2. CASE UNCHANGED <<row, postStatus>>
    BY <2>1, <2>2 DEF StatusInv, StoredStatusIsDerived, HiddenWait, Known, ItemsOf
  <2>3. CASE CommitRows(rows, known)
    <3>1. \A m \in Media : PostOf[m] \notin known => rows[m] = row[m]
      <4> SUFFICES ASSUME NEW m \in Media, PostOf[m] \notin known PROVE ~Present(row[m])
        OBVIOUS
      <4>1. PostOf[m] \in Posts /\ m \in MediaOf(PostOf[m])
        BY LifecycleAssumption DEF MediaOf
      <4>2. ItemsOf(PostOf[m], row) = {}
        BY <4>1 DEF StatusInv, StoredStatusIsDerived
      <4> QED
        BY <4>1, <4>2 DEF ItemsOf
    <3>2. \A m \in Media : HiddenJob(rows[m]) => HiddenJob(row[m])
      <4> SUFFICES ASSUME NEW m \in Media, Present(row[m]), ~HiddenJob(row[m])
                   PROVE  ~HiddenJob(New(m))
        OBVIOUS
      <4>1. Good(Pref(m)) /\ ~HiddenJob(Pref(m))
        BY GoodRow, WantsType, ApplyPrefsKeeps, NoRuleHides DEF Keeps, Good
      <4> HIDE DEF Pref
      <4>2. ~HiddenJob(AutoQueue(Pref(m)))
        BY <4>1, NoRuleHides DEF Good
      <4> QED
        BY <4>1, <4>2
    <3> HIDE DEF rows, known
    <3> QED
      BY <2>1, <2>3, <3>1, <3>2, CommitStep
  <2> QED
    BY <2>1, <2>2, <2>3
<1>4. ASSUME NEW included \in BOOLEAN, NEW automatic \in BOOLEAN, DeleteCreator(included, automatic)
      PROVE  StatusInv'
  <2>1. /\ \A m \in Media : row'[m] = Absent
        /\ \A p \in Posts : postStatus'[p] = "absent"
    BY <1>4 DEF DeleteCreator
  <2>2. \A p \in Posts : ItemsOf(p, row') = {}
    BY <2>1, AbsentRow DEF ItemsOf, MediaOf, Present
  <2>3. HiddenWait'
    BY <2>1, AbsentRow DEF HiddenWait, HiddenJob
  <2> QED
    BY <2>1, <2>2, <2>3 DEF StatusInv, StoredStatusIsDerived, Known
<1>5. ASSUME NEW due \in SUBSET Media, RetryDue(due) PROVE StatusInv'
  <2> DEFINE rows == [m \in Media |-> IF m \in due THEN QueueAgain(row[m]) ELSE row[m]]
             touched == {PostOf[m] : m \in due}
  <2>1. CommitRows(rows, touched) /\ UNCHANGED canView
    BY <1>5 DEF RetryDue
  <2>2. \A m \in Media : PostOf[m] \notin touched => rows[m] = row[m]
    OBVIOUS
  <2>3. \A m \in Media : HiddenJob(rows[m]) => HiddenJob(row[m])
    BY RowsAndWants, NoRuleHides
  <2> HIDE DEF rows, touched
  <2> QED
    BY <2>1, <2>2, <2>3, CommitStep
<1> QED
  BY <1>1, <1>2, <1>3, <1>4, <1>5 DEF CreatorStep

-------------------------------------------------------------------------------
\* What a provider reports: a post that can be viewed again is resolved again.
LEMMA SyncDerives ==
  ASSUME IInv, StatusInv, NEW p \in Posts, NEW produced, NEW view \in BOOLEAN,
         NEW changed \in BOOLEAN, NEW refresh \in BOOLEAN,
         SyncPost(p, produced, view, changed, refresh)
  PROVE  StatusInv'
<1> DEFINE resolve == \/ ~Known(p) \/ changed \/ refresh
                      \/ \E m \in MediaOf(p) : row[m].status \in AwaitingLinks
           Resolved(m) == IF m \in produced THEN SyncProduced(row[m], Wants(m, include))
                          ELSE SyncUnproduced(row[m])
           Synced(m) == IF view THEN Resolved(m) ELSE Hide(Resolved(m))
           Before(m) == IF resolve THEN Synced(m) ELSE row[m]
           After(m) == IF ShouldAutoQueue(p, auto) THEN AutoQueue(Before(m)) ELSE Before(m)
           rows == [m \in Media |-> IF m \notin MediaOf(p) THEN row[m] ELSE After(m)]
<1>1. /\ CommitRows(rows, {p})
      /\ canView' = [canView EXCEPT ![p] = view]
      /\ Known(p) /\ view # canView[p] => changed
  BY DEF SyncPost
<1>2. canView \in [Posts -> BOOLEAN]
  BY DEF IInv, TypeOK
<1>3. StoredStatusIsDerived'
  <2>1. \A m \in Media : PostOf[m] \notin {p} => rows[m] = row[m]
    BY DEF MediaOf
  <2>2. canView' \in [Posts -> BOOLEAN] /\ \A q \in Posts : q \notin {p} => canView'[q] = canView[q]
    BY <1>1, <1>2
  <2> HIDE DEF rows
  <2> QED
    BY <1>1, <2>1, <2>2, CommittedIsDerived DEF StatusInv
<1>4. row' = rows
  BY <1>1 DEF CommitRows
<1>5. ASSUME view, NEW m \in MediaOf(p) PROVE ~HiddenJob(After(m))
  <2>1. m \in Media /\ PostOf[m] = p
    BY <1>5 DEF MediaOf
  <2>2. ~HiddenJob(Resolved(m))
    BY <2>1, RowsAndWants, NoSyncHides
  <2>3. ~resolve => ~HiddenJob(row[m])
    BY <1>1, <1>2, <1>5, <2>1 DEF StatusInv, HiddenWait
  <2>4. ~HiddenJob(Before(m))
    BY <1>5, <2>2, <2>3
  <2> HIDE DEF Before
  <2> QED
    BY <2>4 DEF AutoQueue, AddJob, HiddenJob
<1>6. HiddenWait'
  <2> SUFFICES ASSUME NEW m \in Media, HiddenJob(rows[m]) PROVE ~canView'[PostOf[m]]
    BY <1>4 DEF HiddenWait
  <2>1. PostOf[m] \in Posts
    BY LifecycleAssumption
  <2>2. CASE PostOf[m] = p
    BY <1>1, <1>2, <1>5, <2>1, <2>2 DEF MediaOf
  <2>3. CASE PostOf[m] # p
    BY <1>1, <1>2, <2>1, <2>3 DEF MediaOf, StatusInv, HiddenWait
  <2> QED
    BY <2>2, <2>3
<1> QED
  BY <1>3, <1>6 DEF StatusInv

-------------------------------------------------------------------------------
\* The workers.

\* A wanted item that is still to be downloaded makes its post pending.
LEMMA ActiveIsPending ==
  ASSUME NEW items, NEW r \in items, r.wanted, r.status \in ActiveStatuses \ Stopped
  PROVE  DerivePostStatus(TRUE, items) = "pending"
<1> DEFINE statuses == {i.status : i \in {j \in items : j.wanted /\ j.status \notin Stopped}}
           stopped == \E i \in items : i.status = "cancelled" \/ UserSkipped(i)
<1>1. r.status \in statuses
  OBVIOUS
<1>2. DerivePostStatus(TRUE, items) =
        CASE ~TRUE -> "no_access"
          [] TRUE /\ statuses = {} -> IF stopped THEN "skipped" ELSE "no_media"
          [] TRUE /\ statuses \cap ActiveStatuses # {} -> "pending"
          [] TRUE /\ statuses = {"completed"} -> "completed"
          [] TRUE /\ statuses = {"unsupported"} -> "unsupported"
          [] OTHER -> "partial"
  BY Zenon DEF DerivePostStatus
<1> HIDE DEF statuses, stopped
<1>3. r.status # "completed" /\ r.status # "unsupported"
  BY DEF ActiveStatuses
<1>4. /\ statuses # {} /\ statuses \cap ActiveStatuses # {}
      /\ statuses # {"completed"} /\ statuses # {"unsupported"}
  BY <1>1, <1>3
<1> QED
  BY <1>2, <1>4

\* A claim derives nothing: its item counted as active and still does.
LEMMA StartDerives ==
  ASSUME IInv, crashes = 0, StatusInv, NEW w \in Workers, NEW m \in Media, Start(w, m)
  PROVE  StatusInv'
<1> DEFINE q == PostOf[m]
           old == ItemsOf(q, row)
           new == ItemsOf(q, row')
           Counted(items) == {r.status : r \in {i \in items : i.wanted /\ i.status \notin Stopped}}
<1>1. /\ row' = [row EXCEPT ![m] = Started(row[m])]
      /\ UNCHANGED <<postStatus, canView>>
      /\ row[m].job = "queued"
      /\ row \in [Media -> Row] /\ q \in Posts /\ canView \in [Posts -> BOOLEAN]
  BY LifecycleAssumption DEF Start, IInv, TypeOK
<1>2. /\ \A n \in Media : n # m => row'[n] = row[n]
      /\ row'[m] = Started(row[m])
      /\ Started(row[m]).status = "downloading" /\ Started(row[m]).wanted = row[m].wanted
  BY <1>1 DEF Started, Row
<1>3. Present(row[m]) /\ Present(row'[m]) /\ m \in MediaOf(q)
  BY <1>1, <1>2 DEF Present, MediaOf, IInv, JobsMatchStatus, RowConsistent
<1>4. row[m] \in old /\ row'[m] \in new
  BY <1>3 DEF ItemsOf
<1>5. \A r : r # row[m] /\ r \in old => r \in new
  BY <1>2 DEF ItemsOf, MediaOf
<1>6. \A r : r # row'[m] /\ r \in new => r \in old
  BY <1>2 DEF ItemsOf, MediaOf
<1>7. ASSUME canView[q] PROVE row[m].status \in ActiveStatuses \ Stopped
  <2>1. ~HiddenJob(row[m]) /\ ~StoppedJob(row[m]) /\ RowConsistent(row[m]) /\ row[m] \in Row
    BY <1>1, <1>7 DEF StatusInv, HiddenWait, IInv, NoStoppedJob, TypeOK, JobsMatchStatus
  <2> QED
    BY <1>1, <2>1
    DEF HiddenJob, StoppedJob, RowConsistent, Row, Statuses, Stopped, Finished, AwaitingLinks,
        ActiveStatuses
<1>8. DerivePostStatus(canView[q], new) = DerivePostStatus(canView[q], old)
  <2>1. CASE ~canView[q]
    BY <2>1 DEF DerivePostStatus
  <2>2. CASE canView[q] /\ row[m].wanted
    <3>1. DerivePostStatus(TRUE, old) = "pending"
      BY <1>4, <1>7, <2>2, ActiveIsPending
    <3>2. row'[m].wanted /\ row'[m].status \in ActiveStatuses \ Stopped
      BY <1>2, <2>2 DEF Stopped, ActiveStatuses
    <3>3. DerivePostStatus(TRUE, new) = "pending"
      BY <1>4, <3>2, ActiveIsPending
    <3> HIDE DEF old, new
    <3> QED
      BY <2>2, <3>1, <3>3
  <2>3. CASE canView[q] /\ ~row[m].wanted
    <3>1. Counted(old) = Counted(new)
      <4>1. \A s : s \in Counted(old) => s \in Counted(new)
        BY <1>5, <2>3
      <4>2. \A s : s \in Counted(new) => s \in Counted(old)
        BY <1>2, <1>6, <2>3
      <4> QED
        BY <4>1, <4>2
    <3>2. (\E r \in old : r.status = "cancelled" \/ UserSkipped(r))
            <=> (\E r \in new : r.status = "cancelled" \/ UserSkipped(r))
      BY <1>2, <1>5, <1>6, <1>7, <2>3 DEF UserSkipped, Stopped
    <3> HIDE DEF old, new
    <3> QED
      BY <3>1, <3>2 DEF DerivePostStatus
  <2> QED
    BY <1>1, <2>1, <2>2, <2>3
<1>9. StoredStatusIsDerived'
  <2> SUFFICES ASSUME NEW p \in Posts
               PROVE  IF Known(p) THEN postStatus[p] = DerivePostStatus(canView[p], ItemsOf(p, row'))
                      ELSE ItemsOf(p, row') = {}
    BY <1>1 DEF StoredStatusIsDerived, Known
  <2>1. CASE p = q
    <3>1. Known(q) /\ postStatus[q] = DerivePostStatus(canView[q], old)
      BY <1>1, <1>4 DEF StatusInv, StoredStatusIsDerived
    <3> HIDE DEF old
    <3> QED
      BY <1>8, <2>1, <3>1
  <2>2. CASE p # q
    <3>1. ItemsOf(p, row') = ItemsOf(p, row)
      <4>1. \A n \in MediaOf(p) : row'[n] = row[n]
        BY <1>2, <2>2 DEF MediaOf
      <4> QED
        BY <4>1 DEF ItemsOf
    <3> QED
      BY <3>1 DEF StatusInv, StoredStatusIsDerived
  <2> QED
    BY <2>1, <2>2
<1>10. HiddenWait'
  BY <1>1, <1>2 DEF StatusInv, HiddenWait, HiddenJob
<1> QED
  BY <1>9, <1>10 DEF StatusInv

\* record_outcome derives the status of the post it touches.
LEMMA RecordDerives ==
  ASSUME IInv, StatusInv, NEW w \in Workers, NEW outcome \in Outcomes, Record(w, outcome)
  PROVE  StatusInv'
<1>1. CASE claim[w].media = None
  BY <1>1 DEF Record, StatusInv, StoredStatusIsDerived, HiddenWait, Known, ItemsOf
<1>2. CASE claim[w].media # None
  <2> DEFINE m == claim[w].media
             rows == [row EXCEPT ![m] = RecordOutcome(row[m], outcome)]
  <2>1. m \in Media
    BY <1>2 DEF IInv, TypeOK, Claim
  <2>2. CommitRows(rows, {PostOf[m]}) /\ UNCHANGED canView
    BY <1>2 DEF Record
  <2>3. row \in [Media -> Row] /\ ~HiddenJob(RecordOutcome(row[m], outcome))
    BY <2>1, RowsAndWants, RecordedHasNoJob DEF IInv, TypeOK
  <2>4. /\ \A n \in Media : PostOf[n] \notin {PostOf[m]} => rows[n] = row[n]
        /\ \A n \in Media : HiddenJob(rows[n]) => HiddenJob(row[n])
    BY <2>1, <2>3
  <2> HIDE DEF rows
  <2> QED
    BY <2>2, <2>4, CommitStep
<1> QED
  BY <1>1, <1>2

-------------------------------------------------------------------------------
\* Every step of a process that is not restarted keeps the statuses derived.
LEMMA NextDerives ==
  ASSUME MaxCrashes = 0, IInv, StatusInv, [Next]_vars
  PROVE  StatusInv'
<1>1. ASSUME NEW p \in Posts, PostStep(p) PROVE StatusInv'
  <2>1. ASSUME NEW produced \in SUBSET MediaOf(p), Reresolve(p, produced) PROVE StatusInv'
    <3>1. SyncPost(p, produced, canView[p], FALSE, TRUE) /\ canView[p] \in BOOLEAN
      BY <2>1 DEF Reresolve, IInv, TypeOK
    <3>2. TRUE \in BOOLEAN /\ FALSE \in BOOLEAN
      OBVIOUS
    <3> QED
      BY <3>1, <3>2, SyncDerives
  <2> QED
    BY <1>1, <2>1, SyncDerives, PostDerives DEF PostStep
<1>2. ASSUME NEW m \in Media, ItemStep(m) PROVE StatusInv'
  BY <1>2, ItemDerives
<1>3. CASE CreatorStep
  BY <1>3, CreatorDerives
<1>4. ASSUME NEW w \in Workers, WorkerStep(w) PROVE StatusInv'
  <2>1. crashes = 0
    BY DEF IInv, TypeOK
  <2>2. CASE Register(w)
    BY <2>2 DEF Register, StatusInv, StoredStatusIsDerived, HiddenWait, Known, ItemsOf
  <2> QED
    BY <1>4, <2>1, <2>2, StartDerives, RecordDerives DEF WorkerStep
<1>5. ~CrashRestart
  BY DEF CrashRestart, IInv, TypeOK
<1>6. CASE UNCHANGED vars
  BY <1>6 DEF vars, StatusInv, StoredStatusIsDerived, HiddenWait, Known, ItemsOf
<1> QED
  BY <1>1, <1>2, <1>3, <1>4, <1>5, <1>6 DEF Next

\* Every stored post status is the one derive_post_status gives, through any
\* interleaving of clicks, scans, retries and workers without a restart.
THEOREM StatusAlwaysDerived ==
  ASSUME MaxCrashes = 0
  PROVE  Spec => []StoredStatusIsDerived
<1>1. Init => StatusInv
  BY AbsentRow
  DEF Init, StatusInv, StoredStatusIsDerived, HiddenWait, HiddenJob, Known, ItemsOf, MediaOf, Present
<1>2. IInv /\ StatusInv /\ [Next]_vars => StatusInv'
  BY NextDerives
<1>3. StatusInv => StoredStatusIsDerived
  BY DEF StatusInv
<1> QED
  BY <1>1, <1>2, <1>3, Invariance, PTL DEF Spec

-------------------------------------------------------------------------------
(***************************************************************************)
(* What no step does to a row.                                             *)
(***************************************************************************)
\* From r to s on its own: no download begins (in an older post), what the user
\* stopped stays or is dropped, what is archived stays archived, is missing or
\* is downloaded again.
Still(r, s, old) ==
  /\ old /\ ~Begun(r) => ~Begun(s)
  /\ r.status \in {"skipped", "cancelled"} => s.status \in {r.status, "absent"}
  /\ r.status = "completed" => s.status \in {"completed", "queued", "missing"}

\* The user's rules: an archived item is downloaded again at most.
KeepsFile(r, s) == r.status = "completed" => s.status \in {"completed", "queued"}

\* What a step does to one row.
Moved(m) ==
  \/ Still(row[m], row'[m], PostOf[m] \in OldPosts)
  \/ UserActsOn(m) /\ KeepsFile(row[m], row'[m])
  \/ RetryFailed /\ row[m].status \in FailedStatuses
  \/ row'[m] = Absent /\ \A p \in Posts : postStatus'[p] = "absent"
  \/ row[m].job # "none" /\ row[m].status # "completed"

-------------------------------------------------------------------------------
\* The rules.

\* _apply_prefs moves no status on but "excluded".
LEMMA ApplyPrefsStill ==
  ASSUME NEW r \in Row, NEW wants \in BOOLEAN
  PROVE  /\ Still(r, ApplyPrefs(r, wants), TRUE)
         /\ r.status \in {"completed", "skipped", "cancelled"}
              => ApplyPrefs(r, wants).status = r.status
         /\ r.status = "discovered" => ApplyPrefs(r, wants).status \in {"discovered", "excluded"}
         /\ ApplyPrefs(r, wants) \in Row
  BY DEF ApplyPrefs, UserSkipped, DropQueuedJob, Still, Begun, Archived, Row, Statuses, Stopped,
         ActiveStatuses

\* _auto_queue queues only what is waiting to be.
LEMMA AutoQueueStill ==
  ASSUME NEW r \in Row
  PROVE  AutoQueue(r) = r \/ (r.status = "discovered" /\ AutoQueue(r).status = "queued")
  BY DEF AutoQueue, AddJob, Row

\* What sync_post makes of a row: what the user stopped and what is archived
\* keep their status, or the row goes.
LEMMA SyncedStill ==
  ASSUME NEW r \in Row, NEW wants \in BOOLEAN,
         NEW s, s \in {SyncProduced(r, wants), SyncUnproduced(r)},
         NEW t, t \in {s, Hide(s)}
  PROVE  /\ t \in Row
         /\ ~Begun(r) => ~Begun(t)
         /\ r.status \in {"skipped", "cancelled"} => t.status \in {r.status, "absent"}
         /\ r.status = "completed" => t.status = "completed"
<1> DEFINE u == CASE ~Present(r) -> NewRow
                  [] r.status = "no_access" -> [r EXCEPT !.status = "discovered"]
                  [] OTHER -> r
<1>1. /\ u \in Row /\ (r.status \notin {"absent", "no_access"} => u = r)
      /\ ~Begun(r) => ~Begun(u)
  BY MaxAttemptsAssumption DEF NewRow, Present, Begun, Archived, Row, Statuses, ActiveStatuses
<1>2. SyncProduced(r, wants) = ApplyPrefs(u, wants)
  BY DEF SyncProduced
<1>3. SyncUnproduced(r) = IF r.status = "completed" THEN r ELSE Absent
  BY DEF SyncUnproduced
<1> HIDE DEF u
<1>4. /\ s \in Row
      /\ ~Begun(r) => ~Begun(s)
      /\ r.status \in {"skipped", "cancelled"} => s.status \in {r.status, "absent"}
      /\ r.status = "completed" => s.status = "completed"
  <2>1. CASE s = ApplyPrefs(u, wants)
    <3>1. /\ s \in Row
          /\ u.status \in {"completed", "skipped", "cancelled"} => s.status = u.status
          /\ ~Begun(u) => ~Begun(s)
      BY <1>1, <2>1, ApplyPrefsStill DEF Still
    <3> QED
      BY <1>1, <3>1
  <2>2. CASE s = SyncUnproduced(r)
    BY <1>3, <2>2, AbsentRow DEF Absent, Begun, Archived
  <2> QED
    BY <1>2, <2>1, <2>2
<1>5. /\ Hide(s) \in Row
      /\ ~Begun(s) => ~Begun(Hide(s))
      /\ s.status \in {"skipped", "cancelled", "absent", "completed"} => Hide(s).status = s.status
  BY <1>4 DEF Hide, Begun, Archived, Row, Statuses
<1> QED
  BY <1>4, <1>5

\* The user's rules leave an archived item where it is, or queue it.
LEMMA UserRulesKeepFile ==
  ASSUME NEW r \in Row, NEW wants \in BOOLEAN, NEW force \in BOOLEAN
  PROVE  /\ KeepsFile(r, DownloadInPost(r, wants, force))
         /\ KeepsFile(r, Skip(r))
         /\ KeepsFile(r, UnskipInPost(r, wants))
         /\ KeepsFile(r, Retry(r))
         /\ KeepsFile(r, UnskipItem(r))
<1> SUFFICES ASSUME r.status = "completed"
             PROVE  /\ DownloadInPost(r, wants, force).status \in {"completed", "queued"}
                    /\ Skip(r).status \in {"completed", "queued"}
                    /\ UnskipInPost(r, wants).status \in {"completed", "queued"}
                    /\ Retry(r).status \in {"completed", "queued"}
                    /\ UnskipItem(r).status \in {"completed", "queued"}
  BY DEF KeepsFile
<1>1. \A s \in Row, f \in BOOLEAN :
        s.status = "completed" => Requeue(s, f).status \in {"completed", "queued"}
  BY DEF Requeue, AddJob, Row
<1>2. DownloadInPost(r, wants, force).status \in {"completed", "queued"}
  BY <1>1 DEF DownloadInPost, UserSkipped
<1>3. Skip(r).status = "completed" /\ UnskipInPost(r, wants).status = "completed"
  BY DEF Skip, UnskipInPost, Stopped
<1>4. UnskipItem(r).status = "completed"
  BY DEF UnskipItem, Stopped, Row
<1>5. Retry(r).status \in {"completed", "queued"}
  <2>1. [r EXCEPT !.wanted = TRUE] \in Row /\ [r EXCEPT !.wanted = TRUE].status = "completed"
    BY DEF Row
  <2> QED
    BY <1>1, <2>1 DEF Retry
<1> QED
  BY <1>2, <1>3, <1>4, <1>5

-------------------------------------------------------------------------------
\* The steps.

\* A row that doesn't change is moved by nobody.
LEMMA SameMoved ==
  ASSUME NEW m \in Media, row'[m] = row[m]
  PROVE  Moved(m)
  BY DEF Moved, Still

\* The actions on a post are the user's actions on each of its items.
LEMMA UserOnPostMoves ==
  ASSUME IInv, NEW p \in Posts, NEW m \in Media,
         \/ \E force \in BOOLEAN : DownloadPost(p, force)
         \/ SkipPost(p)
         \/ UnskipPost(p)
  PROVE  Moved(m)
<1>1. row[m] \in Row /\ Wants(m, include) \in BOOLEAN
  BY WantsType DEF IInv, TypeOK
<1>2. CASE m \in MediaOf(p) /\ Present(row[m])
  <2>1. p = PostOf[m]
    BY <1>2 DEF MediaOf
  <2>2. UserActsOn(m)
    BY <2>1 DEF UserActsOn
  <2>3. \/ \E force \in BOOLEAN : row'[m] = DownloadInPost(row[m], Wants(m, include), force)
        \/ row'[m] = Skip(row[m])
        \/ row'[m] = UnskipInPost(row[m], Wants(m, include))
    BY <1>2 DEF DownloadPost, SkipPost, UnskipPost, ChangePost, CommitRows
  <2>4. KeepsFile(row[m], row'[m])
    BY <1>1, <2>3, UserRulesKeepFile
  <2> QED
    BY <2>2, <2>4 DEF Moved
<1>3. CASE ~(m \in MediaOf(p) /\ Present(row[m]))
  <2>1. row'[m] = row[m]
    BY <1>3 DEF DownloadPost, SkipPost, UnskipPost, ChangePost, CommitRows
  <2> QED
    BY <2>1, SameMoved
<1> QED
  BY <1>2, <1>3

\* The actions on an item, its job and its file.
LEMMA ItemMoves ==
  ASSUME IInv, NEW n \in Media, NEW m \in Media, ItemStep(n)
  PROVE  Moved(m)
<1>0. row \in [Media -> Row] /\ RowConsistent(row[m])
  BY DEF IInv, TypeOK, JobsMatchStatus
<1>1. CASE m # n
  <2>1. row'[m] = row[m]
    BY <1>0, <1>1 DEF ItemStep, RetryMedia, SkipMedia, UnskipMedia, RemoveJob, FileGone, FileBack,
           ChangeItem, CommitRows
  <2> QED
    BY <2>1, SameMoved
<1>2. CASE m = n
  <2>1. CASE RetryMedia(m) \/ SkipMedia(m) \/ UnskipMedia(m)
    <3>1. row'[m] \in {Retry(row[m]), Skip(row[m]), UnskipItem(row[m])}
      BY <1>0, <2>1 DEF RetryMedia, SkipMedia, UnskipMedia, ChangeItem, CommitRows
    <3>2. KeepsFile(row[m], row'[m])
      BY <1>0, <3>1, UserRulesKeepFile
    <3> QED
      BY <2>1, <3>2 DEF Moved, UserActsOn
  <2>2. CASE RemoveJob(m)
    <3>1. \/ row[m].job = "queued" /\ row'[m] = RemoveQueued(row[m])
          \/ row'[m] = row[m]
      BY <1>0, <2>2 DEF RemoveJob, ChangeItem, CommitRows
    <3> QED
      BY <1>0, <3>1, SameMoved DEF Moved, RowConsistent, RemoveQueued, Row
  <2>3. ASSUME NEW requeue \in BOOLEAN, FileGone(m, requeue) PROVE Moved(m)
    <3>1. row[m].status = "completed" /\ row'[m] = FileMissing(row[m], requeue)
      BY <1>0, <2>3 DEF FileGone, ChangeItem, CommitRows
    <3>2. FileMissing(row[m], requeue).status \in {"missing", "queued"}
      BY <1>0, <3>1 DEF FileMissing, QueueAgain, AddJob, Row
    <3> QED
      BY <3>1, <3>2 DEF Moved, Still, Begun, Archived
  <2>4. CASE FileBack(m)
    BY <2>4 DEF FileBack, Moved, Still, Begun, Archived
  <2> QED
    BY <1>2, <2>1, <2>2, <2>3, <2>4 DEF ItemStep
<1> QED
  BY <1>1, <1>2

\* sync_post: a row of the post, resolved again or not, and queued unless the
\* post is too old.
LEMMA SyncMoves ==
  ASSUME IInv, NEW p \in Posts, NEW produced, NEW view \in BOOLEAN, NEW changed \in BOOLEAN,
         NEW refresh \in BOOLEAN, NEW m \in Media, SyncPost(p, produced, view, changed, refresh)
  PROVE  Moved(m)
<1> DEFINE resolve == \/ ~Known(p) \/ changed \/ refresh
                      \/ \E k \in MediaOf(p) : row[k].status \in AwaitingLinks
           s == IF m \in produced THEN SyncProduced(row[m], Wants(m, include))
                ELSE SyncUnproduced(row[m])
           before == IF resolve THEN (IF view THEN s ELSE Hide(s)) ELSE row[m]
           after == IF ShouldAutoQueue(p, auto) THEN AutoQueue(before) ELSE before
<1>1. row[m] \in Row /\ Wants(m, include) \in BOOLEAN
  BY WantsType DEF IInv, TypeOK
<1>2. CASE m \notin MediaOf(p)
  <2>1. row'[m] = row[m]
    BY <1>2 DEF SyncPost, CommitRows
  <2> QED
    BY <2>1, SameMoved
<1>3. CASE m \in MediaOf(p)
  <2>1. row'[m] = after
    BY <1>3 DEF SyncPost, CommitRows
  <2>2. /\ before \in Row
        /\ ~Begun(row[m]) => ~Begun(before)
        /\ row[m].status \in {"skipped", "cancelled"} => before.status \in {row[m].status, "absent"}
        /\ row[m].status = "completed" => before.status = "completed"
    <3> DEFINE t == IF view THEN s ELSE Hide(s)
    <3>1. /\ t \in Row
          /\ ~Begun(row[m]) => ~Begun(t)
          /\ row[m].status \in {"skipped", "cancelled"} => t.status \in {row[m].status, "absent"}
          /\ row[m].status = "completed" => t.status = "completed"
      <4>1. /\ s \in {SyncProduced(row[m], Wants(m, include)), SyncUnproduced(row[m])}
            /\ t \in {s, Hide(s)}
        OBVIOUS
      <4> HIDE DEF s, t
      <4> QED
        BY <1>1, <4>1, SyncedStill
    <3>2. before \in {t, row[m]}
      OBVIOUS
    <3> HIDE DEF t, before
    <3> QED
      BY <1>1, <3>1, <3>2
  <2> HIDE DEF before
  <2>3. /\ PostOf[m] \in OldPosts => after = before
        /\ after = before \/ before.status = "discovered"
    BY <1>3, <2>2, AutoQueueStill DEF ShouldAutoQueue, MediaOf
  <2>4. Still(row[m], after, PostOf[m] \in OldPosts)
    BY <2>2, <2>3 DEF Still
  <2> QED
    BY <2>1, <2>4 DEF Moved
<1> QED
  BY <1>2, <1>3

\* The failed list, the preferences, a deleted creator and the due retries.
LEMMA CreatorMoves ==
  ASSUME IInv, NEW m \in Media, CreatorStep
  PROVE  Moved(m)
<1>0. row \in [Media -> Row] /\ RowConsistent(row[m])
  BY DEF IInv, TypeOK, JobsMatchStatus
<1>1. CASE RetryFailed \/ ClearFailed \/ \E due \in SUBSET Media : RetryDue(due)
  <2>1. CASE RetryFailed
    <3>1. row'[m] = row[m] \/ row[m].status \in FailedStatuses
      BY <1>0, <2>1 DEF RetryFailed, ChangeFailed, FailedItems, CommitRows
    <3> QED
      BY <2>1, <3>1, SameMoved DEF Moved
  <2>2. CASE ClearFailed
    <3>1. \/ row'[m] = row[m]
          \/ row[m].status \in FailedStatuses /\ row'[m] = Skip(row[m])
      BY <1>0, <2>2 DEF ClearFailed, ChangeFailed, FailedItems, CommitRows
    <3>2. ASSUME row[m].status \in FailedStatuses, row'[m] = Skip(row[m])
          PROVE  row'[m].status = "skipped" /\ row'[m].job = "none"
      BY <1>0, <3>2 DEF Skip, DropQueuedJob, RowConsistent, FailedStatuses, Row
    <3> QED
      BY <3>1, <3>2, SameMoved DEF Moved, Still, FailedStatuses, Begun, Archived
  <2>3. ASSUME NEW due \in SUBSET Media, RetryDue(due) PROVE Moved(m)
    <3>1. row'[m] = row[m] \/ row[m].status = "failed"
      BY <1>0, <2>3 DEF RetryDue, CommitRows
    <3> QED
      BY <3>1, SameMoved DEF Moved, Still, Begun
  <2> QED
    BY <1>1, <2>1, <2>2, <2>3
<1>2. ASSUME NEW included \in BOOLEAN, NEW automatic \in BOOLEAN, PatchCreator(included, automatic)
      PROVE  Moved(m)
  <2> DEFINE r == ApplyPrefs(row[m], Wants(m, included))
             after == IF ShouldAutoQueue(PostOf[m], automatic) THEN AutoQueue(r) ELSE r
  <2>1. row'[m] \in {row[m], after}
    BY <1>2 DEF PatchCreator, CommitRows
  <2>2. /\ r \in Row /\ Still(row[m], r, TRUE)
        /\ row[m].status \in {"completed", "skipped", "cancelled"} => r.status = row[m].status
    <3>1. row[m] \in Row /\ Wants(m, included) \in BOOLEAN
      BY <1>0, WantsType
    <3> QED
      BY <3>1, ApplyPrefsStill
  <2> HIDE DEF r
  <2>3. /\ PostOf[m] \in OldPosts => after = r
        /\ after = r \/ r.status = "discovered"
    BY <2>2, AutoQueueStill DEF ShouldAutoQueue
  <2>4. Still(row[m], after, PostOf[m] \in OldPosts)
    BY <2>2, <2>3 DEF Still
  <2> QED
    BY <2>1, <2>4, SameMoved DEF Moved
<1>3. ASSUME NEW included \in BOOLEAN, NEW automatic \in BOOLEAN, DeleteCreator(included, automatic)
      PROVE  Moved(m)
  BY <1>3, AbsentRow DEF DeleteCreator, Moved
<1> QED
  BY <1>1, <1>2, <1>3 DEF CreatorStep

\* The workers and restarts change rows that have a job.
LEMMA WorkerMoves ==
  ASSUME IInv, NEW m \in Media, (\E w \in Workers : WorkerStep(w)) \/ CrashRestart
  PROVE  Moved(m)
<1>0. row \in [Media -> Row] /\ RowConsistent(row[m])
  BY DEF IInv, TypeOK, JobsMatchStatus
<1>1. ASSUME NEW w \in Workers, NEW n \in Media, Start(w, n) PROVE Moved(m)
  <2>1. row'[m] = row[m] \/ (row[m].job = "queued" /\ row'[m].status = "downloading")
    BY <1>0, <1>1 DEF Start, Started, Row
  <2> QED
    BY <1>0, <2>1, SameMoved DEF Moved, RowConsistent
<1>2. ASSUME NEW w \in Workers, Register(w) PROVE Moved(m)
  BY <1>2, SameMoved DEF Register
<1>3. ASSUME NEW w \in Workers, NEW outcome \in Outcomes, Record(w, outcome) PROVE Moved(m)
  <2>1. \/ row'[m] = row[m]
        \/ claim[w].media = m /\ row'[m] = RecordOutcome(row[m], outcome)
    BY <1>0, <1>3 DEF Record, CommitRows
  <2>2. claim[w].media = m => row[m].job = "running"
    BY DEF IInv, OneDownloadPerMedia
  <2> QED
    BY <1>0, <2>1, <2>2, SameMoved DEF Moved, RowConsistent
<1>4. CASE CrashRestart
  <2>1. row'[m] = Recover(row[m])
    BY <1>4 DEF CrashRestart
  <2>2. row'[m] = row[m] \/ row[m].job = "running"
    BY <2>1 DEF Recover
  <2> QED
    BY <1>0, <2>2, SameMoved DEF Moved, RowConsistent
<1> QED
  BY <1>1, <1>2, <1>3, <1>4 DEF WorkerStep

\* Every step.
LEMMA EveryStepMoves ==
  ASSUME IInv, [Next]_vars, NEW m \in Media
  PROVE  Moved(m)
<1>1. ASSUME NEW p \in Posts, PostStep(p) PROVE Moved(m)
  <2>1. ASSUME NEW produced \in SUBSET MediaOf(p), Reresolve(p, produced) PROVE Moved(m)
    <3>1. SyncPost(p, produced, canView[p], FALSE, TRUE) /\ canView[p] \in BOOLEAN
      BY <2>1 DEF Reresolve, IInv, TypeOK
    <3>2. TRUE \in BOOLEAN /\ FALSE \in BOOLEAN
      OBVIOUS
    <3> QED
      BY <3>1, <3>2, SyncMoves
  <2> QED
    BY <1>1, <2>1, SyncMoves, UserOnPostMoves DEF PostStep
<1>2. ASSUME NEW n \in Media, ItemStep(n) PROVE Moved(m)
  BY <1>2, ItemMoves
<1>3. CASE CreatorStep
  BY <1>3, CreatorMoves
<1>4. CASE (\E w \in Workers : WorkerStep(w)) \/ CrashRestart
  BY <1>4, WorkerMoves
<1>5. CASE UNCHANGED vars
  BY <1>5, SameMoved DEF vars
<1> QED
  BY <1>1, <1>2, <1>3, <1>4, <1>5 DEF Next

-------------------------------------------------------------------------------
\* What the user skipped or cancelled, and has no download left, is changed by
\* no scan, preference, retry task, file check, worker or restart: it keeps its
\* status until the user acts on it, or its row is dropped.
THEOREM UserStopAlwaysHolds == Spec => UserStopHolds
<1> DEFINE Kept == \A m \in Media :
             row[m].status \in {"skipped", "cancelled"} /\ row[m].job = "none" =>
               row'[m].status \in {row[m].status, "absent"} \/ UserActsOn(m)
<1>1. IInv /\ [Next]_vars => [Kept]_vars
  BY EveryStepMoves DEF Moved, Still, Absent, FailedStatuses
<1> QED
  BY <1>1, Invariance, PTL DEF Spec, UserStopHolds

\* No download of an item begins but by the user when its post is older than
\* the creator's download_since, whatever scans, preference changes, retries, file
\* checks, deletions and restarts do: from a row that is absent (as all are at
\* first) or waits, each step leads to one that has and had no download, unless it
\* is an action of the user's on the item, its post or the failed list.
THEOREM OldPostsAlwaysWait == Spec => OldPostsWait
<1> DEFINE Kept == \A m \in Media : PostOf[m] \in OldPosts /\ ~Begun(row[m]) =>
                     ~Begun(row'[m]) \/ UserActsOn(m) \/ RetryFailed
<1>1. IInv /\ [Next]_vars => [Kept]_vars
  BY EveryStepMoves DEF Moved, Still, Begun, Archived, Absent
<1> QED
  BY <1>1, Invariance, PTL DEF Spec, OldPostsWait

\* An archived item is lost from the database by no step but the deletion of
\* its creator: any other leaves it completed, queued for a new download, or
\* marked as missing.
THEOREM ArchivedIsAlwaysKept == Spec => ArchivedIsKept
<1> DEFINE Kept == \A m \in Media : row[m].status = "completed" =>
                     \/ row'[m].status \in {"completed", "queued", "missing"}
                     \/ \A p \in Posts : postStatus'[p] = "absent"
<1>1. IInv /\ [Next]_vars => [Kept]_vars
  BY EveryStepMoves DEF Moved, Still, KeepsFile, Absent, FailedStatuses
<1> QED
  BY <1>1, Invariance, PTL DEF Spec, ArchivedIsKept
===============================================================================
