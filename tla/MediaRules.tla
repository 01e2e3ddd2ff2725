------------------------------ MODULE MediaRules ------------------------------
(***************************************************************************)
(* The rules of core/lifecycle.py, as operators on one media row.          *)
(*                                                                         *)
(* A row is a media item together with its active download job (at most    *)
(* one: the partial unique index of db/models.py).  What the rules never   *)
(* read is left out: priorities, times, paths, hashes, error texts.        *)
(*                                                                         *)
(*   - status_reason is read in one place only, to tell a user's skip from *)
(*     a skip by the creator preferences, and is always written together   *)
(*     with SKIPPED.  So SKIPPED is two values here: "skipped" (the user)  *)
(*     and "excluded" (KIND_DISABLED_REASON).                              *)
(*   - UNSUPPORTED and UNSUPPORTED_DRM are one value: every rule treats    *)
(*     them alike.                                                         *)
(*   - next_retry_at is set exactly by the failure that makes a row        *)
(*     "failed", so "failed" stands for both.                              *)
(*   - attempts saturates at MaxAttempts: it is only compared with it.     *)
(*   - "absent" is a media item that has no row.                           *)
(***************************************************************************)
EXTENDS Naturals

CONSTANT MaxAttempts        \* settings.downloads.max_attempts

\* settings_service.py:135 declares it with ge=1.
ASSUME MaxAttemptsAssumption == MaxAttempts \in Nat \ {0}

Stopped == {"skipped", "excluded", "cancelled"}
Finished == {"completed", "unsupported"}
AwaitingLinks == {"queued", "failed", "failed_permanent", "missing"}
ActiveStatuses == {"discovered", "queued", "downloading", "failed"}
FailedStatuses == {"failed", "failed_permanent", "missing"}
Statuses == Stopped \cup Finished \cup AwaitingLinks \cup ActiveStatuses
              \cup {"no_access", "absent"}

Row == [status : Statuses, wanted : BOOLEAN, attempts : 0..MaxAttempts,
        job : {"none", "queued", "running"}]

Absent == [status |-> "absent", wanted |-> FALSE, attempts |-> 0, job |-> "none"]
NewRow == [status |-> "discovered", wanted |-> TRUE, attempts |-> 0, job |-> "none"]

Present(r) == r.status # "absent"

(***************************************************************************)
(* Queueing.                                                               *)
(***************************************************************************)
AddJob(r) == [r EXCEPT !.status = "queued", !.job = "queued"]

\* _requeue: the user asked for it.  Unchanged when it can't be queued or
\* already has a job.
Requeue(r, force) ==
  IF \/ r.status \in {"no_access", "downloading"}
     \/ r.status \in Finished /\ ~force
     \/ r.job # "none"
  THEN r
  ELSE AddJob([r EXCEPT !.attempts = 0])

\* Mutant of QueueAgain: gives up one attempt early.
QueueAgainEarlyLimit(r) ==
  IF ~r.wanted \/ r.attempts + 1 >= MaxAttempts \/ r.job # "none" THEN r ELSE AddJob(r)

\* _queue_again: on its own, keeping its attempts.
QueueAgain(r) ==
  IF ~r.wanted \/ r.status \in {"no_access", "downloading"} \cup Finished \/ r.job # "none"
  THEN r
  ELSE AddJob(r)

AutoQueue(r) == IF r.wanted /\ r.status = "discovered" /\ r.job = "none" THEN AddJob(r) ELSE r

(***************************************************************************)
(* Stopping.                                                               *)
(***************************************************************************)
\* _stop_job on the row; a running job is left to its worker, which the
\* caller signals.
DropQueuedJob(r) == IF r.job = "queued" THEN [r EXCEPT !.job = "none"] ELSE r

\* Mutants of Skip: the queued job is forgotten; an archived item is skipped too.
SkipKeepsJob(r) ==
  IF r.status = "completed" THEN r ELSE [r EXCEPT !.status = "skipped", !.wanted = FALSE]
SkipArchived(r) == [DropQueuedJob(r) EXCEPT !.status = "skipped", !.wanted = FALSE]

Skip(r) ==
  IF r.status = "completed"
  THEN r
  ELSE [DropQueuedJob(r) EXCEPT !.status = "skipped", !.wanted = FALSE]

RemoveQueued(r) == [r EXCEPT !.job = "none", !.status = "cancelled"]

UserSkipped(r) == r.status = "skipped"

\* Mutant of ApplyPrefs: any skip is taken for one by the preferences.
ApplyPrefsToSkips(r, wants) ==
  IF wants /\ r.status \in {"skipped", "excluded"}
  THEN [r EXCEPT !.status = "discovered", !.wanted = TRUE]
  ELSE [r EXCEPT !.wanted = wants]

\* _apply_prefs; wants is _kind_wanted for the row's kind.
ApplyPrefs(r, wants) ==
  CASE UserSkipped(r) -> r
    [] ~UserSkipped(r) /\ ~wants /\ r.status \in {"discovered", "queued", "failed"} ->
         [DropQueuedJob(r) EXCEPT !.status = "excluded", !.wanted = FALSE]
    [] ~UserSkipped(r) /\ wants /\ r.status = "excluded" ->
         [r EXCEPT !.status = "discovered", !.wanted = TRUE]
    [] OTHER -> [r EXCEPT !.wanted = wants]

(***************************************************************************)
(* The user's actions on one item (and on each item of a post).            *)
(***************************************************************************)
Discover(r) == [r EXCEPT !.status = "discovered", !.wanted = TRUE]

DownloadInPost(r, wants, force) ==
  LET back == IF UserSkipped(r) THEN ApplyPrefs(Discover(r), wants) ELSE r
  IN  IF back.wanted THEN Requeue(back, force) ELSE back

UnskipInPost(r, wants) ==
  IF r.status \in Stopped THEN ApplyPrefs(Discover(r), wants) ELSE r

UnskipItem(r) == IF r.status \in Stopped THEN Discover(r) ELSE [r EXCEPT !.wanted = TRUE]

Retry(r) == Requeue([r EXCEPT !.wanted = TRUE], TRUE)

\* item_actions: the buttons that the UI shows for an item.
Offers(r, action) ==
  LET unskips == r.status \in {"skipped", "excluded"} \/ ~r.wanted
  IN  \/ action = "retry" /\ r.status \in
           {"discovered", "failed", "failed_permanent", "unsupported"} \cup Stopped
      \/ action = "redownload" /\ r.status \in {"completed", "missing"}
      \/ action = "unskip" /\ unskips
      \/ action = "skip" /\ ~unskips /\ r.status # "completed"

(***************************************************************************)
(* What a provider reports (_sync_media).                                  *)
(***************************************************************************)
\* A media item the resolver produced: its row is made, or gets access back.
SyncProduced(r, wants) ==
  ApplyPrefs(CASE ~Present(r) -> NewRow
               [] r.status = "no_access" -> [r EXCEPT !.status = "discovered"]
               [] OTHER -> r, wants)

\* One it did not produce is dropped unless a file was archived.
SyncUnproduced(r) == IF r.status = "completed" THEN r ELSE Absent

\* A post that can't be viewed any more hides what is still to download.
Hide(r) ==
  IF r.status \in {"discovered", "queued", "failed"} THEN [r EXCEPT !.status = "no_access"] ELSE r

(***************************************************************************)
(* Downloads: start_download, record_outcome, recover_interrupted.         *)
(***************************************************************************)
Started(r) == [r EXCEPT !.status = "downloading", !.job = "running"]

FailureKinds == {"auth", "retryable", "no_access", "permanent", "unsupported"}
Outcomes == FailureKinds \cup {"completed", "cancelled"}

\* Mutants of CountAttempt: it runs past the limit; retryable failures are not counted.
CountPastLimit(n, kind) == n + 1
CountFinalOnly(n, kind) == IF kind = "retryable" \/ n = MaxAttempts THEN n ELSE n + 1

\* _failed: attempts + 1 (not for a signed-out provider), then the table of
\* final kinds, then the attempt limit.
CountAttempt(n, kind) == IF kind = "auth" \/ n = MaxAttempts THEN n ELSE n + 1

FailureStatus(attempts, kind) ==
  CASE kind = "no_access" -> "no_access"
    [] kind = "permanent" -> "failed_permanent"
    [] kind = "unsupported" -> "unsupported"
    [] OTHER -> IF attempts >= MaxAttempts THEN "failed_permanent" ELSE "failed"

Failed(r, kind) ==
  LET attempts == CountAttempt(r.attempts, kind)
  IN  [r EXCEPT !.status = FailureStatus(attempts, kind), !.attempts = attempts, !.job = "none"]

Completed(r) == [r EXCEPT !.status = "completed", !.job = "none"]

\* Skipped or removed while it ran, it keeps that status.
Cancelled(r) ==
  [r EXCEPT !.status = IF @ = "downloading" THEN "cancelled" ELSE @, !.job = "none"]

RecordOutcome(r, outcome) ==
  CASE outcome = "completed" -> Completed(r)
    [] outcome = "cancelled" -> Cancelled(r)
    [] OTHER -> Failed(r, outcome)

\* Mutants of Recover: the item stays downloading; nothing is recovered.
RecoverJobOnly(r) == IF r.job = "running" THEN [r EXCEPT !.job = "queued"] ELSE r
RecoverNothing(r) == r

Recover(r) ==
  IF r.job = "running"
  THEN [r EXCEPT !.job = "queued", !.status = IF @ = "downloading" THEN "queued" ELSE @]
  ELSE r

(***************************************************************************)
(* The library's file checks.                                              *)
(***************************************************************************)
FileMissing(r, requeue) ==
  LET gone == [r EXCEPT !.status = "missing"]
  IN  IF requeue THEN QueueAgain(gone) ELSE gone

FileFound(r) == [r EXCEPT !.status = "completed"]

(***************************************************************************)
(* derive_post_status, from whether the post can be viewed and the set of  *)
(* its rows (the derivation never counts them, so a set is enough).        *)
(***************************************************************************)
DerivePostStatus(view, items) ==
  LET statuses == {r.status : r \in {i \in items : i.wanted /\ i.status \notin Stopped}}
      stopped  == \E r \in items : r.status = "cancelled" \/ UserSkipped(r)
  IN  CASE ~view -> "no_access"
        [] view /\ statuses = {} -> IF stopped THEN "skipped" ELSE "no_media"
        [] view /\ statuses \cap ActiveStatuses # {} -> "pending"
        [] view /\ statuses = {"completed"} -> "completed"
        [] view /\ statuses = {"unsupported"} -> "unsupported"
        [] OTHER -> "partial"

PostStatuses ==
  {"no_access", "skipped", "no_media", "pending", "completed", "unsupported", "partial"}

\* A file of the item was archived, wherever it is now.
Archived(r) == r.status \in {"completed", "missing"}

\* A row never says one thing and its job another: a queued item has a job
\* to claim, a downloading one a job that runs, a settled one no job left
\* behind, and a failed item still has a try left.
RowConsistent(r) ==
  /\ r.status = "queued" => r.job = "queued"
  /\ r.status = "downloading" => r.job = "running"
  /\ r.status \in {"absent", "completed", "failed", "failed_permanent", "missing", "cancelled",
                   "unsupported"} => r.job = "none"
  /\ r.status = "failed" => r.attempts < MaxAttempts
===============================================================================
