------------------------------- MODULE StartUp --------------------------------
(***************************************************************************)
(* The process from start to crash (app.py create_app): the stored         *)
(* settings are read and repaired, the rows older versions left are        *)
(* brought under the current rules (core/lifecycle.py reconcile), and then *)
(* requests are served (Settings) and media changes (MediaRules).          *)
(*                                                                         *)
(* Every session of the start is a step of its own, so that a crash may    *)
(* come between any two.                                                   *)
(***************************************************************************)
EXTENDS MediaRules, Settings

CONSTANTS
  Posts,        \* how many posts there are, by id
  Batch,        \* _RECONCILE_BATCH
  OldItems,     \* what older versions may have left, for a post's only item
  OldStatuses,  \* and what they stored for the post
  RulesVersion, \* RULES_VERSION
  Spoils        \* settings that may not be usable any more at a later start

VARIABLES
  scene,        \* what this behaviour is about: an upgrade, stored settings that can't be
                \* used, or requests
  phase,        \* where the start is
  batch,        \* the first post of reconcile's next batch
  version,      \* system_state "media_lifecycle_rules"
  item,         \* each post's item: its row, whether its error names DRM, its cover
  postStatus,
  late,         \* history: items that came back after reconcile looked: a download that
                \* was running then, an archived file that was missing then
  told          \* history: how often each field was reported as reset

itemVars == <<batch, version, item, postStatus, late>>
vars == <<settingsVars, scene, phase, itemVars, told>>

Ids == 1..Posts
\* A cover is "embedded" by the older rules: the file says so, but has none.
Item == [row : Row, drm : BOOLEAN, cover : {"none", "embedded", "left out", "whole"}]
Derived(i) == DerivePostStatus(TRUE, {i.row})

ASSUME StartUpAssumption ==
  /\ Posts \in Nat /\ Batch \in Nat \ {0} /\ RulesVersion \in Nat \ {0}
  /\ OldItems \subseteq Item /\ OldStatuses \subseteq PostStatuses /\ Spoils \subseteq SUBSET Fields
  \* A queued job's item was not done with when it was queued, and at most
  \* skipped since.
  /\ \A i \in OldItems :
       i.row.job = "queued" => i.row.status \in ActiveStatuses \cup {"skipped", "excluded"}

TypeOK ==
  /\ SettingsTypeOK
  /\ scene \in {"upgrade", "repair", "requests"}
  /\ phase \in {"down", "read", "repair", "normalize", "reconcile", "batches", "recover", "up"}
  /\ batch \in 1..(Posts + Batch)
  /\ version \in 0..RulesVersion
  /\ item \in [Ids -> Item]
  /\ postStatus \in [Ids -> PostStatuses]
  /\ late \subseteq Ids
  /\ told \in [Fields -> Nat]

Init ==
  /\ SettingsInit
  /\ phase = "down" /\ batch = 1
  /\ late = {}
  /\ told = [f \in Fields |-> 0]
  /\ \/ scene = "upgrade" /\ mix = {} /\ stored = [Default EXCEPT !.secret = "cookie"] /\ unusable = {}
        /\ version = RulesVersion - 1
        /\ item \in [Ids -> OldItems]
        /\ postStatus \in [Ids -> OldStatuses]
     \/ /\ \/ scene = "repair" /\ mix = {}
           \/ scene = "requests" /\ mix \in Mixes /\ stored = Default /\ unusable = {}
        /\ version = RulesVersion
        /\ item = [p \in Ids |-> [row |-> Skip(NewRow), drm |-> FALSE, cover |-> "none"]]
        /\ postStatus = [p \in Ids |-> Derived(item[p])]

-------------------------------------------------------------------------------
(***************************************************************************)
(* The start.  A session that fails before reconcile ends the process; in  *)
(* reconcile it is logged, and reconcile retried at the next start.        *)
(***************************************************************************)
Fault(next) ==
  /\ faults < MaxFaults
  /\ faults' = faults + 1
  /\ phase' = next

\* The process ends: what only memory holds is gone; cookies and pages are the browsers'.
Forget ==
  /\ cache' = Default
  /\ thread' = [t \in Threads |-> IF thread[t].at = "shown" THEN thread[t] ELSE NoRequest]
  /\ failures' = 0
  /\ UNCHANGED <<mix, rows, tokens, salted, ended, turnedBack, scene, itemVars, told>>

Crash == phase # "down" /\ Fault("down") /\ Forget

\* Between two runs stored settings stop being usable: a newer version reads them, or
\* somebody edited them.  Explored once, and not on top of what was repaired before.
Spoil ==
  /\ scene = "requests" /\ phase = "down"
  /\ Fault("down")
  /\ unusable = {} /\ \A f \in Fields : told[f] = 0
  /\ unusable' \in Spoils
  /\ UNCHANGED <<mix, stored, cache, thread, tokens, failures, salted, ended, turnedBack, scene,
                 itemVars, told>>

\* Logging, the migrations and build_services: nothing here is at stake.
Start ==
  /\ phase = "down"
  /\ phase' = "read"
  /\ UNCHANGED <<settingsVars, scene, itemVars, told>>

\* Mutant of Read: settings that can't be used stop the start.
ReadStrict ==
  /\ phase = "read"
  /\ phase' = IF unusable = {} THEN "normalize" ELSE "down"
  /\ cache' = Usable(stored)
  /\ turnedBack' = (turnedBack \/ "epoch" \in unusable)
  /\ UNCHANGED <<mix, rows, thread, tokens, failures, salted, ended, faults, scene, itemVars, told>>

\* reload, in the first get().
Read ==
  /\ phase = "read"
  /\ cache' = Usable(stored)
  /\ turnedBack' = (turnedBack \/ "epoch" \in unusable)
  /\ phase' = IF unusable = {} THEN "normalize" ELSE "repair"
  /\ UNCHANGED <<mix, rows, thread, tokens, failures, salted, ended, faults, scene, itemVars, told>>

\* _save_reset: the rows and the history that reports them, in one session.
SaveReset ==
  /\ phase = "repair"
  /\ \/ /\ Repaired
        /\ told' = [f \in Fields |-> IF f \in unusable THEN told[f] + 1 ELSE told[f]]
        /\ phase' = "normalize"
        /\ UNCHANGED <<mix, cache, thread, tokens, failures, salted, ended, turnedBack, faults, scene,
                       itemVars>>
     \/ Fault("down") /\ Forget

\* _normalize_settings: a retired rules URL is replaced.
Normalize ==
  /\ phase = "normalize"
  /\ \/ /\ cache' = IF cache.rules = "dead" THEN [cache EXCEPT !.rules = "current"] ELSE cache
        /\ stored' = IF cache.rules = "dead" THEN [stored EXCEPT !.rules = "current"] ELSE stored
        /\ phase' = "reconcile"
        /\ UNCHANGED <<mix, unusable, thread, tokens, failures, salted, ended, turnedBack, faults,
                       scene, itemVars, told>>
     \/ cache.rules = "dead" /\ Fault("down") /\ Forget

-------------------------------------------------------------------------------
(***************************************************************************)
(* reconcile, and recover_interrupted after it.                            *)
(***************************************************************************)
\* The first session on one item: covers, DRM failures, jobs nobody wants.
ByTheRules(i) ==
  LET coverless == i.row.status = "completed" /\ i.cover = "embedded"
      drm       == i.row.status = "failed_permanent" /\ i.drm
      unwanted  == ~i.row.wanted \/ i.row.status \in {"skipped", "excluded"}
  IN  [i EXCEPT !.cover = IF coverless THEN "left out" ELSE @,
                !.row.status = IF drm THEN "unsupported" ELSE @,
                !.row.job = IF unwanted /\ @ = "queued" THEN "none" ELSE @]

ReconcileItems ==
  /\ phase = "reconcile"
  /\ batch' = 1
  /\ IF version >= RulesVersion
     THEN phase' = "recover" /\ UNCHANGED <<item, faults>>
     ELSE \/ /\ item' = [p \in Ids |-> ByTheRules(item[p])]
             /\ phase' = "batches"
             /\ UNCHANGED faults
          \/ Fault("recover") /\ UNCHANGED item
  /\ UNCHANGED <<mix, rows, cache, thread, tokens, failures, salted, ended, turnedBack, scene,
                 version, postStatus, late, told>>

InBatch(p) == p \in batch..(batch + Batch - 1)

\* Mutant of ReconcileBatch: the version is stored with the last full batch.
ReconcileBatchEarly ==
  /\ phase = "batches"
  /\ UNCHANGED <<mix, rows, cache, thread, tokens, failures, salted, ended, turnedBack, scene, item,
                 late, told>>
  /\ \/ /\ batch <= Posts
        /\ postStatus' = [p \in Ids |-> IF InBatch(p) THEN Derived(item[p]) ELSE postStatus[p]]
        /\ batch' = batch + Batch
        /\ version' = IF batch + Batch >= Posts THEN RulesVersion ELSE version
        /\ UNCHANGED <<phase, faults>>
     \/ /\ batch > Posts
        /\ phase' = "recover"
        /\ UNCHANGED <<version, batch, postStatus, faults>>
     \/ Fault("recover") /\ UNCHANGED <<version, batch, postStatus>>

\* A batch of posts a session, and one for the version when all are done.
ReconcileBatch ==
  /\ phase = "batches"
  /\ UNCHANGED <<mix, rows, cache, thread, tokens, failures, salted, ended, turnedBack, scene, item,
                 late, told>>
  /\ \/ /\ batch <= Posts
        /\ postStatus' = [p \in Ids |-> IF InBatch(p) THEN Derived(item[p]) ELSE postStatus[p]]
        /\ batch' = batch + Batch
        /\ UNCHANGED <<version, phase, faults>>
     \/ /\ batch > Posts
        /\ version' = RulesVersion
        /\ phase' = "recover"
        /\ UNCHANGED <<batch, postStatus, faults>>
     \/ Fault("recover") /\ UNCHANGED <<version, batch, postStatus>>

\* The lifespan starts the background services; a session that fails ends it.
ComeUp ==
  /\ phase = "recover"
  /\ \/ /\ item' = [p \in Ids |-> [item[p] EXCEPT !.row = Recover(@)]]
        /\ late' = late \cup {p \in Ids : item[p].row.job = "running"}
        /\ phase' = "up"
        /\ UNCHANGED <<settingsVars, scene, batch, version, postStatus, told>>
     \/ Fault("down") /\ Forget

-------------------------------------------------------------------------------
(***************************************************************************)
(* The process is up.                                                      *)
(***************************************************************************)
Up == phase = "up"

\* A session of the lifecycle on one item derives its post's status again.
ChangeItem(p, changed) ==
  /\ Up /\ scene = "upgrade"
  /\ item' = [item EXCEPT ![p] = changed]
  /\ postStatus' = [postStatus EXCEPT ![p] = Derived(changed)]
  /\ UNCHANGED <<settingsVars, scene, phase, batch, version, told>>

UserActs(p) ==
  /\ \E act \in {"skip", "unskip", "retry"} :
       ChangeItem(p, [item[p] EXCEPT !.row = CASE act = "skip" -> Skip(@)
                                               [] act = "unskip" -> UnskipItem(@)
                                               [] act = "retry" -> Retry(@)])
  /\ UNCHANGED late

Download(p) ==
  /\ Up /\ scene = "upgrade"
  /\ item[p].row.job = "queued"
  /\ item' = [item EXCEPT ![p].row = Started(@)]
  /\ UNCHANGED <<settingsVars, scene, phase, batch, version, postStatus, late, told>>

\* A download fetches its cover itself, and tells a DRM failure from others.
Finish(p, outcome) ==
  /\ item[p].row.job = "running"
  /\ ChangeItem(p, [row |-> RecordOutcome(item[p].row, outcome), drm |-> FALSE,
                    cover |-> IF item[p].cover = "none" THEN "none" ELSE "whole"])
  /\ UNCHANGED late

FileCheck(p) ==
  \/ /\ item[p].row.status = "completed"
     /\ ChangeItem(p, [item[p] EXCEPT !.row = FileMissing(@, FALSE)])
     /\ UNCHANGED late
  \/ /\ item[p].row.status = "missing"
     /\ ChangeItem(p, [item[p] EXCEPT !.row = FileFound(@)])
     /\ late' = late \cup {p}

\* The embed backlog adds the covers that were left out.
EmbedCover(p) ==
  /\ item[p].row.status = "completed" /\ item[p].cover = "left out"
  /\ ChangeItem(p, [item[p] EXCEPT !.cover = "whole"])
  /\ UNCHANGED late

Serve(t) ==
  /\ Up /\ scene = "requests"
  /\ RequestStep(t)
  /\ UNCHANGED <<scene, phase, itemVars, told>>

WindowMoves == Up /\ WindowPasses /\ UNCHANGED <<scene, phase, itemVars, told>>

StartStep ==
  Start \/ Read \/ SaveReset \/ Normalize \/ ReconcileItems \/ ReconcileBatch \/ ComeUp

Next ==
  \/ StartStep
  \/ Crash
  \/ Spoil
  \/ \E t \in Threads : Serve(t)
  \/ WindowMoves
  \/ \E p \in Ids :
       \/ UserActs(p) \/ Download(p) \/ FileCheck(p) \/ EmbedCover(p)
       \/ \E outcome \in {"completed", "permanent", "cancelled"} : Finish(p, outcome)

\* The container restarts the process, and a start goes on until it is up.
Fairness == WF_vars(StartStep)

Spec == Init /\ [][Next]_vars /\ Fairness

-------------------------------------------------------------------------------
(***************************************************************************)
(* Properties.                                                             *)
(***************************************************************************)
\* With no write under way, the settings everyone reads (SettingsService.get,
\* without the lock) are the stored ones, whatever commit failed or crash came.
CacheIsStored ==
  (/\ phase \in {"reconcile", "batches", "recover", "up"}
   /\ \A t \in Threads : thread[t].at # "committed")
  => cache = stored

\* "Two concurrent updates to different fields of a group must not each write
\* back the other's stale copy" (settings_service.py:311), nor does a form, with
\* the blanks masked() shows, a secret: a stored setting changes only by a
\* request that means to change it (a whole settings page means all it shows), or
\* by a repair of one that can't be used.
NothingIsWrittenBack ==
  [][\A f \in Fields : stored'[f] # stored[f] =>
       \/ \E t \in Threads : thread[t].at = "merged" /\ f \in Changes(thread[t])
       \/ f \in unusable
       \/ f = "rules" /\ stored[f] = "dead"]_vars

\* A setting that can't be used is reset "so the reset happens once"
\* (_save_reset), across failed commits and crashes.
ResetOnce == \A f \in DOMAIN told : told[f] <= 1

\* Once the rules version is stored, the rows are as the current rules have
\* them, wherever a crash or a failure cut an earlier reconcile short: every
\* post's status is derived, no DRM failure and no file without its cover is
\* left, and no download is queued that nobody wants.
RowsFollowTheRules ==
  version = RulesVersion =>
    \A p \in Ids \ late :
      /\ postStatus[p] = Derived(item[p])
      /\ ~(item[p].row.status = "failed_permanent" /\ item[p].drm)
      /\ ~(item[p].row.status = "completed" /\ item[p].cover = "embedded")
      /\ item[p].row.job = "queued" => item[p].row.wanted

\* A queued item has a job to claim.  reconcile cancels the job of an item it
\* leaves queued (lifecycle.py:552): no run checks it, see the README.
QueuedHasJob == \A p \in Ids : item[p].row.status = "queued" => item[p].row.job = "queued"

\* Whatever was stored, the program comes up again.
ComesUp == []<>Up
===============================================================================
