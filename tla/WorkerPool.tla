------------------------------- MODULE WorkerPool -------------------------------
(***************************************************************************)
(* The pool of download workers (downloader/manager.py): their number,     *)
(* their sleep and what wakes them, the user's pause, the pause for want   *)
(* of space, and what becomes of a claimed job.  The workers run on the    *)
(* event loop and are interrupted where they await; the queue's handlers   *)
(* run in threads of their own and interleave with everything.  Which job  *)
(* a claim takes is Claims's, what an outcome does to the rows is          *)
(* MediaLifecycle's.                                                       *)
(***************************************************************************)
EXTENDS Naturals, FiniteSets

CONSTANTS
  Jobs,
  MaxConcurrency, \* the setting's upper bound
  MaxCalls,       \* bound: settings saved, and pauses and resumes by the user
  MaxFaults,      \* bound: disks filling and emptying, failures, restarts
  None

ASSUME WorkerPoolAssumption ==
  /\ MaxConcurrency \in Nat \ {0}
  /\ {MaxCalls, MaxFaults} \subseteq Nat
  /\ None \notin Jobs \cup {"user", "disk_full", "pause", "resume"}

VARIABLES
  concurrency, \* downloads.concurrency
  unapplied,   \* saved, while other groups of the same request are still applied
  pool,        \* the worker tasks: where each is, its idx and its claim
  job,         \* status of each job
  kick,        \* the event that idle workers wait for
  soon,        \* call_soon_threadsafe(kick.set) is on its way
  reason,      \* paused_reason
  stored,      \* the stored pause
  call,        \* a pause or resume of the user, between its two halves
  free,        \* there is enough space
  calls, faults,
  wish,        \* history: what the user asked for last, and has been answered
  raced,       \* history: a worker was about to pause or resume when the user paused
  lost         \* history: jobs whose outcome could not be recorded

settings == <<concurrency, unapplied>>
pausing == <<reason, stored, call, wish, raced>>
wake == <<kick, soon>>
bounds == <<calls, faults>>
vars == <<settings, pool, job, wake, pausing, free, bounds, lost>>

Slots == 1 .. MaxConcurrency
Alive == {w \in Slots : pool[w].at # "none"}
NoWorker == [at |-> "none", idx |-> 0, claim |-> None]
Places == {"none", "top", "pausing", "resuming", "resumed", "checked", "claiming", "claimed",
           "running", "recording", "asleep"}

TypeOK ==
  /\ concurrency \in 1 .. MaxConcurrency
  /\ unapplied \in BOOLEAN
  /\ pool \in [Slots -> [at : Places, idx : 0 .. MaxConcurrency - 1, claim : Jobs \cup {None}]]
  /\ job \in [Jobs -> {"new", "queued", "running", "done"}]
  /\ {kick, soon, stored, free, raced} \subseteq BOOLEAN
  /\ reason \in {"user", "disk_full", None}
  /\ call \in {"pause", "resume", None}
  /\ wish \in {"paused", "going"}
  /\ calls \in 0 .. MaxCalls
  /\ faults \in 0 .. MaxFaults
  /\ lost \subseteq Jobs

NewWorker(i) == [at |-> "top", idx |-> i, claim |-> None]

\* Workers 0..n-1
Started(n) == [w \in Slots |-> IF w <= n THEN NewWorker(w - 1) ELSE NoWorker]

Init ==
  /\ concurrency \in 1 .. MaxConcurrency
  /\ unapplied = FALSE
  /\ pool = Started(concurrency)
  /\ job = [j \in Jobs |-> "new"]
  /\ kick = FALSE
  /\ soon = FALSE
  /\ reason = None
  /\ stored = FALSE
  /\ call = None
  /\ free = TRUE
  /\ calls = 0
  /\ faults = 0
  /\ wish = "going"
  /\ raced = FALSE
  /\ lost = {}

At(w, place) == pool[w].at = place
Goes(w, place) == pool' = [pool EXCEPT ![w].at = place]

\* kick.set(): who waits goes on, whoever clears the event afterwards.
Woken(p) == [w \in Slots |-> IF p[w].at = "asleep" THEN [p[w] EXCEPT !.at = "top"] ELSE p[w]]

-----------------------------------------------------------------------------
(* Jobs, settings, the user and the disk. *)

\* A job is committed and the workers are notified, from another thread.
Enqueue(j) ==
  /\ job[j] = "new"
  /\ job' = [job EXCEPT ![j] = "queued"]
  /\ soon' = TRUE
  /\ UNCHANGED <<settings, pool, kick, pausing, free, bounds, lost>>

Deliver ==
  /\ soon
  /\ soon' = FALSE
  /\ kick' = TRUE
  /\ pool' = Woken(pool)
  /\ UNCHANGED <<settings, job, pausing, free, bounds, lost>>

Call == calls < MaxCalls /\ calls' = calls + 1

Save(n) ==
  /\ Call
  /\ concurrency' = n
  /\ unapplied' = TRUE
  /\ UNCHANGED <<pool, job, wake, pausing, free, faults, lost>>

\* Mutant of Resized: surplus workers are dropped at once.
ResizedAtOnce ==
  [w \in Slots |-> IF pool[w].at # "none" /\ pool[w].idx >= concurrency THEN NoWorker ELSE pool[w]]

\* _resize_workers: new workers are numbered from how many there are, surplus
\* ones stay until they notice.
Resized ==
  LET missing == concurrency - Cardinality(Alive)
      vacant(w) == Cardinality({v \in Slots \ Alive : v < w})
  IN  [w \in Slots |-> IF w \notin Alive /\ vacant(w) < missing
                       THEN NewWorker(Cardinality(Alive) + vacant(w))
                       ELSE pool[w]]

\* apply_settings, on the event loop
Apply ==
  /\ unapplied
  /\ unapplied' = FALSE
  /\ pool' = Woken(Resized)
  /\ kick' = TRUE
  /\ UNCHANGED <<concurrency, job, soon, pausing, free, bounds, lost>>

\* pause("user"): the reason, then the stored pause
Pause ==
  /\ Call
  /\ call = None
  /\ call' = "pause"
  /\ reason' = "user"
  /\ raced' = (\E w \in Slots : pool[w].at \in {"pausing", "resuming", "resumed"})
  /\ wish' = "going"
  /\ UNCHANGED <<settings, pool, job, wake, stored, free, faults, lost>>

PauseStored ==
  /\ call = "pause"
  /\ call' = None
  /\ stored' = TRUE
  /\ wish' = "paused"
  /\ UNCHANGED <<settings, pool, job, wake, reason, raced, free, bounds, lost>>

\* resume
Resume ==
  /\ Call
  /\ call = None
  /\ call' = "resume"
  /\ reason' = None
  /\ wish' = "going"
  /\ UNCHANGED <<settings, pool, job, wake, stored, raced, free, faults, lost>>

ResumeStored ==
  /\ call = "resume"
  /\ call' = None
  /\ stored' = FALSE
  /\ soon' = TRUE
  /\ UNCHANGED <<settings, pool, job, kick, reason, wish, raced, free, bounds, lost>>

Fault == faults < MaxFaults /\ faults' = faults + 1

\* The disk fills, or something is deleted from it.
DiskChanges ==
  /\ Fault
  /\ free' = ~free
  /\ UNCHANGED <<settings, pool, job, wake, pausing, calls, lost>>

-----------------------------------------------------------------------------
(* A worker *)

Leave(w) ==
  /\ At(w, "top")
  /\ pool[w].idx >= concurrency
  /\ pool' = [pool EXCEPT ![w] = NoWorker]
  /\ UNCHANGED <<settings, job, wake, pausing, free, bounds, lost>>

\* Mutant of AutoResumes: as the pause was made.
AutoResumesAll == free /\ reason # None

\* A pause that the worker made itself is over.
AutoResumes == free /\ reason = "disk_full"
AutoPauses == ~free /\ reason = None

\* _check_disk: every 30 seconds some worker looks, and then does what is to be
\* done.
Look(w) ==
  /\ At(w, "top")
  /\ pool[w].idx < concurrency
  /\ Goes(w, IF AutoPauses THEN "pausing" ELSE IF AutoResumes THEN "resuming" ELSE "checked")
  /\ UNCHANGED <<settings, job, wake, pausing, free, bounds, lost>>

DontLook(w) ==
  /\ At(w, "top")
  /\ pool[w].idx < concurrency
  /\ Goes(w, "checked")
  /\ UNCHANGED <<settings, job, wake, pausing, free, bounds, lost>>

AutoPause(w) ==
  /\ At(w, "pausing")
  /\ reason' = "disk_full"
  /\ Goes(w, "checked")
  /\ UNCHANGED <<settings, job, wake, stored, call, wish, raced, free, bounds, lost>>

AutoResume(w) ==
  /\ At(w, "resuming")
  /\ reason' = None
  /\ Goes(w, "resumed")
  /\ UNCHANGED <<settings, job, wake, stored, call, wish, raced, free, bounds, lost>>

AutoResumeStored(w) ==
  /\ At(w, "resumed")
  /\ stored' = FALSE
  /\ kick' = TRUE
  /\ pool' = [Woken(pool) EXCEPT ![w].at = "checked"]
  /\ UNCHANGED <<settings, job, soon, reason, call, wish, raced, free, bounds, lost>>

\* _sleep: the event is cleared, whoever set it.
Sleeps(w) == kick' = FALSE /\ pool' = [pool EXCEPT ![w].at = "asleep", ![w].claim = None]

GoOn(w) ==
  /\ At(w, "checked")
  /\ reason = None
  /\ Goes(w, "claiming")
  /\ UNCHANGED <<settings, job, wake, pausing, free, bounds, lost>>

StayPaused(w) ==
  /\ At(w, "checked")
  /\ reason # None
  /\ Sleeps(w)
  /\ UNCHANGED <<settings, job, soon, pausing, free, bounds, lost>>

\* Claims.next in its thread; limits and gaps, which may answer none as well,
\* are left to Claims.
ClaimJob(w, j) ==
  /\ At(w, "claiming")
  /\ job[j] = "queued"
  /\ job' = [job EXCEPT ![j] = "running"]
  /\ pool' = [pool EXCEPT ![w].at = "claimed", ![w].claim = j]
  /\ UNCHANGED <<settings, wake, pausing, free, bounds, lost>>

ClaimNone(w) ==
  /\ At(w, "claiming")
  /\ \A j \in Jobs : job[j] # "queued"
  /\ Goes(w, "claimed")
  /\ UNCHANGED <<settings, job, wake, pausing, free, bounds, lost>>

\* The database is locked: nothing is claimed, and the worker sleeps.
ClaimFails(w) ==
  /\ At(w, "claiming")
  /\ Fault
  /\ Sleeps(w)
  /\ UNCHANGED <<settings, job, soon, pausing, free, calls, lost>>

\* The worker hears of its claim.
Run(w) ==
  /\ At(w, "claimed")
  /\ pool[w].claim # None
  /\ Goes(w, "running")
  /\ UNCHANGED <<settings, job, wake, pausing, free, bounds, lost>>

Rest(w) ==
  /\ At(w, "claimed")
  /\ pool[w].claim = None
  /\ Sleeps(w)
  /\ UNCHANGED <<settings, job, soon, pausing, free, bounds, lost>>

\* DownloadRun.run never raises.
RunEnds(w) ==
  /\ At(w, "running")
  /\ Goes(w, "recording")
  /\ UNCHANGED <<settings, job, wake, pausing, free, bounds, lost>>

\* _record, at the first or the second try
Record(w) ==
  /\ At(w, "recording")
  /\ job' = [job EXCEPT ![pool[w].claim] = "done"]
  /\ kick' = TRUE
  /\ pool' = [Woken(pool) EXCEPT ![w].at = "top", ![w].claim = None]
  /\ UNCHANGED <<settings, soon, pausing, free, bounds, lost>>

\* Both tries fail: the others are woken, and then the worker sleeps.
RecordFails(w) ==
  /\ At(w, "recording")
  /\ Fault
  /\ lost' = lost \cup {pool[w].claim}
  /\ kick' = FALSE
  /\ pool' = [Woken(pool) EXCEPT ![w].at = "asleep", ![w].claim = None]
  /\ UNCHANGED <<settings, job, soon, pausing, free, calls>>

\* Mutant of TimeOut: an idle worker waits until it is woken.
TimeOutNever(w) == FALSE /\ UNCHANGED vars

TimeOut(w) ==
  /\ At(w, "asleep")
  /\ Goes(w, "top")
  /\ UNCHANGED <<settings, job, wake, pausing, free, bounds, lost>>

-----------------------------------------------------------------------------
\* The process stops or dies, and starts: recover_interrupted, the stored
\* pause, and a full pool.
Restart ==
  /\ Fault
  /\ job' = [j \in Jobs |-> IF job[j] = "running" THEN "queued" ELSE job[j]]
  /\ pool' = Started(concurrency)
  /\ reason' = IF stored THEN "user" ELSE None
  /\ call' = None
  /\ raced' = FALSE
  /\ kick' = FALSE
  /\ soon' = FALSE
  /\ unapplied' = FALSE
  /\ lost' = {}
  /\ wish' = IF stored THEN wish ELSE "going"
  /\ UNCHANGED <<concurrency, stored, free, calls>>

WorkerStep(w) ==
  \/ Leave(w) \/ Look(w) \/ DontLook(w) \/ AutoPause(w) \/ AutoResume(w) \/ AutoResumeStored(w)
  \/ GoOn(w) \/ StayPaused(w) \/ (\E j \in Jobs : ClaimJob(w, j)) \/ ClaimNone(w)
  \/ Run(w) \/ Rest(w) \/ RunEnds(w) \/ Record(w) \/ TimeOut(w)

Next ==
  \/ \E j \in Jobs : Enqueue(j)
  \/ Deliver
  \/ \E n \in 1 .. MaxConcurrency : Save(n)
  \/ Apply
  \/ Pause \/ PauseStored \/ Resume \/ ResumeStored
  \/ DiskChanges
  \/ \E w \in Slots : WorkerStep(w) \/ ClaimFails(w) \/ RecordFails(w)
  \/ Restart

Spec == Init /\ [][Next]_vars

\* The loop and the threads go on, downloads end, and 30 seconds after the last
\* look at the disk a worker looks again.
FairSpec ==
  /\ Spec
  /\ WF_vars(Apply)
  /\ \A w \in Slots : WF_vars(WorkerStep(w)) /\ SF_vars(Look(w))
-----------------------------------------------------------------------------
\* A job that is running is in the hands of one worker, however the pool is
\* resized and the process restarted; unless its outcome couldn't be recorded.
RunningHasWorker ==
  \A j \in Jobs : job[j] = "running" =>
    j \in lost \/ Cardinality({w \in Alive : pool[w].claim = j}) = 1

\* The user's pause is neither ended nor replaced by the check of the disk, and
\* survives a restart, if no worker was in that check when the user paused.
PauseHolds == wish = "paused" /\ ~raced => reason = "user" /\ stored

\* The pool doesn't die out, and sleeping workers don't sleep through it: when
\* the disk has space and the user hasn't paused, queued jobs are started.
QueuedRuns ==
  <>[](free /\ reason # "user") => \A j \in Jobs : []<>(job[j] # "queued")

\* manager.py:97 "extra workers exit on their own when they see they're surplus",
\* and then there are as many as configured.
PoolIsFull ==
  ~unapplied /\ (\A w \in Alive : pool[w].idx < concurrency) => Cardinality(Alive) >= concurrency
=================================================================================
