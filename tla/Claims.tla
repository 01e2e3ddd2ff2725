-------------------------------- MODULE Claims --------------------------------
(***************************************************************************)
(* Which queued download starts next (downloader/claims.py), for one       *)
(* provider with an hourly limit: no rule looks at two providers.          *)
(*                                                                         *)
(* Time is kept as ages, so it has no bound: a job's age is the time since *)
(* its started_at, and saturates where the query no longer sees it.  The   *)
(* lifecycle starts the job with a guarded UPDATE (MediaLifecycle!Start).  *)
(***************************************************************************)
EXTENDS Integers, FiniteSets, FiniteSetsExt

CONSTANTS
  Jobs, Creators,
  CreatorOf,    \* the creator of each job's media
  Workers,
  Cap,          \* downloads.max_per_creator
  Limit,        \* <provider>.downloads_per_hour (0 would be no limit)
  Spread,       \* downloads.spread_downloads
  Hour,         \* an hour, in ticks
  MaxRestarts,  \* bound: restarts explored
  None

ASSUME ClaimsAssumption ==
  /\ IsFiniteSet(Jobs)
  /\ CreatorOf \in [Jobs -> Creators]
  /\ Cap \in Nat \ {0} /\ Limit \in Nat \ {0} /\ Hour \in Nat \ {0}
  /\ MaxRestarts \in Nat
  /\ Spread \in BOOLEAN
  /\ None \notin Workers \cup Nat

VARIABLES
  job,          \* each job's status, and the age of its started_at
  off,          \* creators that are switched off, or whose provider is off or signed out
  wait,         \* _next_start: the time until it, None if the provider has none
  found,        \* the candidates a worker's query returned, None outside of next
  page,         \* provider_status: where it is, and the age of the newest start it read
  busy,         \* whether, in this behaviour, rows are deleted and the queue page is open
  starts,       \* history: the last hour's starts: of which job, how long ago, in which process
  restarts

vars == <<job, off, wait, found, page, busy, starts, restarts>>

\* pacing_gap: half to one-and-a-half times the even interval Hour / Limit.
Gaps == {g \in 0..(2 * Hour) : Hour <= 2 * g * Limit /\ 2 * g * Limit <= 3 * Hour}

PageClosed == [at |-> "closed", newest |-> 0]
Unseen == Hour + 1      \* older than the query's cutoff, or never started

TypeOK ==
  /\ job \in [Jobs -> [at : {"queued", "running", "ended"}, age : 0..Unseen]]
  /\ off \subseteq Creators
  /\ wait \in Gaps \cup 0..(2 * Hour) \cup {None}
  /\ found \in [Workers -> SUBSET Jobs \cup {None}]
  /\ page \in [at : {"closed", "read", "deriving"}, newest : 0..(2 * Hour)]
  /\ busy \in BOOLEAN
  /\ starts \subseteq [job : Jobs, age : 0..Hour, process : 0..MaxRestarts]
  /\ restarts \in 0..MaxRestarts

Init ==
  /\ job \in [Jobs -> [at : {"queued", "ended"}, age : {Unseen}]]
  /\ off \in SUBSET Creators
  /\ wait = None
  /\ found = [w \in Workers |-> None]
  /\ page = PageClosed
  /\ busy \in BOOLEAN
  /\ starts = {}
  /\ restarts = 0

-------------------------------------------------------------------------------
\* _hourly_starts: the rows started in the last hour.
Recent == {j \in Jobs : job[j].age <= Hour}
Newest == Min({job[j].age : j \in Recent})

Running(c) == {j \in Jobs : CreatorOf[j] = c /\ job[j].at = "running"}

\* Mutant of UnderLimit: one start too many.
UnderLimitByOne == Cardinality(Recent) <= Limit
UnderLimit == Cardinality(Recent) < Limit

\* Mutant of NextAllowedStart: a lost start time is not derived again.
LostAtRestart == {wait}

\* _next_allowed_start keeps the time it has, or derives it from the newest start.
NextAllowedStart ==
  IF ~Spread \/ wait # None \/ Recent = {} THEN {wait}
  ELSE {Max({0, g - Newest}) : g \in Gaps}

\* Mutant of Candidates: queued jobs count against the cap.
CandidatesCounted ==
  {j \in Jobs : /\ job[j].at = "queued"
                /\ CreatorOf[j] \notin off
                /\ Cardinality({k \in Jobs \ {j} : CreatorOf[k] = CreatorOf[j] /\ job[k].at # "ended"}) < Cap}

Candidates ==
  {j \in Jobs : /\ job[j].at = "queued"
                /\ CreatorOf[j] \notin off
                /\ Cardinality(Running(CreatorOf[j])) < Cap}

-------------------------------------------------------------------------------
\* next holds _lock from its query to the claim.
Unlocked == \A w \in Workers : found[w] = None

\* Mutant of Query: without the lock.
QueryUnlocked(w) ==
  /\ found[w] = None
  /\ \E next \in NextAllowedStart :
       LET allowed == UnderLimit /\ next \in {None, 0}
       IN  /\ wait' = IF UnderLimit THEN next ELSE wait
           /\ found' = [found EXCEPT ![w] = IF allowed THEN Candidates ELSE {}]
  /\ UNCHANGED <<job, off, page, busy, starts, restarts>>

\* A worker asks for the candidates.
Query(w) ==
  /\ Unlocked
  /\ \E next \in NextAllowedStart :
       LET allowed == UnderLimit /\ next \in {None, 0}
       IN  /\ wait' = IF UnderLimit THEN next ELSE wait
           /\ found' = [found EXCEPT ![w] = IF allowed THEN Candidates ELSE {}]
  /\ UNCHANGED <<job, off, page, busy, starts, restarts>>

\* The first candidate still queued starts, and _schedule_next_start picks the gap.
StartDownload(w, j) ==
  /\ found[w] # None /\ j \in found[w]
  /\ job[j].at = "queued"
  /\ job' = [job EXCEPT ![j] = [at |-> "running", age |-> 0]]
  /\ wait' \in IF Spread THEN Gaps ELSE {None}
  /\ found' = [found EXCEPT ![w] = None]
  /\ starts' = starts \cup {[job |-> j, age |-> 0, process |-> restarts]}
  /\ UNCHANGED <<off, page, busy, restarts>>

\* No candidate is still queued: no claim.
NoClaim(w) ==
  /\ found[w] # None
  /\ \A j \in found[w] : job[j].at # "queued"
  /\ found' = [found EXCEPT ![w] = None]
  /\ UNCHANGED <<job, off, wait, page, busy, starts, restarts>>

\* provider_status derives the next start too, in a thread of its own and
\* without the lock.  It reads the newest start (with none it derives nothing) ...
ReadStarts ==
  /\ busy /\ Spread
  /\ page.at = "closed" /\ Recent # {}
  /\ page' = [at |-> "read", newest |-> Newest]
  /\ UNCHANGED <<job, off, wait, found, busy, starts, restarts>>

\* ... later looks for a next start ...
LookForNextStart ==
  /\ page.at = "read"
  /\ page' = IF wait = None THEN [page EXCEPT !.at = "deriving"] ELSE PageClosed
  /\ UNCHANGED <<job, off, wait, found, busy, starts, restarts>>

\* ... and, having found none, stores one.
StoreNextStart ==
  /\ page.at = "deriving"
  /\ \E g \in Gaps : wait' = Max({0, g - page.newest})
  /\ page' = PageClosed
  /\ UNCHANGED <<job, off, found, busy, starts, restarts>>

ProviderStatus == ReadStarts \/ LookForNextStart \/ StoreNextStart

\* Any saved setting drops the time of the next start.
SettingsChanged ==
  /\ wait' = None
  /\ UNCHANGED <<job, off, found, page, busy, starts, restarts>>

-------------------------------------------------------------------------------
\* A download ends, or a queued one is removed.
End(j) ==
  /\ job[j].at # "ended"
  /\ job' = [job EXCEPT ![j].at = "ended"]
  /\ UNCHANGED <<off, wait, found, page, busy, starts, restarts>>

SwitchCreator(c) ==
  /\ off' = IF c \in off THEN off \ {c} ELSE off \cup {c}
  /\ UNCHANGED <<job, wait, found, page, busy, starts, restarts>>

\* The creator's rows are deleted, with the start times of its jobs.
DeleteCreator(c) ==
  /\ busy
  /\ job' = [j \in Jobs |-> IF CreatorOf[j] = c THEN [at |-> "ended", age |-> Unseen] ELSE job[j]]
  /\ UNCHANGED <<off, wait, found, page, busy, starts, restarts>>

\* A scan drops an item that its post no longer has.
DropItem(j) ==
  /\ busy
  /\ job' = [job EXCEPT ![j] = [at |-> "ended", age |-> Unseen]]
  /\ UNCHANGED <<off, wait, found, page, busy, starts, restarts>>

\* recover_interrupted queues the running jobs again; _next_start is lost.
Restart ==
  /\ restarts < MaxRestarts
  /\ restarts' = restarts + 1
  /\ job' = [j \in Jobs |-> [job[j] EXCEPT !.at = IF @ = "running" THEN "queued" ELSE @]]
  /\ wait' = None
  /\ found' = [w \in Workers |-> None]
  /\ page' = PageClosed
  /\ UNCHANGED <<off, busy, starts>>

Tick ==
  /\ job' = [j \in Jobs |-> [job[j] EXCEPT !.age = Min({@ + 1, Unseen})]]
  /\ wait' = IF wait = None THEN None ELSE Max({0, wait - 1})
  /\ starts' = {[s EXCEPT !.age = @ + 1] : s \in {t \in starts : t.age < Hour}}
  /\ page' = [page EXCEPT !.newest = IF page.at = "closed" THEN 0 ELSE Min({@ + 1, 2 * Hour})]
  /\ UNCHANGED <<off, found, busy, restarts>>

-------------------------------------------------------------------------------
ClaimStep(w) == Query(w) \/ NoClaim(w) \/ \E j \in Jobs : StartDownload(w, j)

Next ==
  \/ \E w \in Workers : ClaimStep(w)
  \/ ProviderStatus
  \/ SettingsChanged
  \/ \E j \in Jobs : End(j) \/ DropItem(j)
  \/ \E c \in Creators : SwitchCreator(c) \/ DeleteCreator(c)
  \/ Restart
  \/ Tick

Spec == Init /\ [][Next]_vars

\* Time passes, the workers ask again and again, and running downloads end.
Fairness ==
  /\ WF_vars(Tick)
  /\ \A w \in Workers : WF_vars(NoClaim(w) \/ \E j \in Jobs : StartDownload(w, j))
  /\ SF_vars(\E w \in Workers : Query(w))
  /\ \A j \in Jobs : WF_vars(job[j].at = "running" /\ End(j))

FairSpec == Spec /\ Fairness

-------------------------------------------------------------------------------
(***************************************************************************)
(* Properties.                                                             *)
(***************************************************************************)
\* "Per-provider cap on downloads started per hour" (docs/configuration.md:15):
\* no hour sees more starts.
LimitHolds == Cardinality(starts) <= Limit

\* Without a restart, and without deleted rows, whose starts aren't counted, this
\* holds however workers, removals and saved settings interleave.
LimitHoldsUntilRestart == restarts = 0 /\ ~busy => LimitHolds

\* A creator never has more than its share of downloads running, though two
\* workers count before they start.
CapHolds == \A c \in Creators : Cardinality(Running(c)) <= Cap

\* Pacing puts starts "½×–1½× of 3600/cap seconds" apart and "the gap survives
\* restarts" (docs/configuration.md:16): two starts are half the even interval
\* apart at least, whatever restarts and saved settings are between them.
GapHolds ==
  [][~busy /\ Spread /\ (\E w \in Workers, j \in Jobs : StartDownload(w, j))
       => \A s \in starts : 2 * Limit * s.age >= Hour]_vars

\* A queued download of a creator that stays switched on starts some time (or
\* is removed): limit and pacing hold it up, never off.
QueuedStarts ==
  \A j \in Jobs : job[j].at = "queued" ~> job[j].at # "queued" \/ CreatorOf[j] \in off
===============================================================================
