----------------------------- MODULE ClaimsProofs ------------------------------
(***************************************************************************)
(* The cap of a creator, the limit of an hour and the gap between starts,  *)
(* for all jobs, creators, workers, caps, limits and restarts.             *)
(*                                                                         *)
(* Two workers count before either starts a download; what makes the count *)
(* good is that next keeps its lock until the claim (OneInNext): until     *)
(* then nobody else starts a download, and everything else only ends them  *)
(* (RoomLeft).  The limit and the gap are about the starts there were, and *)
(* the query sees rows: until a restart the rows tell all of the hour's    *)
(* starts (RowsTellStarts), and through restarts they tell the newest      *)
(* (RowsAreNewer), from which a lost next start is derived.                *)
(***************************************************************************)
EXTENDS Claims, FiniteSetTheorems, WellFoundedInduction, TLAPS

JobTyped == job \in [Jobs -> [at : {"queued", "running", "ended"}, age : Int]]

\* One worker at most is between its query and its claim.
OneInNext == \A v, w \in Workers : found[v] # None /\ found[w] # None => v = w

\* What the query found to have room still has it.
RoomLeft ==
  \A w \in Workers : found[w] # None =>
    \A j \in found[w] \cap Jobs :
      job[j].at = "queued" => Cardinality(Running(CreatorOf[j])) < Cap

IInv ==
  /\ JobTyped
  /\ DOMAIN found = Workers
  /\ OneInNext
  /\ RoomLeft
  /\ CapHolds

-------------------------------------------------------------------------------
\* The smaller of two integers is one of them.
LEMMA MinOfTwo ==
  ASSUME NEW a \in Int, NEW b \in Int
  PROVE  Min({a, b}) \in Int
<1>1. \E x \in {a, b} : \A y \in {a, b} : x =< y
  OBVIOUS
<1>2. Min({a, b}) \in {a, b}
  BY <1>1 DEF Min
<1> QED
  BY <1>2

\* A creator's running downloads can be counted.
LEMMA RunningFinite ==
  ASSUME NEW c
  PROVE  IsFiniteSet(Running(c)) /\ Cardinality(Running(c)) \in Nat
<1>1. Running(c) \in SUBSET Jobs
  BY DEF Running
<1> QED
  BY <1>1, ClaimsAssumption, FS_Subset, FS_CardinalityType DEF ClaimsAssumption

\* A step that starts and queues no download and leaves next at most.
LEMMA EndsOnly ==
  ASSUME IInv, JobTyped',
         \A j \in Jobs : /\ job'[j].at = "running" => job[j].at = "running"
                         /\ job'[j].at = "queued" => job[j].at = "queued",
         DOMAIN found' = Workers,
         \A w \in Workers : found'[w] = found[w] \/ found'[w] = None
  PROVE  IInv'
<1> USE DEF IInv
<1>1. ASSUME NEW c
      PROVE  Cardinality(Running(c)') <= Cardinality(Running(c))
  <2>1. Running(c)' \in SUBSET Running(c)
    BY DEF Running
  <2> QED
    BY <2>1, RunningFinite, FS_Subset
<1>2. \A c : Cardinality(Running(c)') \in Nat
  <2> TAKE c
  <2>1. Running(c)' \in SUBSET Jobs
    BY DEF Running
  <2> QED
    BY <2>1, ClaimsAssumption, FS_Subset, FS_CardinalityType DEF ClaimsAssumption
<1>3. OneInNext'
  BY DEF OneInNext
<1>4. RoomLeft'
  BY <1>1, <1>2, RunningFinite, ClaimsAssumption DEF RoomLeft, ClaimsAssumption
<1>5. CapHolds'
  BY <1>1, <1>2, RunningFinite, ClaimsAssumption DEF CapHolds, ClaimsAssumption
<1> QED
  BY <1>3, <1>4, <1>5

\* A worker asks: alone, and with the creators' running downloads counted.
LEMMA QueryKeeps ==
  ASSUME IInv, NEW w \in Workers, Query(w)
  PROVE  IInv'
<1> USE DEF IInv
<1>1. PICK S \in {Candidates, {}} : found' = [found EXCEPT ![w] = S]
  BY DEF Query
<1>2. job' = job /\ UNCHANGED Unseen
  BY DEF Query, Unseen
<1>3. \A c : Running(c)' = Running(c)
  BY <1>2 DEF Running
<1>4. Candidates \in SUBSET Jobs
  BY DEF Candidates
<1>5. \A v \in Workers : v # w => found'[v] = None
  BY <1>1 DEF Query, Unlocked
<1>6. JobTyped' /\ CapHolds'
  BY <1>2, <1>3 DEF JobTyped, CapHolds
<1>7. OneInNext'
  BY <1>5 DEF OneInNext
<1>8. RoomLeft'
  <2> SUFFICES ASSUME NEW v \in Workers, found'[v] # None, NEW j \in found'[v] \cap Jobs
               PROVE  Cardinality(Running(CreatorOf[j])') < Cap
    BY DEF RoomLeft
  <2>1. v = w /\ found'[w] = S
    BY <1>1, <1>5
  <2>2. j \in Candidates
    BY <2>1
  <2> QED
    BY <2>2, <1>3 DEF Candidates
<1> QED
  BY <1>1, <1>4, <1>6, <1>7, <1>8

\* The download that starts has room for one more, and next is over.
LEMMA StartKeeps ==
  ASSUME IInv, NEW w \in Workers, NEW j \in Jobs, StartDownload(w, j)
  PROVE  IInv'
<1> USE DEF IInv
<1>1. /\ job' = [job EXCEPT ![j] = [at |-> "running", age |-> 0]]
      /\ found' = [found EXCEPT ![w] = None]
  BY DEF StartDownload
<1>2. \A v \in Workers : found'[v] = None
  BY <1>1 DEF StartDownload, OneInNext
<1>3. JobTyped'
  BY <1>1 DEF JobTyped
<1>4. OneInNext' /\ RoomLeft'
  BY <1>2 DEF OneInNext, RoomLeft
<1>5. CapHolds'
  <2> SUFFICES ASSUME NEW c \in Creators
               PROVE  Cardinality(Running(c)') <= Cap
    BY DEF CapHolds
  <2>1. CASE c = CreatorOf[j]
    <3>1. Running(c)' = Running(c) \cup {j}
      BY <1>1, <2>1 DEF Running, JobTyped
    <3>2. Cardinality(Running(c)) < Cap
      BY <2>1 DEF StartDownload, RoomLeft
    <3>3. IsFiniteSet(Running(c)) /\ Cardinality(Running(c)) \in Nat
      BY RunningFinite
    <3>4. Cardinality(Running(c) \cup {j}) \in {Cardinality(Running(c)), Cardinality(Running(c)) + 1}
      BY <3>3, FS_AddElement
    <3> QED
      BY <3>1, <3>2, <3>3, <3>4, ClaimsAssumption DEF ClaimsAssumption
  <2>2. CASE c # CreatorOf[j]
    <3>1. Running(c)' = Running(c)
      BY <1>1, <2>2 DEF Running, JobTyped
    <3> QED
      BY <3>1 DEF CapHolds
  <2> QED
    BY <2>1, <2>2
<1>6. DOMAIN found' = Workers
  BY <1>1
<1> QED
  BY <1>3, <1>4, <1>5, <1>6

\* A restart stops every download and forgets who was in next.
LEMMA RestartKeeps ==
  ASSUME IInv, Restart
  PROVE  IInv'
<1> USE DEF IInv
<1>1. /\ job' = [i \in Jobs |-> [job[i] EXCEPT !.at = IF @ = "running" THEN "queued" ELSE @]]
      /\ found' = [w \in Workers |-> None]
  BY DEF Restart
<1>2. JobTyped' /\ \A i \in Jobs : job'[i].at # "running"
  BY <1>1 DEF JobTyped
<1>3. \A c : Cardinality(Running(c)') = 0
  <2> TAKE c
  <2>1. Running(c)' = {}
    BY <1>2 DEF Running
  <2> QED
    BY <2>1, FS_EmptySet
<1>4. OneInNext' /\ RoomLeft'
  BY <1>1 DEF OneInNext, RoomLeft
<1>5. CapHolds'
  BY <1>3, ClaimsAssumption DEF CapHolds, ClaimsAssumption
<1>6. DOMAIN found' = Workers
  BY <1>1
<1> QED
  BY <1>2, <1>4, <1>5, <1>6

\* Every step keeps the invariant.
LEMMA StepKeeps ==
  ASSUME IInv, [Next]_vars
  PROVE  IInv'
<1> USE DEF IInv
<1>1. ASSUME UNCHANGED <<job, found>>
      PROVE  IInv'
  BY <1>1, EndsOnly DEF JobTyped
<1>2. ASSUME NEW w \in Workers, ClaimStep(w)
      PROVE  IInv'
  <2>1. CASE Query(w)
    BY <2>1, QueryKeeps
  <2>2. CASE NoClaim(w)
    <3>1. /\ job' = job
          /\ found' = [found EXCEPT ![w] = None]
      BY <2>2 DEF NoClaim
    <3>2. JobTyped'
      BY <3>1 DEF JobTyped
    <3>3. /\ DOMAIN found' = Workers
          /\ \A v \in Workers : found'[v] = found[v] \/ found'[v] = None
      BY <3>1
    <3> QED
      BY <3>1, <3>2, <3>3, EndsOnly
  <2>3. CASE \E j \in Jobs : StartDownload(w, j)
    BY <2>3, StartKeeps
  <2> QED
    BY <1>2, <2>1, <2>2, <2>3 DEF ClaimStep
<1>3. ASSUME NEW j \in Jobs, End(j) \/ DropItem(j)
      PROVE  IInv'
  <2>1. /\ found' = found
        /\ \E a \in Int : job' = [job EXCEPT ![j] = [at |-> "ended", age |-> a]]
    BY <1>3, ClaimsAssumption DEF End, DropItem, JobTyped, Unseen, ClaimsAssumption
  <2>2. JobTyped'
    BY <2>1 DEF JobTyped
  <2> QED
    BY <2>1, <2>2, EndsOnly DEF JobTyped
<1>4. ASSUME NEW c \in Creators, DeleteCreator(c)
      PROVE  IInv'
  <2>1. /\ found' = found
        /\ job' = [i \in Jobs |-> IF CreatorOf[i] = c THEN [at |-> "ended", age |-> Unseen] ELSE job[i]]
    BY <1>4 DEF DeleteCreator
  <2>2. JobTyped'
    BY <2>1, ClaimsAssumption DEF JobTyped, Unseen, ClaimsAssumption
  <2> QED
    BY <2>1, <2>2, EndsOnly DEF JobTyped
<1>5. ASSUME Tick
      PROVE  IInv'
  <2>1. /\ found' = found
        /\ job' = [i \in Jobs |-> [job[i] EXCEPT !.age = Min({@ + 1, Unseen})]]
    BY <1>5 DEF Tick
  <2>2. \A i \in Jobs : Min({job[i].age + 1, Unseen}) \in Int
    BY MinOfTwo, ClaimsAssumption DEF JobTyped, Unseen, ClaimsAssumption
  <2>3. \A i \in Jobs : job'[i] = [at |-> job[i].at, age |-> Min({job[i].age + 1, Unseen})]
    BY <2>1 DEF JobTyped
  <2>4. JobTyped'
    BY <2>1, <2>2, <2>3 DEF JobTyped
  <2> QED
    BY <2>1, <2>3, <2>4, EndsOnly
<1>6. CASE ProviderStatus \/ SettingsChanged \/ \E c \in Creators : SwitchCreator(c)
  BY <1>1, <1>6 DEF ProviderStatus, ReadStarts, LookForNextStart, StoreNextStart,
                    SettingsChanged, SwitchCreator
<1>7. CASE UNCHANGED vars
  BY <1>1, <1>7 DEF vars
<1> QED
  BY <1>2, <1>3, <1>4, <1>5, <1>6, <1>7, RestartKeeps DEF Next

LEMMA BeginsWithRoom == Init => IInv
<1> SUFFICES ASSUME Init PROVE IInv
  OBVIOUS
<1>1. JobTyped
  BY ClaimsAssumption DEF Init, JobTyped, Unseen, ClaimsAssumption
<1>2. \A c : Running(c) = {}
  BY DEF Init, Running
<1>3. CapHolds
  BY <1>2, FS_EmptySet, ClaimsAssumption DEF CapHolds, ClaimsAssumption
<1>4. found = [w \in Workers |-> None]
  BY DEF Init
<1>5. DOMAIN found = Workers
  BY <1>4
<1>6. OneInNext /\ RoomLeft
  BY <1>4 DEF OneInNext, RoomLeft
<1> QED
  BY <1>1, <1>3, <1>5, <1>6 DEF IInv

\* A creator never has more than max_per_creator downloads running
\* (claims.py:214), however many workers ask and whatever is removed,
\* restarted or saved between a query and its claim.
THEOREM CapAlwaysHolds == Spec => []CapHolds
<1>1. Init => IInv
  BY BeginsWithRoom
<1>2. IInv /\ [Next]_vars => IInv'
  BY StepKeeps
<1>3. IInv => CapHolds
  BY DEF IInv
<1> QED
  BY <1>1, <1>2, <1>3, PTL DEF Spec
-------------------------------------------------------------------------------
(***************************************************************************)
(* The hourly limit and the gap.  Both are about the starts there really   *)
(* were; the query sees job rows.                                          *)
(***************************************************************************)
\* What the limit and the gap relate, and its types.
StartsTyped ==
  /\ starts \subseteq [job : Jobs, age : 0..Hour, process : Nat]
  /\ job \in [Jobs -> [at : {"queued", "running", "ended"}, age : 0..Unseen]]
  /\ restarts \in Nat

\* Before the first restart a job starts once, and its row shows when; a queued
\* one has not started.
RowsTellStarts ==
  restarts = 0 =>
    /\ \A j \in Jobs : job[j].at = "queued" => job[j].age = Unseen
    /\ ~busy => \A s \in starts : s.process = 0 /\ job[s.job].age = s.age

\* The rows that the limit counts keep it, and a worker that was let through
\* leaves room for its start.
RowsKeepLimit ==
  /\ Cardinality(Recent) <= Limit
  /\ \A w \in Workers : found[w] \notin {None, {}} => Cardinality(Recent) < Limit

LimitInv == StartsTyped /\ RowsTellStarts /\ RowsKeepLimit

\* Without deleted rows each start has a row that is as new.
RowsAreNewer == \A s \in starts : job[s.job].age <= s.age

Apart(age) == 2 * Limit * age >= Hour

\* The next start, and the one of a worker that was let through, is far enough
\* from every start there was.
GapKept ==
  /\ page.at = "closed"
  /\ wait \in Nat \cup {None}
  /\ wait # None => \A s \in starts : Apart(s.age + wait)
  /\ \A w \in Workers : found[w] \notin {None, {}} => \A s \in starts : Apart(s.age)

GapInv == StartsTyped /\ (~busy /\ Spread => RowsAreNewer /\ GapKept)

\* A set of ages has a smallest.
LEMMA MinOfAges ==
  ASSUME NEW S \in SUBSET Nat, S # {}
  PROVE  Min(S) \in S /\ \A y \in S : Min(S) <= y
<1>1. \E x \in S : \A y \in S : ~(<<y, x>> \in OpToRel(<, Nat))
  BY NatLessThanWellFounded, WFMin
<1>2. PICK x \in S : \A y \in S : ~(<<y, x>> \in OpToRel(<, Nat))
  BY <1>1
<1>3. \A y \in S : x =< y
  <2> SUFFICES ASSUME NEW y \in S, y < x PROVE FALSE
    OBVIOUS
  <2>1. <<y, x>> \in Nat \X Nat
    OBVIOUS
  <2>2. <<y, x>> \in OpToRel(<, Nat)
    BY <2>1 DEF OpToRel
  <2> QED
    BY <1>2, <2>2
<1> QED
  BY <1>3 DEF Min

LEMMA MaxOfTwo ==
  ASSUME NEW a \in Int
  PROVE  Max({0, a}) \in Nat /\ Max({0, a}) >= a
<1>1. \E x \in {0, a} : \A y \in {0, a} : x >= y
  OBVIOUS
<1>2. Max({0, a}) \in {0, a} /\ \A y \in {0, a} : Max({0, a}) >= y
  BY <1>1 DEF Max
<1> QED
  BY <1>2

\* An older start is apart if a newer one is.
LEMMA ApartGrows ==
  ASSUME NEW a \in Nat, NEW b \in Nat, a <= b, Apart(a)
  PROVE  Apart(b)
<1>1. Limit \in Nat /\ Hour \in Nat
  BY ClaimsAssumption DEF ClaimsAssumption
<1>2. Limit * a <= Limit * b
  BY <1>1
<1>3. 2 * Limit * a <= 2 * Limit * b
  BY <1>1, <1>2
<1> QED
  BY <1>1, <1>3 DEF Apart

\* pacing_gap is half the even interval at least.
LEMMA GapsAreApart ==
  ASSUME NEW g \in Gaps
  PROVE  g \in Nat /\ Apart(g)
<1>1. Limit \in Nat /\ Hour \in Nat
  BY ClaimsAssumption DEF ClaimsAssumption
<1>2. g \in Nat /\ Hour <= 2 * g * Limit
  BY <1>1 DEF Gaps
<1>3. 2 * g * Limit = 2 * Limit * g
  BY <1>1, <1>2
<1> QED
  BY <1>1, <1>2, <1>3 DEF Apart

\* The query's rows can be counted.
LEMMA RecentFinite ==
  /\ IsFiniteSet(Recent)
  /\ Cardinality(Recent) \in Nat
<1>1. Recent \in SUBSET Jobs
  BY DEF Recent
<1> QED
  BY <1>1, ClaimsAssumption, FS_Subset, FS_CardinalityType DEF ClaimsAssumption

\* Before the first restart the rows count every start.
LEMMA StartsAreCounted ==
  ASSUME StartsTyped, RowsTellStarts, restarts = 0, ~busy
  PROVE  /\ IsFiniteSet(starts)
         /\ Cardinality(starts) <= Cardinality(Recent)
<1> DEFINE f == [s \in starts |-> s.job]
<1>1. \A s \in starts : s.job \in Recent
  BY ClaimsAssumption DEF StartsTyped, RowsTellStarts, Recent, ClaimsAssumption
<1>2. \A s, t \in starts : s.job = t.job => s = t
  BY DEF StartsTyped, RowsTellStarts
<1>3. f \in Injection(starts, Recent)
  BY <1>1, <1>2 DEF Injection, IsInjective
<1> QED
  BY <1>3, RecentFinite, FS_Injection

\* A step that makes no row newer and starts nothing keeps what the rows count.
LEMMA RowsFade ==
  ASSUME StartsTyped, RowsKeepLimit,
         \A j \in Jobs : job'[j].age <= Hour => job[j].age <= Hour,
         \A w \in Workers : found'[w] = found[w] \/ found'[w] = None
  PROVE  RowsKeepLimit'
<1>1. Recent' \in SUBSET Recent
  BY DEF Recent
<1>2. /\ Cardinality(Recent') <= Cardinality(Recent)
      /\ Cardinality(Recent') \in Nat
  BY <1>1, RecentFinite, FS_Subset, FS_CardinalityType
<1> QED
  BY <1>2, RecentFinite, ClaimsAssumption DEF RowsKeepLimit, ClaimsAssumption

\* A tick of the clock makes a row older, until the query no longer sees it.
LEMMA TickedRow ==
  ASSUME StartsTyped, Tick, NEW j \in Jobs
  PROVE  /\ job'[j].at = job[j].at
         /\ job'[j].age = IF job[j].age <= Hour THEN job[j].age + 1 ELSE Unseen
         /\ job'[j] \in [at : {"queued", "running", "ended"}, age : 0..Unseen]
<1>1. job[j] \in [at : {"queued", "running", "ended"}, age : 0..Unseen] /\ Hour \in Nat
  BY ClaimsAssumption DEF StartsTyped, ClaimsAssumption
<1>2. job'[j] = [job[j] EXCEPT !.age = Min({job[j].age + 1, Unseen})]
  BY DEF Tick
<1> DEFINE a == job[j].age
           older == IF a <= Hour THEN a + 1 ELSE Unseen
<1>3. Min({a + 1, Unseen}) = older
  <2>1. a \in 0..Unseen /\ Unseen = Hour + 1
    BY <1>1 DEF Unseen
  <2>2. older \in {a + 1, Unseen} /\ \A y \in {a + 1, Unseen} : older =< y
    BY <1>1, <2>1
  <2>3. \A x \in {a + 1, Unseen} : (\A y \in {a + 1, Unseen} : x =< y) => x = older
    BY <1>1, <2>1
  <2> HIDE DEF a, older
  <2> QED
    BY <2>2, <2>3 DEF Min
<1> QED
  BY <1>1, <1>2, <1>3 DEF Unseen

LEMMA TypeKept ==
  ASSUME StartsTyped, [Next]_vars
  PROVE  StartsTyped'
<1> DEFINE Row == [at : {"queued", "running", "ended"}, age : 0..Unseen]
           Starts == [job : Jobs, age : 0..Hour, process : Nat]
<1>0. Hour \in Nat /\ Limit \in Nat
  BY ClaimsAssumption DEF ClaimsAssumption
<1>1. ASSUME UNCHANGED <<job, starts, restarts>>
      PROVE  StartsTyped'
  BY <1>1 DEF StartsTyped, Unseen
<1>2. ASSUME NEW w \in Workers, NEW j \in Jobs, StartDownload(w, j)
      PROVE  StartsTyped'
  <2>1. [at |-> "running", age |-> 0] \in Row /\ [job |-> j, age |-> 0, process |-> restarts] \in Starts
    BY <1>0 DEF StartsTyped, Unseen
  <2> QED
    BY <1>2, <2>1 DEF StartDownload, StartsTyped, Unseen
<1>3. ASSUME NEW j \in Jobs, End(j) \/ DropItem(j)
      PROVE  StartsTyped'
  <2>1. [at |-> "ended", age |-> Unseen] \in Row /\ [job[j] EXCEPT !.at = "ended"] \in Row
    BY <1>0 DEF StartsTyped, Unseen
  <2> QED
    BY <1>3, <2>1 DEF End, DropItem, StartsTyped, Unseen
<1>4. ASSUME NEW c \in Creators, DeleteCreator(c)
      PROVE  StartsTyped'
  <2>1. [at |-> "ended", age |-> Unseen] \in Row
    BY <1>0 DEF Unseen
  <2> QED
    BY <1>4, <2>1 DEF DeleteCreator, StartsTyped, Unseen
<1>5. ASSUME Restart
      PROVE  StartsTyped'
  <2>1. \A j \in Jobs : [job[j] EXCEPT !.at = IF @ = "running" THEN "queued" ELSE @] \in Row
    BY DEF StartsTyped
  <2> QED
    BY <1>5, <2>1 DEF Restart, StartsTyped, Unseen
<1>6. ASSUME Tick
      PROVE  StartsTyped'
  <2>1. \A j \in Jobs : job'[j] \in Row
    BY <1>6, TickedRow
  <2>2. job' = [j \in Jobs |-> job'[j]]
    BY <1>6 DEF Tick
  <2>3. \A s \in starts : s.age < Hour => [s EXCEPT !.age = @ + 1] \in Starts
    BY <1>0 DEF StartsTyped
  <2>4. starts' \subseteq Starts
    BY <1>6, <2>3 DEF Tick
  <2>5. restarts' = restarts
    BY <1>6 DEF Tick
  <2> QED
    BY <2>1, <2>2, <2>4, <2>5 DEF StartsTyped, Unseen
<1> QED
  BY <1>1, <1>2, <1>3, <1>4, <1>5, <1>6 DEF Next, vars, ClaimStep, Query, NoClaim, ProviderStatus,
     ReadStarts, LookForNextStart, StoreNextStart, SettingsChanged, SwitchCreator

\* While nothing restarts and nothing is deleted, only a start makes a row new,
\* and only of a job that was queued.
LEMMA RowsTellKept ==
  ASSUME StartsTyped, RowsTellStarts, [Next]_vars
  PROVE  RowsTellStarts'
<1>0. Hour \in Nat
  BY ClaimsAssumption DEF ClaimsAssumption
<1>1. ASSUME UNCHANGED <<job, starts, restarts, busy>>
      PROVE  RowsTellStarts'
  BY <1>1 DEF RowsTellStarts, Unseen
<1>2. ASSUME NEW w \in Workers, NEW j \in Jobs, StartDownload(w, j)
      PROVE  RowsTellStarts'
  <2> SUFFICES ASSUME restarts = 0
               PROVE  RowsTellStarts'
    BY <1>2 DEF StartDownload, RowsTellStarts
  <2>1. job[j].age = Unseen
    BY <1>2 DEF StartDownload, RowsTellStarts
  <2>2. ~busy => \A s \in starts : s.job # j
    BY <1>0, <2>1 DEF RowsTellStarts, StartsTyped, Unseen
  <2>3. job' = [job EXCEPT ![j] = [at |-> "running", age |-> 0]] /\ busy' = busy
        /\ starts' = starts \cup {[job |-> j, age |-> 0, process |-> restarts]}
    BY <1>2 DEF StartDownload
  <2> QED
    BY <2>2, <2>3 DEF RowsTellStarts, StartsTyped, Unseen
<1>3. ASSUME NEW j \in Jobs, End(j) \/ DropItem(j)
      PROVE  RowsTellStarts'
  BY <1>3 DEF End, DropItem, RowsTellStarts, StartsTyped, Unseen
<1>4. ASSUME NEW c \in Creators, DeleteCreator(c)
      PROVE  RowsTellStarts'
  BY <1>4 DEF DeleteCreator, RowsTellStarts, StartsTyped, Unseen
<1>5. ASSUME Restart
      PROVE  RowsTellStarts'
  <2>1. restarts' # 0
    BY <1>5 DEF Restart, StartsTyped
  <2> QED
    BY <2>1 DEF RowsTellStarts
<1>6. ASSUME Tick
      PROVE  RowsTellStarts'
  <2> SUFFICES ASSUME restarts = 0
               PROVE  RowsTellStarts'
    BY <1>6 DEF Tick, RowsTellStarts
  <2>1. \A j \in Jobs : job'[j].at = "queued" => job'[j].age = Unseen
    BY <1>0, <1>6, TickedRow DEF RowsTellStarts, Unseen
  <2>2. ASSUME ~busy, NEW s \in starts'
        PROVE  s.process = 0 /\ job'[s.job].age = s.age
    <3>1. PICK t \in starts : t.age < Hour /\ s = [t EXCEPT !.age = @ + 1]
      BY <1>6 DEF Tick
    <3>2. t.job \in Jobs /\ t.age \in Nat /\ t.process = 0 /\ job[t.job].age = t.age
      BY <2>2, <1>0 DEF StartsTyped, RowsTellStarts
    <3>3. s.job = t.job /\ s.age = t.age + 1 /\ s.process = 0
      BY <3>1, <3>2 DEF StartsTyped
    <3> QED
      BY <1>0, <1>6, <3>1, <3>2, <3>3, TickedRow
  <2> QED
    BY <1>6, <2>1, <2>2 DEF RowsTellStarts, Tick, Unseen
<1> QED
  BY <1>1, <1>2, <1>3, <1>4, <1>5, <1>6 DEF Next, vars, ClaimStep, Query, NoClaim, ProviderStatus,
     ReadStarts, LookForNextStart, StoreNextStart, SettingsChanged, SwitchCreator

\* A worker that was let through is alone in next and leaves room for its start;
\* rows only fade meanwhile.
LEMMA LimitKept ==
  ASSUME IInv, StartsTyped, RowsKeepLimit, [Next]_vars
  PROVE  RowsKeepLimit'
<1>0. Hour \in Nat /\ Limit \in Nat \ {0}
  BY ClaimsAssumption DEF ClaimsAssumption
<1>1. ASSUME UNCHANGED <<job, found>>
      PROVE  RowsKeepLimit'
  BY <1>1, RowsFade
<1>2. ASSUME NEW w \in Workers, Query(w)
      PROVE  RowsKeepLimit'
  <2>1. Recent' = Recent
    BY <1>2 DEF Query, Recent
  <2>2. \A v \in Workers : found'[v] \notin {None, {}} => UnderLimit
    BY <1>2 DEF Query, Unlocked, IInv
  <2> QED
    BY <2>1, <2>2 DEF RowsKeepLimit, UnderLimit
<1>3. ASSUME NEW w \in Workers, NEW j \in Jobs, StartDownload(w, j)
      PROVE  RowsKeepLimit'
  <2>1. /\ job' = [job EXCEPT ![j] = [at |-> "running", age |-> 0]]
        /\ found' = [found EXCEPT ![w] = None]
        /\ found[w] \notin {None, {}}
    BY <1>3 DEF StartDownload
  <2>2. Cardinality(Recent) < Limit
    BY <2>1 DEF RowsKeepLimit
  <2>3. Recent' = Recent \cup {j}
    BY <1>0, <2>1 DEF Recent, StartsTyped
  <2>4. Cardinality(Recent \cup {j}) \in {Cardinality(Recent), Cardinality(Recent) + 1}
    BY RecentFinite, FS_AddElement
  <2>5. \A v \in Workers : found'[v] = None
    BY <2>1 DEF IInv, OneInNext
  <2> QED
    BY <1>0, <2>2, <2>3, <2>4, <2>5, RecentFinite DEF RowsKeepLimit
<1>4. ASSUME NEW w \in Workers, NoClaim(w)
      PROVE  RowsKeepLimit'
  <2>1. job' = job /\ \A v \in Workers : found'[v] = found[v] \/ found'[v] = None
    BY <1>4 DEF NoClaim, IInv
  <2> QED
    BY <2>1, RowsFade
<1>5. ASSUME NEW j \in Jobs, End(j) \/ DropItem(j)
      PROVE  RowsKeepLimit'
  <2>1. found' = found /\ \A i \in Jobs : job'[i].age <= Hour => job[i].age <= Hour
    BY <1>0, <1>5 DEF End, DropItem, StartsTyped, Unseen
  <2> QED
    BY <2>1, RowsFade
<1>6. ASSUME NEW c \in Creators, DeleteCreator(c)
      PROVE  RowsKeepLimit'
  <2>1. found' = found /\ \A i \in Jobs : job'[i].age <= Hour => job[i].age <= Hour
    BY <1>0, <1>6 DEF DeleteCreator, StartsTyped, Unseen
  <2> QED
    BY <2>1, RowsFade
<1>7. ASSUME Restart
      PROVE  RowsKeepLimit'
  <2>1. /\ \A i \in Jobs : job'[i].age = job[i].age
        /\ \A v \in Workers : found'[v] = None
    BY <1>7 DEF Restart, StartsTyped
  <2> QED
    BY <2>1, RowsFade
<1>8. ASSUME Tick
      PROVE  RowsKeepLimit'
  <2>1. \A i \in Jobs : job'[i].age <= Hour => job[i].age <= Hour
    BY <1>0, <1>8, TickedRow DEF Unseen
  <2>2. found' = found
    BY <1>8 DEF Tick
  <2> QED
    BY <2>1, <2>2, RowsFade
<1> QED
  BY <1>1, <1>2, <1>3, <1>4, <1>5, <1>6, <1>7, <1>8 DEF Next, vars, ClaimStep, ProviderStatus,
     ReadStarts, LookForNextStart, StoreNextStart, SettingsChanged, SwitchCreator

\* A row stays as new as its start, also one that starts again after a restart.
LEMMA NewerKept ==
  ASSUME StartsTyped, RowsAreNewer, ~busy, [Next]_vars
  PROVE  RowsAreNewer'
<1>0. Hour \in Nat
  BY ClaimsAssumption DEF ClaimsAssumption
<1>1. ASSUME UNCHANGED <<job, starts>>
      PROVE  RowsAreNewer'
  BY <1>1 DEF RowsAreNewer
<1>2. ASSUME NEW w \in Workers, NEW j \in Jobs, StartDownload(w, j)
      PROVE  RowsAreNewer'
  BY <1>0, <1>2 DEF StartDownload, RowsAreNewer, StartsTyped
<1>3. ASSUME NEW j \in Jobs, End(j)
      PROVE  RowsAreNewer'
  BY <1>3 DEF End, RowsAreNewer, StartsTyped
<1>4. ASSUME Restart
      PROVE  RowsAreNewer'
  BY <1>4 DEF Restart, RowsAreNewer, StartsTyped
<1>5. ASSUME Tick
      PROVE  RowsAreNewer'
  <2> SUFFICES ASSUME NEW s \in starts'
               PROVE  job'[s.job].age <= s.age
    BY DEF RowsAreNewer
  <2>1. PICK t \in starts : t.age < Hour /\ s = [t EXCEPT !.age = @ + 1]
    BY <1>5 DEF Tick
  <2>2. t.job \in Jobs /\ t.age \in Nat /\ job[t.job].age \in Nat /\ job[t.job].age <= t.age
    BY <1>0 DEF StartsTyped, RowsAreNewer, Unseen
  <2>3. s.job = t.job /\ s.age = t.age + 1
    BY <2>1, <2>2 DEF StartsTyped
  <2> QED
    BY <1>0, <1>5, <2>1, <2>2, <2>3, TickedRow
<1> QED
  BY <1>1, <1>2, <1>3, <1>4, <1>5 DEF Next, vars, ClaimStep, Query, NoClaim, ProviderStatus,
     ReadStarts, LookForNextStart, StoreNextStart, SettingsChanged, SwitchCreator, DropItem, DeleteCreator

\* What the query lets through, or waits for, is apart from every start: it is
\* derived from the newest row, which is as new as the newest start.
LEMMA NextStartIsApart ==
  ASSUME StartsTyped, RowsAreNewer, GapKept, Spread, NEW next \in NextAllowedStart
  PROVE  /\ next \in Nat \cup {None}
         /\ next # None => \A s \in starts : Apart(s.age + next)
         /\ next = None => starts = {}
<1>0. Hour \in Nat /\ Limit \in Nat /\ None \notin Nat
  BY ClaimsAssumption DEF ClaimsAssumption
<1>1. \A s \in starts : /\ s.job \in Recent /\ s.age \in Nat
                        /\ job[s.job].age \in Nat /\ job[s.job].age <= s.age
  BY <1>0 DEF StartsTyped, RowsAreNewer, Recent, Unseen
<1>2. CASE wait # None
  BY <1>2 DEF NextAllowedStart, GapKept
<1>3. CASE wait = None /\ Recent = {}
  BY <1>0, <1>1, <1>3 DEF NextAllowedStart
<1>4. CASE wait = None /\ Recent # {}
  <2>1. PICK g \in Gaps : next = Max({0, g - Newest})
    BY <1>4 DEF NextAllowedStart
  <2> DEFINE ages == {job[j].age : j \in Recent}
  <2>2. ages \in SUBSET Nat /\ ages # {}
    BY <1>4 DEF Recent, StartsTyped
  <2>3. Newest \in Nat /\ \A s \in starts : Newest <= s.age
    <3>1. Newest \in ages /\ \A a \in ages : Newest <= a
      BY <2>2, MinOfAges DEF Newest
    <3>2. \A s \in starts : job[s.job].age \in ages
      BY <1>1
    <3> HIDE DEF ages
    <3> QED
      BY <1>1, <2>2, <3>1, <3>2
  <2>4. g \in Nat /\ Apart(g)
    BY GapsAreApart
  <2>5. next \in Nat /\ next >= g - Newest
    BY <2>1, <2>3, <2>4, MaxOfTwo
  <2>6. \A s \in starts : g <= s.age + next
    BY <1>1, <2>3, <2>4, <2>5
  <2>7. \A s \in starts : Apart(s.age + next)
    BY <1>1, <2>4, <2>5, <2>6, ApartGrows
  <2> QED
    BY <1>0, <2>5, <2>7
<1> QED
  BY <1>2, <1>3, <1>4

\* A step that makes no start, and changes neither the wait nor the queue page,
\* keeps the gap; so does one that forgets the wait or leaves next.
LEMMA GapLeft ==
  ASSUME GapKept, starts' = starts, wait' \in {wait, None}, page'.at = "closed",
         \A w \in Workers : found'[w] = found[w] \/ found'[w] = None
  PROVE  GapKept'
<1> QED
  BY DEF GapKept, Apart

LEMMA GapStep ==
  ASSUME IInv, StartsTyped, RowsAreNewer, GapKept, ~busy, Spread, [Next]_vars
  PROVE  GapKept'
<1>0. Hour \in Nat /\ Limit \in Nat /\ None \notin Nat
  BY ClaimsAssumption DEF ClaimsAssumption
<1>1. ASSUME UNCHANGED <<starts, wait, page, found>>
      PROVE  GapKept'
  BY <1>1, GapLeft DEF GapKept
<1>2. ASSUME NEW w \in Workers, Query(w)
      PROVE  GapKept'
  <2>1. PICK next \in NextAllowedStart :
          /\ wait' = IF UnderLimit THEN next ELSE wait
          /\ found' = [found EXCEPT ![w] = IF UnderLimit /\ next \in {None, 0} THEN Candidates ELSE {}]
    BY <1>2 DEF Query
  <2>2. /\ next \in Nat \cup {None}
        /\ next # None => \A s \in starts : Apart(s.age + next)
        /\ next = None => starts = {}
    BY NextStartIsApart
  <2>3. \A s \in starts : s.age + 0 = s.age
    BY <1>0 DEF StartsTyped
  <2>4. next \in {None, 0} => \A s \in starts : Apart(s.age)
    BY <1>0, <2>2, <2>3
  <2>5. \A v \in Workers : found'[v] \notin {None, {}} => next \in {None, 0}
    BY <1>2, <2>1 DEF Query, Unlocked, IInv
  <2>6. starts' = starts /\ page' = page
    BY <1>2 DEF Query
  <2> QED
    BY <2>1, <2>2, <2>4, <2>5, <2>6 DEF GapKept, Apart
<1>3. ASSUME NEW w \in Workers, NEW j \in Jobs, StartDownload(w, j)
      PROVE  GapKept'
  <2>1. /\ wait' \in Gaps
        /\ page' = page
        /\ starts' = starts \cup {[job |-> j, age |-> 0, process |-> restarts]}
    BY <1>3 DEF StartDownload
  <2>2. \A v \in Workers : found'[v] = None
    BY <1>3 DEF StartDownload, IInv, OneInNext
  <2>3. wait' \in Nat /\ Apart(wait')
    BY <2>1, GapsAreApart
  <2>4. \A s \in starts' : s.age \in Nat
    BY <1>0, <2>1 DEF StartsTyped
  <2>5. \A s \in starts' : wait' <= s.age + wait' /\ s.age + wait' \in Nat
    BY <2>3, <2>4
  <2>6. \A s \in starts' : Apart(s.age + wait')
    BY <2>3, <2>5, ApartGrows
  <2> QED
    BY <2>1, <2>2, <2>3, <2>6 DEF GapKept, Apart
<1>4. ASSUME NEW w \in Workers, NoClaim(w)
      PROVE  GapKept'
  BY <1>4, GapLeft DEF NoClaim, IInv, GapKept
<1>5. CASE SettingsChanged
  BY <1>5, GapLeft DEF SettingsChanged, GapKept
<1>6. CASE Restart
  BY <1>6, GapLeft DEF Restart, PageClosed
<1>7. CASE Tick
  <2>1. /\ starts' = {[s EXCEPT !.age = @ + 1] : s \in {t \in starts : t.age < Hour}}
        /\ wait' = IF wait = None THEN None ELSE Max({0, wait - 1})
        /\ found' = found /\ page'.at = "closed"
    BY <1>7 DEF Tick, GapKept
  <2>2. \A s \in starts' : \E t \in starts : t.age \in Nat /\ s.age = t.age + 1
    BY <1>0, <2>1 DEF StartsTyped
  <2>3. ASSUME wait # None
        PROVE  wait' \in Nat /\ wait' >= wait - 1
    BY SMTT(30), <2>1, <2>3, MaxOfTwo DEF GapKept
  <2>4. ASSUME wait # None, NEW s \in starts'
        PROVE  Apart(s.age + wait')
    <3>1. PICK t \in starts : t.age \in Nat /\ s.age = t.age + 1
      BY <2>2
    <3>2. wait \in Nat /\ Apart(t.age + wait)
      BY <2>4 DEF GapKept
    <3>3. s.age + wait' \in Nat /\ t.age + wait \in Nat /\ t.age + wait <= s.age + wait'
      BY <2>3, <2>4, <3>1, <3>2
    <3> QED
      BY <3>2, <3>3, ApartGrows
  <2>5. ASSUME NEW w \in Workers, found[w] \notin {None, {}}, NEW s \in starts'
        PROVE  Apart(s.age)
    <3>1. PICK t \in starts : t.age \in Nat /\ s.age = t.age + 1
      BY <2>2
    <3>2. Apart(t.age)
      BY <2>5 DEF GapKept
    <3> QED
      BY <3>1, <3>2, ApartGrows
  <2> QED
    BY <2>1, <2>3, <2>4, <2>5 DEF GapKept, Apart
<1> QED
  BY <1>1, <1>2, <1>3, <1>4, <1>5, <1>6, <1>7 DEF Next, vars, ClaimStep, ProviderStatus, ReadStarts,
     LookForNextStart, StoreNextStart, GapKept, SwitchCreator, End, DropItem, DeleteCreator

LEMMA BeginsWithin == Init => IInv /\ LimitInv /\ GapInv
<1> SUFFICES ASSUME Init PROVE IInv /\ LimitInv /\ GapInv
  OBVIOUS
<1>1. Hour \in Nat /\ Limit \in Nat \ {0} /\ Unseen \in 0..Unseen
  BY ClaimsAssumption DEF ClaimsAssumption, Unseen
<1>2. IInv
  BY BeginsWithRoom
<1>3. StartsTyped
  BY <1>1 DEF Init, StartsTyped
<1>4. Recent = {}
  BY <1>1 DEF Init, Recent, Unseen
<1>5. Cardinality(Recent) = 0
  BY <1>4, FS_EmptySet
<1>6. LimitInv
  BY <1>1, <1>3, <1>5 DEF LimitInv, RowsTellStarts, RowsKeepLimit, Init
<1>7. GapInv
  BY <1>3 DEF GapInv, RowsAreNewer, GapKept, Init, PageClosed
<1> QED
  BY <1>2, <1>6, <1>7

\* Until a restart there are never more starts in an hour than downloads_per_hour
\* (claims.py _allowed), though two workers ask, settings are saved and downloads
\* are removed between a query and its claim.  (Deleted rows aren't counted.)
THEOREM LimitAlwaysHolds == Spec => []LimitHoldsUntilRestart
<1>1. Init => IInv /\ LimitInv
  BY BeginsWithin
<1>2. IInv /\ LimitInv /\ [Next]_vars => (IInv /\ LimitInv)'
  BY StepKeeps, TypeKept, RowsTellKept, LimitKept DEF LimitInv
<1>3. LimitInv => LimitHoldsUntilRestart
  <2> SUFFICES ASSUME LimitInv, restarts = 0, ~busy
               PROVE  Cardinality(starts) <= Limit
    BY DEF LimitHoldsUntilRestart, LimitHolds
  <2>1. /\ IsFiniteSet(starts)
        /\ Cardinality(starts) <= Cardinality(Recent) /\ Cardinality(Recent) <= Limit
    BY StartsAreCounted DEF LimitInv, RowsKeepLimit
  <2>2. Cardinality(starts) \in Nat
    BY <2>1, FS_CardinalityType
  <2> QED
    BY <2>1, <2>2, RecentFinite, ClaimsAssumption DEF ClaimsAssumption
<1> QED
  BY <1>1, <1>2, <1>3, PTL DEF Spec

\* Two paced starts are half the even interval apart at least (claims.py
\* pacing_gap), also when a restart or a saved setting between them drops the
\* next start's time and it is derived again from the newest row.
THEOREM GapAlwaysHolds == Spec => GapHolds
<1> DEFINE NewStart == ~busy /\ Spread /\ (\E w \in Workers, j \in Jobs : StartDownload(w, j))
                         => \A s \in starts : 2 * Limit * s.age >= Hour
<1>1. Init => IInv /\ GapInv
  BY BeginsWithin
<1>2. IInv /\ GapInv /\ [Next]_vars => (IInv /\ GapInv)'
  <2> SUFFICES ASSUME IInv, GapInv, [Next]_vars
               PROVE  (IInv /\ GapInv)'
    OBVIOUS
  <2>1. busy' = busy
    BY DEF Next, vars, ClaimStep, Query, NoClaim, StartDownload, ProviderStatus, ReadStarts,
           LookForNextStart, StoreNextStart, SettingsChanged, SwitchCreator, End, DropItem,
           DeleteCreator, Restart, Tick
  <2> QED
    BY <2>1, StepKeeps, TypeKept, NewerKept, GapStep DEF GapInv
<1>3. GapInv => [NewStart]_vars
  BY DEF GapInv, GapKept, Apart, StartDownload
<1> QED
  BY <1>1, <1>2, <1>3, PTL DEF Spec, GapHolds

===============================================================================
