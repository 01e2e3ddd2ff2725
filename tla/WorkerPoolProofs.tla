--------------------------- MODULE WorkerPoolProofs ----------------------------
(***************************************************************************)
(* Two invariants of the pool for all jobs, pool sizes, calls and faults:  *)
(* who runs a job (HandsInv), and what may touch a pause (PauseInv).       *)
(***************************************************************************)
EXTENDS WorkerPool, FiniteSetTheorems, TLAPS

WorkerType == [at : Places, idx : Int, claim : Jobs \cup {None}]

\* A claim is held from ClaimJob to Record, by one worker, and a running job
\* has one that holds it.
HandsInv ==
  /\ concurrency \in Int
  /\ pool \in [Slots -> WorkerType]
  /\ DOMAIN job = Jobs
  /\ \A w \in Slots : pool[w].claim # None =>
       /\ pool[w].at \in {"claimed", "running", "recording"}
       /\ job[pool[w].claim] = "running"
  /\ \A w \in Slots : pool[w].at \in {"running", "recording"} => pool[w].claim # None
  /\ \A v, w \in Slots : pool[v].claim = pool[w].claim /\ pool[w].claim # None => v = w
  /\ \A j \in Jobs : job[j] = "running" =>
       j \in lost \/ \E w \in Slots : pool[w].claim = j

Checking == {"pausing", "resuming", "resumed"}

\* From the user's pause on, no worker is in a check of the disk that touches
\* it, and none gets there.
PauseInv ==
  /\ call # None => wish = "going"
  /\ ~raced /\ (call = "pause" \/ wish = "paused") =>
       /\ reason = "user"
       /\ \A w \in Slots : pool[w].at \notin Checking
  /\ ~raced /\ wish = "paused" => stored

-------------------------------------------------------------------------------
(* What becomes of the pool. *)

\* The slots below w that a resize may fill can be counted.
LEMMA SlotsCounted ==
  ASSUME NEW S \in SUBSET Slots
  PROVE  Cardinality(S) \in Nat
<1>1. IsFiniteSet(Slots)
  BY WorkerPoolAssumption, FS_Interval DEF Slots, WorkerPoolAssumption
<1> QED
  BY <1>1, FS_Subset, FS_CardinalityType

\* Workers 0..n-1 start at the top, without a claim.
LEMMA StartedPool ==
  ASSUME NEW n \in Int
  PROVE  /\ Started(n) \in [Slots -> WorkerType]
         /\ \A w \in Slots : Started(n)[w].at \in {"top", "none"} /\ Started(n)[w].claim = None
<1>1. \A w \in Slots : w - 1 \in Int
  BY WorkerPoolAssumption DEF Slots, WorkerPoolAssumption
<1>2. /\ NoWorker \in WorkerType
      /\ \A i \in Int : NewWorker(i) \in WorkerType
  BY DEF NoWorker, NewWorker, WorkerType, Places
<1>3. /\ NoWorker.at = "none" /\ NoWorker.claim = None
      /\ \A i \in Int : NewWorker(i).at = "top" /\ NewWorker(i).claim = None
  BY DEF NoWorker, NewWorker
<1>4. \A w \in Slots : Started(n)[w] = NoWorker \/ Started(n)[w] = NewWorker(w - 1)
  BY DEF Started
<1>5. Started(n) \in [Slots -> WorkerType]
  BY <1>1, <1>2 DEF Started
<1> QED
  BY <1>1, <1>3, <1>4, <1>5

\* Waking keeps claims, and moves only those asleep.
LEMMA WokenPool ==
  ASSUME NEW p \in [Slots -> WorkerType]
  PROVE  /\ Woken(p) \in [Slots -> WorkerType]
         /\ \A w \in Slots : /\ Woken(p)[w].claim = p[w].claim
                             /\ Woken(p)[w].at = p[w].at
                                  \/ (p[w].at = "asleep" /\ Woken(p)[w].at = "top")
<1>1. \A w \in Slots :
        /\ [p[w] EXCEPT !.at = "top"] \in WorkerType
        /\ [p[w] EXCEPT !.at = "top"].at = "top"
        /\ [p[w] EXCEPT !.at = "top"].claim = p[w].claim
  BY DEF WorkerType, Places
<1>2. Woken(p) \in [Slots -> WorkerType]
  BY <1>1 DEF Woken
<1>3. ASSUME NEW w \in Slots
      PROVE  /\ Woken(p)[w].claim = p[w].claim
             /\ Woken(p)[w].at = p[w].at
                  \/ (p[w].at = "asleep" /\ Woken(p)[w].at = "top")
  <2>1. CASE p[w].at = "asleep"
    <3>1. Woken(p)[w] = [p[w] EXCEPT !.at = "top"]
      BY <2>1 DEF Woken
    <3> QED
      BY <2>1, <3>1, <1>1
  <2>2. CASE p[w].at # "asleep"
    <3>1. Woken(p)[w] = p[w]
      BY <2>2 DEF Woken
    <3> QED
      BY <3>1
  <2> QED
    BY <2>1, <2>2
<1> QED
  BY <1>2, <1>3

\* A resize adds workers where there are none, at the top and without a claim.
LEMMA ResizedPool ==
  ASSUME pool \in [Slots -> WorkerType]
  PROVE  /\ Resized \in [Slots -> WorkerType]
         /\ \A w \in Slots : \/ Resized[w] = pool[w]
                             \/ pool[w].at = "none" /\ Resized[w].at = "top" /\ Resized[w].claim = None
<1>1. Cardinality(Alive) \in Nat
  <2>1. Alive \in SUBSET Slots
    BY DEF Alive
  <2> QED
    BY <2>1, SlotsCounted
<1>2. \A w \in Slots : Cardinality({v \in Slots \ Alive : v < w}) \in Nat
  <2> TAKE w \in Slots
  <2>1. {v \in Slots \ Alive : v < w} \in SUBSET Slots
    OBVIOUS
  <2> QED
    BY <2>1, SlotsCounted
<1>3. \A w \in Slots : Cardinality(Alive) + Cardinality({v \in Slots \ Alive : v < w}) \in Int
  BY <1>1, <1>2
<1> QED
  BY <1>3 DEF Resized, NewWorker, WorkerType, Places, Alive

-------------------------------------------------------------------------------
(* A running job has its worker. *)

\* Nobody's claim, and no job's running, changes.
LEMMA ClaimsStay ==
  ASSUME HandsInv, concurrency' \in Int, pool' \in [Slots -> WorkerType], DOMAIN job' = Jobs,
         \A w \in Slots :
           /\ pool'[w].claim = pool[w].claim
           /\ pool'[w].at = pool[w].at
                \/ (pool'[w].at \in {"running", "recording"} /\ pool[w].claim # None)
                \/ (pool'[w].at \notin {"running", "recording"} /\ pool[w].claim = None),
         \A j \in Jobs : job'[j] = "running" <=> job[j] = "running",
         lost' = lost
  PROVE  HandsInv'
  BY DEF HandsInv, WorkerType

\* A claimed job was queued, so nobody held it.
LEMMA ClaimKeeps ==
  ASSUME HandsInv, NEW w \in Slots, NEW j \in Jobs, ClaimJob(w, j)
  PROVE  HandsInv'
<1>1. /\ pool[w].at = "claiming"
      /\ job[j] = "queued"
      /\ job' = [job EXCEPT ![j] = "running"]
      /\ pool' = [pool EXCEPT ![w].at = "claimed", ![w].claim = j]
      /\ lost' = lost /\ concurrency' = concurrency
  BY DEF ClaimJob, At, settings
<1>2. j # None
  BY WorkerPoolAssumption DEF WorkerPoolAssumption
<1>3. pool' \in [Slots -> WorkerType]
  <2>1. pool \in [Slots -> WorkerType]
    BY DEF HandsInv
  <2> QED
    BY ZenonT(60), <1>1, <2>1 DEF WorkerType, Places
<1>4. /\ pool'[w].claim = j /\ pool'[w].at = "claimed"
      /\ \A v \in Slots \ {w} : pool'[v] = pool[v]
  BY <1>1 DEF HandsInv, WorkerType
<1>5. pool[w].claim = None /\ \A v \in Slots : pool[v].claim # j
  BY <1>1, <1>2 DEF HandsInv
<1> QED
  BY <1>1, <1>2, <1>3, <1>4, <1>5 DEF HandsInv, WorkerType

\* What a worker held it lets go: the job is done, or its outcome is lost.
LEMMA LetGoKeeps ==
  ASSUME HandsInv, NEW w \in Slots, Record(w) \/ RecordFails(w)
  PROVE  HandsInv'
<1> DEFINE j == pool[w].claim
<1>1. pool[w].at = "recording"
  BY DEF Record, RecordFails, At
<1>2. j \in Jobs /\ j # None
  BY <1>1 DEF HandsInv, WorkerType
<1>3. \/ /\ job' = [job EXCEPT ![j] = "done"] /\ lost' = lost
         /\ pool' = [Woken(pool) EXCEPT ![w].at = "top", ![w].claim = None]
      \/ /\ job' = job /\ lost' = lost \cup {j}
         /\ pool' = [Woken(pool) EXCEPT ![w].at = "asleep", ![w].claim = None]
  BY DEF Record, RecordFails
<1> DEFINE p == Woken(pool)
<1>4. /\ p \in [Slots -> WorkerType]
      /\ \A v \in Slots : /\ p[v].claim = pool[v].claim
                          /\ p[v].at = pool[v].at \/ (pool[v].at = "asleep" /\ p[v].at = "top")
  BY WokenPool DEF HandsInv
<1> HIDE DEF p
<1>5. /\ pool' \in [Slots -> WorkerType]
      /\ pool'[w].claim = None /\ pool'[w].at \in {"top", "asleep"}
      /\ \A v \in Slots \ {w} : pool'[v] = p[v]
  BY <1>3, <1>4 DEF p, WorkerType, Places
<1>6. \A v \in Slots \ {w} : pool[v].claim # j
  BY <1>2 DEF HandsInv
<1>7. \A v \in Slots : pool[v].claim \in Jobs \cup {None}
  BY DEF HandsInv, WorkerType
<1> HIDE DEF j
<1>8. \A v \in Slots : pool'[v].claim # None =>
        /\ pool'[v].at \in {"claimed", "running", "recording"}
        /\ job'[pool'[v].claim] = "running"
  BY <1>2, <1>3, <1>4, <1>5, <1>6, <1>7 DEF HandsInv
<1>9. \A v \in Slots : pool'[v].at \in {"running", "recording"} => pool'[v].claim # None
  BY <1>4, <1>5 DEF HandsInv
<1>10. \A u, v \in Slots : pool'[u].claim = pool'[v].claim /\ pool'[v].claim # None => u = v
  BY <1>4, <1>5 DEF HandsInv
<1>11. \A i \in Jobs : job'[i] = "running" => i \in lost' \/ \E v \in Slots : pool'[v].claim = i
  <2> SUFFICES ASSUME NEW i \in Jobs, job'[i] = "running"
               PROVE  i \in lost' \/ \E v \in Slots : pool'[v].claim = i
    OBVIOUS
  <2>1. job[i] = "running" /\ (i = j => i \in lost')
    BY <1>2, <1>3 DEF HandsInv
  <2>2. CASE i # j /\ i \notin lost
    <3>1. PICK v \in Slots : pool[v].claim = i
      BY <2>1, <2>2 DEF HandsInv
    <3>2. v # w
      BY <2>2, <3>1 DEF j
    <3> QED
      BY <3>1, <3>2, <1>4, <1>5
  <2> QED
    BY <2>1, <2>2, <1>3
<1>12. DOMAIN job' = Jobs /\ concurrency' \in Int
  BY <1>3 DEF HandsInv, Record, RecordFails, settings
<1> QED
  BY <1>5, <1>8, <1>9, <1>10, <1>11, <1>12 DEF HandsInv

\* A restart queues what was running, and nobody holds anything.
LEMMA RestartKeepsHands ==
  ASSUME HandsInv, Restart
  PROVE  HandsInv'
<1>1. /\ pool' = Started(concurrency)
      /\ job' = [j \in Jobs |-> IF job[j] = "running" THEN "queued" ELSE job[j]]
  BY DEF Restart
<1>2. \A j \in Jobs : job'[j] # "running"
  BY <1>1
<1>3. concurrency \in Int /\ concurrency' = concurrency
  BY DEF HandsInv, Restart
<1>4. /\ pool' \in [Slots -> WorkerType]
      /\ \A w \in Slots : pool'[w].at \in {"top", "none"} /\ pool'[w].claim = None
  BY <1>1, <1>3, StartedPool
<1>5. DOMAIN job' = Jobs
  BY <1>1
<1> QED
  BY <1>2, <1>3, <1>4, <1>5 DEF HandsInv

\* What a worker's step does to the pool, if no claim is taken or let go:
\* only a worker with a claim gets to running and recording, and the others
\* are woken at most.
Moves(w) ==
  /\ pool' \in [Slots -> WorkerType]
  /\ pool'[w].claim = pool[w].claim
  /\ \/ /\ pool[w].at \in {"running", "recording"} \/ pool[w].claim # None
        /\ pool'[w].at \in {"running", "recording"}
     \/ pool[w].claim = None /\ pool'[w].at \notin {"running", "recording"}
  /\ \A v \in Slots \ {w} :
       /\ pool'[v].claim = pool[v].claim
       /\ pool'[v].at = pool[v].at \/ (pool[v].at = "asleep" /\ pool'[v].at = "top")

\* A worker goes from one place to another.
LEMMA GoesMoves ==
  ASSUME HandsInv, NEW w \in Slots, NEW a \in Places, Goes(w, a),
         \/ pool[w].at \notin {"claimed", "running", "recording"} /\ a \notin {"running", "recording"}
         \/ pool[w].claim # None /\ a = "running"
         \/ pool[w].at = "running" /\ a = "recording"
  PROVE  Moves(w)
<1>1. pool \in [Slots -> WorkerType]
  BY DEF HandsInv
<1>2. /\ pool' \in [Slots -> WorkerType]
      /\ pool'[w].at = a /\ pool'[w].claim = pool[w].claim
      /\ \A v \in Slots \ {w} : pool'[v] = pool[v]
  BY <1>1 DEF Goes, WorkerType
<1>3. pool[w].at \notin {"claimed", "running", "recording"} => pool[w].claim = None
  BY DEF HandsInv
<1> QED
  BY <1>2, <1>3 DEF Moves

\* A worker without a claim falls asleep.
LEMMA SleepMoves ==
  ASSUME HandsInv, NEW w \in Slots, Sleeps(w), pool[w].claim = None
  PROVE  Moves(w)
<1>1. pool \in [Slots -> WorkerType]
  BY DEF HandsInv
<1>2. /\ pool' \in [Slots -> WorkerType]
      /\ pool'[w].at = "asleep" /\ pool'[w].claim = None
      /\ \A v \in Slots \ {w} : pool'[v] = pool[v]
  BY ZenonT(60), <1>1 DEF Sleeps, WorkerType, Places
<1> QED
  BY <1>2 DEF Moves

\* A surplus worker ends.
LEMMA LeaveMoves ==
  ASSUME HandsInv, NEW w \in Slots, Leave(w)
  PROVE  Moves(w)
<1>1. pool \in [Slots -> WorkerType] /\ pool[w].claim = None
  BY DEF HandsInv, Leave, At
<1>2. /\ pool' \in [Slots -> WorkerType]
      /\ pool'[w].at = "none" /\ pool'[w].claim = None
      /\ \A v \in Slots \ {w} : pool'[v] = pool[v]
  BY <1>1 DEF Leave, NoWorker, WorkerType, Places
<1> QED
  BY <1>1, <1>2 DEF Moves

\* The pause that a worker made is over, and the others are woken.
LEMMA ResumedMoves ==
  ASSUME HandsInv, NEW w \in Slots, AutoResumeStored(w)
  PROVE  Moves(w)
<1> DEFINE p == Woken(pool)
<1>1. /\ pool[w].at = "resumed"
      /\ pool' = [p EXCEPT ![w].at = "checked"]
  BY DEF AutoResumeStored, At
<1>2. pool \in [Slots -> WorkerType] /\ pool[w].claim = None
  BY <1>1 DEF HandsInv
<1>3. /\ p \in [Slots -> WorkerType]
      /\ \A v \in Slots : /\ p[v].claim = pool[v].claim
                          /\ p[v].at = pool[v].at \/ (pool[v].at = "asleep" /\ p[v].at = "top")
  BY <1>2, WokenPool
<1> HIDE DEF p
<1>4. /\ pool' \in [Slots -> WorkerType]
      /\ pool'[w].claim = p[w].claim /\ pool'[w].at = "checked"
      /\ \A v \in Slots \ {w} : pool'[v] = p[v]
  BY <1>1, <1>3 DEF WorkerType, Places
<1> QED
  BY <1>2, <1>3, <1>4 DEF Moves

\* The worker steps that take and let go no claim.
PlainStep(w) ==
  \/ Leave(w) \/ Look(w) \/ DontLook(w) \/ AutoPause(w) \/ AutoResume(w) \/ AutoResumeStored(w)
  \/ GoOn(w) \/ StayPaused(w) \/ ClaimNone(w) \/ ClaimFails(w)
  \/ Run(w) \/ Rest(w) \/ RunEnds(w) \/ TimeOut(w)

LEMMA PlainMoves ==
  ASSUME HandsInv, NEW w \in Slots, PlainStep(w)
  PROVE  Moves(w)
<1>1. CASE Look(w)
  <2>1. PICK a \in {"pausing", "resuming", "checked"} : Goes(w, a)
    BY <1>1 DEF Look
  <2>2. a \in Places /\ pool[w].at = "top"
    BY <1>1 DEF Places, Look, At
  <2> QED
    BY <2>1, <2>2, GoesMoves
<1>2. CASE DontLook(w) \/ AutoPause(w)
  <2>1. Goes(w, "checked") /\ "checked" \in Places /\ pool[w].at \in {"top", "pausing"}
    BY <1>2 DEF DontLook, AutoPause, At, Places
  <2> QED
    BY <2>1, GoesMoves
<1>3. CASE AutoResume(w)
  <2>1. Goes(w, "resumed") /\ "resumed" \in Places /\ pool[w].at = "resuming"
    BY <1>3 DEF AutoResume, At, Places
  <2> QED
    BY <2>1, GoesMoves
<1>4. CASE GoOn(w)
  <2>1. Goes(w, "claiming") /\ "claiming" \in Places /\ pool[w].at = "checked"
    BY <1>4 DEF GoOn, At, Places
  <2> QED
    BY <2>1, GoesMoves
<1>5. CASE ClaimNone(w)
  <2>1. Goes(w, "claimed") /\ "claimed" \in Places /\ pool[w].at = "claiming"
    BY <1>5 DEF ClaimNone, At, Places
  <2> QED
    BY <2>1, GoesMoves
<1>6. CASE Run(w)
  <2>1. Goes(w, "running") /\ "running" \in Places /\ pool[w].claim # None
    BY <1>6 DEF Run, Places
  <2> QED
    BY <2>1, GoesMoves
<1>7. CASE RunEnds(w)
  <2>1. Goes(w, "recording") /\ "recording" \in Places /\ pool[w].at = "running"
    BY <1>7 DEF RunEnds, At, Places
  <2> QED
    BY <2>1, GoesMoves
<1>8. CASE TimeOut(w)
  <2>1. Goes(w, "top") /\ "top" \in Places /\ pool[w].at = "asleep"
    BY <1>8 DEF TimeOut, At, Places
  <2> QED
    BY <2>1, GoesMoves
<1>9. CASE StayPaused(w) \/ Rest(w) \/ ClaimFails(w)
  <2>1. Sleeps(w) /\ (pool[w].at \in {"checked", "claiming"} \/ pool[w].claim = None)
    BY <1>9 DEF StayPaused, Rest, ClaimFails, At
  <2>2. pool[w].claim = None
    BY <2>1 DEF HandsInv
  <2> QED
    BY <2>1, <2>2, SleepMoves
<1> QED
  BY <1>1, <1>2, <1>3, <1>4, <1>5, <1>6, <1>7, <1>8, <1>9, LeaveMoves, ResumedMoves DEF PlainStep

\* Every step keeps HandsInv.
LEMMA HandsKept ==
  ASSUME HandsInv, [Next]_vars
  PROVE  HandsInv'
<1>1. ASSUME UNCHANGED <<concurrency, pool, job, lost>>
      PROVE  HandsInv'
  BY <1>1 DEF HandsInv
<1>2. ASSUME concurrency' \in Int, pool' \in [Slots -> WorkerType], UNCHANGED <<job, lost>>,
             \A w \in Slots : /\ pool'[w].claim = pool[w].claim
                              /\ \/ pool'[w].at = pool[w].at
                                 \/ pool[w].at \in {"asleep", "none"} /\ pool'[w].at = "top"
      PROVE  HandsInv'
  <2>1. \A w \in Slots : pool[w].at \in {"asleep", "none"} => pool[w].claim = None
    BY DEF HandsInv
  <2>2. DOMAIN job' = Jobs /\ \A j \in Jobs : job'[j] = "running" <=> job[j] = "running"
    BY <1>2 DEF HandsInv
  <2> QED
    BY <1>2, <2>1, <2>2, ClaimsStay
<1>3. concurrency \in Int /\ pool \in [Slots -> WorkerType]
  BY DEF HandsInv
<1>4. ASSUME NEW j \in Jobs, Enqueue(j)
      PROVE  HandsInv'
  <2>1. /\ job[j] = "new" /\ job' = [job EXCEPT ![j] = "queued"]
        /\ UNCHANGED <<concurrency, pool, lost>>
    BY <1>4 DEF Enqueue, settings
  <2>2. DOMAIN job' = Jobs /\ \A i \in Jobs : job'[i] = "running" <=> job[i] = "running"
    BY <2>1 DEF HandsInv
  <2>3. \A w \in Slots : pool'[w].claim = pool[w].claim /\ pool'[w].at = pool[w].at
    BY <2>1
  <2> QED
    BY <1>3, <2>1, <2>2, <2>3, ClaimsStay
<1>5. CASE Deliver
  <2>1. pool' = Woken(pool) /\ UNCHANGED <<concurrency, job, lost>>
    BY <1>5 DEF Deliver, settings
  <2> QED
    BY <1>2, <1>3, <2>1, WokenPool
<1>6. ASSUME NEW n \in 1 .. MaxConcurrency, Save(n)
      PROVE  HandsInv'
  <2>1. n \in Int /\ concurrency' = n /\ UNCHANGED <<pool, job, lost>>
    BY <1>6, WorkerPoolAssumption DEF Save, WorkerPoolAssumption
  <2> QED
    BY <2>1 DEF HandsInv
<1>7. CASE Apply
  <2>1. pool' = Woken(Resized) /\ UNCHANGED <<concurrency, job, lost>>
    BY <1>7 DEF Apply
  <2>2. /\ Resized \in [Slots -> WorkerType]
        /\ \A w \in Slots : \/ Resized[w] = pool[w]
                            \/ pool[w].at = "none" /\ Resized[w].at = "top" /\ Resized[w].claim = None
    BY <1>3, ResizedPool
  <2>3. \A w \in Slots : pool[w].at = "none" => pool[w].claim = None
    BY DEF HandsInv
  <2>4. /\ pool' \in [Slots -> WorkerType]
        /\ \A w \in Slots : /\ pool'[w].claim = Resized[w].claim
                            /\ pool'[w].at = Resized[w].at
                                 \/ (Resized[w].at = "asleep" /\ pool'[w].at = "top")
    BY <2>1, <2>2, WokenPool
  <2> QED
    BY <1>2, <1>3, <2>1, <2>2, <2>3, <2>4
<1>8. CASE Pause \/ PauseStored \/ Resume \/ ResumeStored \/ DiskChanges \/ UNCHANGED vars
  BY <1>1, <1>8 DEF Pause, PauseStored, Resume, ResumeStored, DiskChanges, vars, settings
<1>9. ASSUME NEW w \in Slots, PlainStep(w)
      PROVE  HandsInv'
  <2>1. UNCHANGED <<concurrency, job, lost>>
    BY <1>9 DEF PlainStep, Leave, Look, DontLook, AutoPause, AutoResume, AutoResumeStored, GoOn,
                StayPaused, ClaimNone, ClaimFails, Run, Rest, RunEnds, TimeOut, settings
  <2>2. Moves(w)
    BY <1>9, PlainMoves
  <2>3. \A v \in Slots :
          /\ pool'[v].claim = pool[v].claim
          /\ \/ pool'[v].at = pool[v].at
             \/ pool'[v].at \in {"running", "recording"} /\ pool[v].claim # None
             \/ pool'[v].at \notin {"running", "recording"} /\ pool[v].claim = None
    <3>1. \A v \in Slots : /\ pool[v].at = "asleep" => pool[v].claim = None
                           /\ pool[v].at \in {"running", "recording"} => pool[v].claim # None
      BY DEF HandsInv
    <3>2. ASSUME NEW v \in Slots \ {w}
          PROVE  /\ pool'[v].claim = pool[v].claim
                 /\ pool'[v].at = pool[v].at \/ (pool[v].at = "asleep" /\ pool'[v].at = "top")
      BY <2>2 DEF Moves
    <3>3. /\ pool'[w].claim = pool[w].claim
          /\ \/ pool'[w].at \in {"running", "recording"} /\ pool[w].claim # None
             \/ pool'[w].at \notin {"running", "recording"} /\ pool[w].claim = None
      BY <2>2, <3>1 DEF Moves
    <3> TAKE v \in Slots
    <3>4. CASE v = w
      BY <3>3, <3>4
    <3>5. CASE v # w
      BY <3>1, <3>2, <3>5
    <3> QED
      BY <3>4, <3>5
  <2>4. DOMAIN job' = Jobs /\ \A j \in Jobs : job'[j] = "running" <=> job[j] = "running"
    BY <2>1 DEF HandsInv
  <2>5. pool' \in [Slots -> WorkerType] /\ concurrency' \in Int
    BY <1>3, <2>1, <2>2 DEF Moves
  <2> QED
    BY <2>1, <2>3, <2>4, <2>5, ClaimsStay
<1>10. ASSUME NEW w \in Slots, WorkerStep(w) \/ ClaimFails(w) \/ RecordFails(w)
       PROVE  HandsInv'
  <2>1. PlainStep(w) \/ (\E j \in Jobs : ClaimJob(w, j)) \/ Record(w) \/ RecordFails(w)
    BY <1>10 DEF WorkerStep, PlainStep
  <2> QED
    BY <1>9, <2>1, ClaimKeeps, LetGoKeeps
<1> QED
  BY <1>4, <1>5, <1>6, <1>7, <1>8, <1>10, RestartKeepsHands DEF Next

\* At the start there are as many workers as configured, and no claims.
LEMMA HandsAtFirst == Init => HandsInv
<1> SUFFICES ASSUME Init PROVE HandsInv
  OBVIOUS
<1>1. concurrency \in Int
  BY WorkerPoolAssumption DEF Init, WorkerPoolAssumption
<1>2. /\ pool \in [Slots -> WorkerType]
      /\ \A w \in Slots : pool[w].at \in {"top", "none"} /\ pool[w].claim = None
  BY <1>1, StartedPool DEF Init
<1>3. DOMAIN job = Jobs /\ \A j \in Jobs : job[j] # "running"
  BY DEF Init
<1> QED
  BY <1>1, <1>2, <1>3 DEF HandsInv

\* A job whose row says running is in the hands of exactly one worker, unless
\* its outcome couldn't be recorded (manager.py:181-220): no resize, wake-up,
\* pause, failed claim or restart takes a job from its worker or gives it two.
THEOREM RunningAlwaysHasWorker == Spec => []RunningHasWorker
<1>1. HandsInv /\ [Next]_vars => HandsInv'
  BY HandsKept
<1>2. HandsInv => RunningHasWorker
  <2> SUFFICES ASSUME HandsInv, NEW j \in Jobs, job[j] = "running", j \notin lost
               PROVE  Cardinality({w \in Alive : pool[w].claim = j}) = 1
    BY DEF RunningHasWorker
  <2>1. PICK w \in Slots : pool[w].claim = j
    BY DEF HandsInv
  <2>2. j # None
    BY WorkerPoolAssumption DEF WorkerPoolAssumption
  <2>3. w \in Alive
    BY <2>1, <2>2 DEF HandsInv, Alive
  <2>4. \A v \in Slots : pool[v].claim = j => v = w
    BY <2>1, <2>2 DEF HandsInv
  <2>5. {v \in Alive : pool[v].claim = j} = {w}
    BY <2>1, <2>3, <2>4 DEF Alive
  <2> QED
    BY <2>5, FS_Singleton
<1> QED
  BY <1>1, <1>2, HandsAtFirst, PTL DEF Spec

-------------------------------------------------------------------------------
(* The user's pause. *)

\* A step that leaves the pause alone and sends nobody to a check.
LEMMA PauseStays ==
  ASSUME PauseInv, UNCHANGED <<reason, stored, call, wish, raced>>,
         \A w \in Slots : pool'[w].at \in Checking => pool[w].at \in Checking
  PROVE  PauseInv'
  BY DEF PauseInv

\* A worker's steps: while the user's pause stands, a look at the disk leads to
\* no check, and none of the checks' steps is there to be taken.
LEMMA WorkerKeepsPause ==
  ASSUME HandsInv, PauseInv, NEW w \in Slots, PlainStep(w)
  PROVE  PauseInv'
<1>1. /\ pool \in [Slots -> WorkerType]
      /\ \A v \in Slots \ {w} : pool'[v].at \in Checking => pool[v].at \in Checking
  BY PlainMoves DEF HandsInv, Moves, Checking
<1>2. ASSUME UNCHANGED <<reason, stored, call, wish, raced>>, pool'[w].at \notin Checking
      PROVE  PauseInv'
  BY <1>1, <1>2, PauseStays
<1>3. CASE Look(w)
  <2>1. UNCHANGED <<reason, stored, call, wish, raced>>
    BY <1>3 DEF Look, pausing
  <2>2. reason = "user" => pool'[w].at = "checked"
    <3>1. ASSUME reason = "user"
          PROVE  Goes(w, "checked")
      <4>1. ~AutoPauses /\ ~AutoResumes
        BY <3>1, WorkerPoolAssumption DEF AutoPauses, AutoResumes, WorkerPoolAssumption
      <4> QED
        BY <1>3, <4>1 DEF Look
    <3>2. pool \in [Slots -> WorkerType]
      BY <1>1
    <3> QED
      BY <3>1, <3>2 DEF Goes, WorkerType
  <2>3. reason = "user" => \A v \in Slots : pool'[v].at \in Checking => pool[v].at \in Checking
    BY <1>1, <2>2 DEF Checking
  <2> QED
    BY <2>1, <2>3 DEF PauseInv
<1>4. CASE AutoPause(w) \/ AutoResume(w) \/ AutoResumeStored(w)
  <2>1. UNCHANGED <<call, wish, raced>> /\ pool[w].at \in Checking
    BY <1>4 DEF AutoPause, AutoResume, AutoResumeStored, At, Checking
  <2> QED
    BY <2>1 DEF PauseInv
<1>5. CASE DontLook(w) \/ GoOn(w) \/ ClaimNone(w) \/ Run(w) \/ RunEnds(w) \/ TimeOut(w)
  <2>1. /\ UNCHANGED <<reason, stored, call, wish, raced>>
        /\ \E a \in Places \ Checking : Goes(w, a)
    BY <1>5 DEF DontLook, GoOn, ClaimNone, Run, RunEnds, TimeOut, pausing, Places, Checking
  <2>2. pool'[w].at \notin Checking
    BY <1>1, <2>1 DEF Goes, WorkerType
  <2> QED
    BY <1>2, <2>1, <2>2
<1>6. CASE StayPaused(w) \/ Rest(w) \/ ClaimFails(w)
  <2>1. UNCHANGED <<reason, stored, call, wish, raced>> /\ Sleeps(w)
    BY <1>6 DEF StayPaused, Rest, ClaimFails, pausing
  <2>2. pool'[w].at \notin Checking
    BY <1>1, <2>1 DEF Sleeps, WorkerType, Checking
  <2> QED
    BY <1>2, <2>1, <2>2
<1>7. CASE Leave(w)
  <2>1. UNCHANGED <<reason, stored, call, wish, raced>> /\ pool' = [pool EXCEPT ![w] = NoWorker]
    BY <1>7 DEF Leave, pausing
  <2>2. pool'[w].at \notin Checking
    BY <1>1, <2>1 DEF NoWorker, Checking
  <2> QED
    BY <1>2, <2>1, <2>2
<1> QED
  BY <1>3, <1>4, <1>5, <1>6, <1>7 DEF PlainStep

\* Every step keeps PauseInv.
LEMMA PauseKept ==
  ASSUME HandsInv, PauseInv, [Next]_vars
  PROVE  PauseInv'
<1>1. concurrency \in Int /\ pool \in [Slots -> WorkerType]
  BY DEF HandsInv
<1>2. CASE (\E j \in Jobs : Enqueue(j)) \/ (\E n \in 1 .. MaxConcurrency : Save(n))
           \/ DiskChanges \/ UNCHANGED vars
  BY <1>2, PauseStays DEF Enqueue, Save, DiskChanges, vars, pausing
<1>3. CASE Deliver
  <2>1. pool' = Woken(pool) /\ UNCHANGED <<reason, stored, call, wish, raced>>
    BY <1>3 DEF Deliver, pausing
  <2>2. \A w \in Slots : pool'[w].at \in Checking => pool[w].at \in Checking
    BY <1>1, <2>1, WokenPool DEF Checking
  <2> QED
    BY <2>1, <2>2, PauseStays
<1>4. CASE Apply
  <2>1. pool' = Woken(Resized) /\ UNCHANGED <<reason, stored, call, wish, raced>>
    BY <1>4 DEF Apply, pausing
  <2>2. /\ Resized \in [Slots -> WorkerType]
        /\ \A w \in Slots : Resized[w] = pool[w] \/ Resized[w].at = "top"
    BY <1>1, ResizedPool
  <2>3. \A w \in Slots : \/ pool'[w].at = Resized[w].at
                         \/ pool'[w].at = "top"
    BY <2>1, <2>2, WokenPool
  <2>4. \A w \in Slots : pool'[w].at \in Checking => pool[w].at \in Checking
    BY <2>2, <2>3 DEF Checking
  <2> QED
    BY <2>1, <2>4, PauseStays
<1>5. CASE Pause
  BY <1>5 DEF Pause, PauseInv, Checking
<1>6. CASE PauseStored
  BY <1>6, WorkerPoolAssumption DEF PauseStored, PauseInv, WorkerPoolAssumption
<1>7. CASE Resume
  BY <1>7, WorkerPoolAssumption DEF Resume, PauseInv, WorkerPoolAssumption
<1>10. CASE ResumeStored
  BY <1>10, WorkerPoolAssumption DEF ResumeStored, PauseInv, WorkerPoolAssumption
<1>8. ASSUME NEW w \in Slots, WorkerStep(w) \/ ClaimFails(w) \/ RecordFails(w)
      PROVE  PauseInv'
  <2>1. ASSUME NEW j \in Jobs, ClaimJob(w, j)
        PROVE  PauseInv'
    <3>1. UNCHANGED <<reason, stored, call, wish, raced>>
      BY <2>1 DEF ClaimJob, pausing
    <3>2. pool' = [pool EXCEPT ![w].at = "claimed", ![w].claim = j]
      BY <2>1 DEF ClaimJob
    <3>3. pool'[w].at = "claimed" /\ \A v \in Slots \ {w} : pool'[v] = pool[v]
      BY <1>1, <3>2 DEF WorkerType
    <3> QED
      BY <3>1, <3>3, PauseStays DEF Checking
  <2>2. CASE Record(w) \/ RecordFails(w)
    <3>1. UNCHANGED <<reason, stored, call, wish, raced>>
      BY <2>2 DEF Record, RecordFails, pausing
    <3> DEFINE p == Woken(pool)
    <3>2. \E a \in {"top", "asleep"} : pool' = [p EXCEPT ![w].at = a, ![w].claim = None]
      BY <2>2 DEF Record, RecordFails
    <3>3. /\ p \in [Slots -> WorkerType]
          /\ \A v \in Slots : p[v].at = pool[v].at \/ p[v].at = "top"
      BY <1>1, WokenPool
    <3> HIDE DEF p
    <3>4. pool'[w].at \notin Checking /\ \A v \in Slots \ {w} : pool'[v] = p[v]
      BY <3>2, <3>3 DEF WorkerType, Checking
    <3> QED
      BY <3>1, <3>3, <3>4, PauseStays DEF Checking
  <2>3. PlainStep(w) \/ (\E j \in Jobs : ClaimJob(w, j)) \/ Record(w) \/ RecordFails(w)
    BY <1>8 DEF WorkerStep, PlainStep
  <2> QED
    BY <2>1, <2>2, <2>3, WorkerKeepsPause
<1>9. CASE Restart
  <2>1. \A w \in Slots : pool'[w].at \notin Checking
    BY <1>1, <1>9, StartedPool DEF Restart, Checking
  <2> QED
    BY <1>9, <2>1, WorkerPoolAssumption DEF Restart, PauseInv, WorkerPoolAssumption
<1> QED
  BY <1>2, <1>3, <1>4, <1>5, <1>6, <1>7, <1>8, <1>9, <1>10 DEF Next

\* A pause that the user has been answered stays the user's and stays stored
\* (manager.py:125-138, 163-179), whatever the disk does, however the pool is
\* resized and through restarts, if no worker was between its look at the disk
\* and what it does about it when the user paused.
THEOREM PauseAlwaysHolds == Spec => []PauseHolds
<1>1. Init => PauseInv
  BY WorkerPoolAssumption DEF Init, PauseInv, WorkerPoolAssumption
<1>2. HandsInv /\ PauseInv /\ [Next]_vars => HandsInv' /\ PauseInv'
  BY HandsKept, PauseKept
<1>3. PauseInv => PauseHolds
  BY DEF PauseInv, PauseHolds
<1> QED
  BY <1>1, <1>2, <1>3, HandsAtFirst, PTL DEF Spec
===============================================================================
