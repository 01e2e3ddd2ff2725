------------------------- MODULE ProviderSessionProofs -------------------------
(***************************************************************************)
(* The session of a provider, for all credentials, tasks and bounds.       *)
(*                                                                         *)
(* A client is closed by the task that replaced it, so it isn't the one    *)
(* there is (ReplacedInv); and Patreon's is of the stored credentials      *)
(* unless some task is yet to rebuild it (CurrentInv), however many tasks  *)
(* rebuild it at once and in whatever order they close what they replaced. *)
(***************************************************************************)
EXTENDS ProviderSession, TLAPS

Records == [kind : Kinds,
            at : {"idle", "rebuild", "closing", "check", "rules", "asking"},
            client : Maybe(Numbers), creds : Maybe(Credentials), attempt : 1 .. MaxAttempts]

\* The clients are numbered as they are built.
ClientsTyped ==
  /\ built \in 0 .. MaxClients
  /\ client \in Maybe(1 .. built)
  /\ made \in [Numbers -> Maybe(Credentials)]
  /\ closed \subseteq 1 .. built

Typed ==
  /\ provider \in {"patreon", "onlyfans"}
  /\ {stored, cookieFile, about} \subseteq Maybe(Credentials)
  /\ ClientsTyped
  /\ {locked, unwritten} \subseteq BOOLEAN
  /\ status \in States
  /\ task \in [Tasks -> Records]
  /\ working \subseteq Credentials
  /\ saves \in 0 .. MaxSaves
  /\ faults \in 0 .. MaxFaults

\* What a task that closes, or asks with, a client has of it.
ReplacedInv ==
  /\ client \notin closed
  /\ \A t \in Tasks :
       /\ task[t].at = "closing" => task[t].client \in Maybe((1 .. built) \ {client})
       /\ task[t].at = "asking" => task[t].client \in 1 .. built

Waiting == \E t \in Tasks : task[t].at = "rebuild"

\* Patreon has a client from the start on.
CurrentInv ==
  provider = "patreon" =>
    /\ client \in 1 .. built
    /\ \A t \in Tasks : task[t].at # "rules"
    /\ ~Waiting => made[client] = stored
    /\ ~Rebuilding /\ ~unwritten => cookieFile = stored

IInv == Typed /\ ReplacedInv /\ CurrentInv

-----------------------------------------------------------------------------
LEMMA Bounds ==
  /\ MaxClients \in Nat /\ MaxClients >= 1 /\ MaxAttempts \in Nat /\ MaxAttempts >= 1
  /\ MaxSaves \in Nat /\ MaxFaults \in Nat
  /\ None \notin Credentials /\ None \notin Numbers
BY ProviderSessionAssumption DEF ProviderSessionAssumption

LEMMA NoTaskIsTyped ==
  /\ NoTask \in Records
  /\ NoTask.kind = "use" /\ NoTask.at = "idle" /\ NoTask.client = None
  /\ \A k \in Kinds, a \in {"idle", "rebuild", "closing", "check", "rules", "asking"} :
       /\ [[NoTask EXCEPT !.kind = k] EXCEPT !.at = a] \in Records
       /\ [[NoTask EXCEPT !.kind = k] EXCEPT !.at = a].at = a
       /\ [[NoTask EXCEPT !.kind = k] EXCEPT !.at = a].client = None
<1>1. 1 \in 1 .. MaxAttempts
  BY Bounds
<1>2. NoTask \in Records /\ NoTask.kind = "use" /\ NoTask.at = "idle" /\ NoTask.client = None
  BY <1>1 DEF NoTask, Records, Kinds, Maybe
<1> QED
  BY <1>2 DEF Records

LEMMA StartsUsable ==
  Init => IInv
<1> SUFFICES ASSUME Init PROVE IInv
  OBVIOUS
<1>1. task \in [Tasks -> Records] /\ \A t \in Tasks : task[t].at = "idle"
  BY NoTaskIsTyped DEF Init
<1>2. /\ provider = "patreon" => built = 1 /\ client = 1
      /\ provider # "patreon" => built = 0 /\ client = None
      /\ closed = {} /\ provider \in {"patreon", "onlyfans"}
  BY DEF Init
<1>3. 1 \in Numbers /\ 0 \in 0 .. MaxSaves /\ 0 \in 0 .. MaxFaults /\ 0 \in 0 .. MaxClients
  BY Bounds DEF Numbers
<1>4. made \in [Numbers -> Maybe(Credentials)] /\ (provider = "patreon" => made[1] = stored)
  BY <1>3 DEF Init, Maybe
<1>5. ClientsTyped
  BY <1>2, <1>3, <1>4 DEF ClientsTyped, Maybe, Numbers
<1>6. Typed
  BY <1>1, <1>3, <1>5 DEF Init, Typed, Maybe, States
<1>7. ReplacedInv
  BY <1>1, <1>2 DEF ReplacedInv
<1>8. CurrentInv
  <2>1. ~Waiting
    BY <1>1 DEF Waiting
  <2>2. provider = "patreon" => client \in 1 .. built /\ made[client] = stored /\ cookieFile = stored
    BY <1>2, <1>4 DEF Init
  <2> QED
    BY <1>1, <2>1, <2>2 DEF CurrentInv
<1> QED
  BY <1>6, <1>7, <1>8 DEF IInv

\* A step of a task that has nothing to do with a rebuild leaves the clients alone.
LEMMA TaskMoves ==
  ASSUME IInv, NEW t \in Tasks, NEW r \in Records, task' = [task EXCEPT ![t] = r],
         r.at \in {"idle", "check", "rules", "asking"},
         r.at = "asking" => r.client \in 1 .. built,
         r.at = "rules" => provider # "patreon",
         task[t].at \notin {"rebuild", "closing"},
         UNCHANGED <<settings, clients, locked, file, outside>>,
         status' \in States, about' \in Maybe(Credentials)
  PROVE  IInv'
<1> USE DEF IInv
<1>1. /\ task' \in [Tasks -> Records]
      /\ task'[t] = r
      /\ \A u \in Tasks \ {t} : task'[u] = task[u]
  BY DEF Typed
<1>2. UNCHANGED <<provider, stored, saves, built, client, made, closed, cookieFile, unwritten, working, faults, locked>>
  BY DEF settings, clients, file, outside
<1>3. Typed'
  BY <1>1, <1>2 DEF Typed, ClientsTyped
<1>4. ReplacedInv'
  BY <1>1, <1>2 DEF ReplacedInv
<1>5. (Waiting' <=> Waiting) /\ (Rebuilding' <=> Rebuilding)
  BY <1>1 DEF Waiting, Rebuilding
<1>6. CurrentInv'
  BY <1>1, <1>2, <1>5 DEF CurrentInv
<1> QED
  BY <1>3, <1>4, <1>6

LEMMA FlipKeeps ==
  ASSUME IInv, NEW c \in Credentials, Flip(c)
  PROVE  IInv'
<1> USE DEF IInv
<1>1. faults' \in 0 .. MaxFaults
  BY Bounds DEF Flip, Fault, Typed
<1>2. working' \subseteq Credentials
  BY DEF Flip, Typed
<1>3. UNCHANGED <<settings, clients, locked, file, status, task, about>>
  BY DEF Flip
<1>4. Typed'
  BY <1>1, <1>2, <1>3 DEF settings, clients, file, Typed, ClientsTyped
<1>5. ReplacedInv' /\ CurrentInv'
  BY <1>3 DEF settings, clients, file, ReplacedInv, CurrentInv, Waiting, Rebuilding
<1> QED
  BY <1>4, <1>5

\* Until its rebuild a saved change is waited for.
LEMMA SaveKeeps ==
  ASSUME IInv, NEW t \in Tasks, NEW k \in {"auth", "other"}, NEW c \in Maybe(Credentials), Save(t, k, c)
  PROVE  IInv'
<1> DEFINE r == [[NoTask EXCEPT !.kind = k] EXCEPT !.at = "rebuild"]
<1> USE DEF IInv
<1>1. task' = [task EXCEPT ![t] = r]
  BY DEF Save, Becomes
<1>2. r \in Records /\ r.at = "rebuild"
  BY ZenonT(60), NoTaskIsTyped DEF Kinds
<1> HIDE DEF r
<1>3. /\ task' \in [Tasks -> Records]
      /\ task'[t].at = "rebuild"
      /\ \A u \in Tasks \ {t} : task'[u] = task[u]
  BY <1>1, <1>2 DEF Typed
<1>4. saves' \in 0 .. MaxSaves /\ stored' = c
  BY Bounds DEF Save, Typed
<1>5. UNCHANGED <<provider, built, client, made, closed, locked, cookieFile, unwritten, status, working, faults, about>>
  BY DEF Save, clients, file, outside
<1>6. Typed'
  BY <1>3, <1>4, <1>5 DEF Typed, ClientsTyped
<1>7. ReplacedInv'
  BY <1>3, <1>5 DEF ReplacedInv
<1>8. Waiting' /\ Rebuilding'
  BY <1>3 DEF Waiting, Rebuilding
<1>9. CurrentInv'
  BY <1>3, <1>5, <1>8 DEF CurrentInv
<1> QED
  BY <1>6, <1>7, <1>9

LEMMA NewClientIsTyped ==
  ASSUME ClientsTyped, NEW c \in Maybe(Credentials), NewClient(c), closed' = closed
  PROVE  /\ ClientsTyped'
         /\ client' = built' /\ client' \notin 1 .. built /\ client' \in 1 .. built'
         /\ 1 .. built \subseteq 1 .. built' /\ built' \in Numbers
         /\ made'[client'] = c
<1>1. built \in 0 .. MaxClients /\ built < MaxClients /\ built' = built + 1 /\ client' = built'
  BY DEF ClientsTyped, NewClient
<1>2. built \in Nat /\ built' \in 0 .. MaxClients /\ built' \in Numbers
  BY <1>1, Bounds DEF Numbers
<1>3. made' \in [Numbers -> Maybe(Credentials)] /\ made'[built'] = c
  BY <1>2 DEF ClientsTyped, NewClient
<1>4. client' \notin 1 .. built /\ client' \in 1 .. built' /\ 1 .. built \subseteq 1 .. built'
  BY <1>1, <1>2
<1>5. closed' \subseteq 1 .. built' /\ client' \in Maybe(1 .. built')
  BY <1>4 DEF ClientsTyped, Maybe
<1> QED
  BY <1>1, <1>2, <1>3, <1>4, <1>5 DEF ClientsTyped

\* What is replaced isn't the client any more, and what replaces it is of what is
\* stored now.
LEMMA SwapKeeps ==
  ASSUME IInv, NEW t \in Tasks, Swap(t)
  PROVE  IInv'
<1> DEFINE r == [[task[t] EXCEPT !.at = "closing"] EXCEPT !.client = client]
<1> USE DEF IInv
<1>1. task[t] \in Records /\ task' = [task EXCEPT ![t] = r]
  BY DEF Swap, Becomes, Typed
<1>2. client \in Maybe(1 .. built) /\ 1 .. built \subseteq Numbers
  BY Bounds DEF Typed, ClientsTyped, Numbers
<1>3. r \in Records /\ r.at = "closing" /\ r.client = client
  BY <1>1, <1>2 DEF Records, Maybe
<1> HIDE DEF r
<1>4. /\ task' \in [Tasks -> Records]
      /\ task'[t].at = "closing" /\ task'[t].client = client
      /\ \A u \in Tasks \ {t} : task'[u] = task[u]
  BY <1>1, <1>3 DEF Typed
<1>5. /\ UNCHANGED <<provider, stored, saves, closed, cookieFile, unwritten, status, working, faults, about>>
      /\ locked' = TRUE
  BY DEF Swap, settings, file, outside
<1>6. CASE provider = "patreon"
  <2>1. stored \in Maybe(Credentials) /\ NewClient(stored)
    BY <1>6 DEF Swap, Typed
  <2>2. /\ ClientsTyped'
        /\ client' \notin 1 .. built /\ client' \in 1 .. built'
        /\ 1 .. built \subseteq 1 .. built'
        /\ made'[client'] = stored
    BY <2>1, <1>5, NewClientIsTyped DEF Typed
  <2>3. Typed'
    BY <1>4, <1>5, <2>2 DEF Typed
  <2>4. client' \notin closed'
    BY <1>5, <2>2 DEF Typed, ClientsTyped
  <2>5. ReplacedInv'
    BY <1>2, <1>4, <2>2, <2>4 DEF ReplacedInv, Maybe
  <2>6. Rebuilding'
    BY <1>4 DEF Rebuilding
  <2>7. CurrentInv'
    BY <1>4, <1>5, <1>6, <2>2, <2>6 DEF CurrentInv
  <2> QED
    BY <2>3, <2>5, <2>7
<1>7. CASE provider # "patreon"
  <2>1. client' = None /\ built' = built /\ made' = made
    BY <1>7 DEF Swap
  <2>2. Typed'
    BY <1>4, <1>5, <2>1 DEF Typed, ClientsTyped, Maybe
  <2>3. None \notin 1 .. built
    BY <1>2, Bounds
  <2>4. client' \notin closed'
    BY <1>5, <2>1, <2>3 DEF Typed, ClientsTyped
  <2>5. ReplacedInv'
    BY <1>2, <1>4, <2>1, <2>3, <2>4 DEF ReplacedInv, Maybe
  <2>6. CurrentInv'
    BY <1>5, <1>7 DEF CurrentInv
  <2> QED
    BY <2>2, <2>5, <2>6
<1> QED
  BY <1>6, <1>7

LEMMA CloseKeeps ==
  ASSUME IInv, NEW t \in Tasks, Close(t)
  PROVE  IInv'
<1> DEFINE r == IF task[t].kind = "other" THEN NoTask
                ELSE [[task[t] EXCEPT !.at = "check"] EXCEPT !.client = None]
<1> USE DEF IInv
<1>1. task[t] \in Records /\ task' = [task EXCEPT ![t] = r]
  BY DEF Close, Rebuilt, Typed
<1>2. r \in Records /\ r.at \in {"idle", "check"}
  BY ZenonT(60), <1>1, NoTaskIsTyped DEF Records, Maybe
<1> HIDE DEF r
<1>3. /\ task' \in [Tasks -> Records]
      /\ task'[t].at \in {"idle", "check"}
      /\ \A u \in Tasks \ {t} : task'[u] = task[u]
  BY <1>1, <1>2 DEF Typed
<1>4. task[t].at = "closing"
  BY DEF Close
<1>5. /\ UNCHANGED <<provider, stored, saves, built, client, made, status, working, about>>
      /\ locked' = FALSE
  BY DEF Close, settings
<1>6. closed' \subseteq 1 .. built /\ client \notin closed'
  BY <1>4 DEF Close, Typed, ClientsTyped, ReplacedInv, Maybe
<1>7. /\ cookieFile' \in Maybe(Credentials) /\ unwritten' \in BOOLEAN /\ faults' \in 0 .. MaxFaults
      /\ provider = "patreon" /\ ~unwritten' => cookieFile' = made[client]
  <2>1. provider = "patreon" => made[client] \in Maybe(Credentials)
    BY Bounds DEF Typed, ClientsTyped, CurrentInv, Numbers
  <2>2. WriteCookieFile /\ stored \in Maybe(Credentials) /\ cookieFile \in Maybe(Credentials)
    BY DEF Close, Typed
  <2>3. /\ unwritten' \in BOOLEAN
        /\ provider = "patreon" /\ ~unwritten' => cookieFile' = made[client]
        /\ cookieFile' \in Maybe(Credentials)
    BY <2>1, <2>2 DEF WriteCookieFile
  <2>4. faults' \in 0 .. MaxFaults
    BY <2>2, Bounds DEF WriteCookieFile, Fault, Typed
  <2> QED
    BY <2>3, <2>4
<1>8. Typed'
  BY <1>3, <1>5, <1>6, <1>7 DEF Typed, ClientsTyped
<1>9. ReplacedInv'
  BY <1>3, <1>5, <1>6 DEF ReplacedInv
<1>10. (Waiting => Waiting') /\ (Waiting' => Rebuilding')
  BY <1>3, <1>4 DEF Waiting, Rebuilding
<1>11. CurrentInv'
  BY <1>3, <1>5, <1>7, <1>10 DEF CurrentInv
<1> QED
  BY <1>8, <1>9, <1>11

LEMMA InstallKeeps ==
  ASSUME IInv, NEW t \in Tasks, Install(t)
  PROVE  IInv'
<1> DEFINE r == [[[task[t] EXCEPT !.at = "asking"] EXCEPT !.client = client'] EXCEPT !.creds = None]
<1> USE DEF IInv
<1>1. task[t] \in Records /\ task' = [task EXCEPT ![t] = r] /\ task[t].at = "rules"
  BY DEF Install, Becomes, Typed
<1>2. /\ UNCHANGED <<provider, stored, saves, closed, locked, cookieFile, unwritten, status, working, faults, about>>
      /\ NewClient(task[t].creds) /\ provider # "patreon"
  BY <1>1 DEF Install, settings, file, outside, CurrentInv
<1>3. /\ ClientsTyped'
      /\ client' \notin 1 .. built /\ client' \in 1 .. built' /\ client' \in Numbers
      /\ 1 .. built \subseteq 1 .. built'
  BY <1>1, <1>2, NewClientIsTyped DEF Typed, Records
<1>4. r \in Records /\ r.at = "asking" /\ r.client = client'
  BY <1>1, <1>3 DEF Records, Maybe
<1> HIDE DEF r
<1>5. /\ task' \in [Tasks -> Records]
      /\ task'[t].at = "asking" /\ task'[t].client = client'
      /\ \A u \in Tasks \ {t} : task'[u] = task[u]
  BY <1>1, <1>4 DEF Typed
<1>6. Typed'
  BY <1>2, <1>3, <1>5 DEF Typed
<1>7. client' \notin closed'
  BY <1>2, <1>3 DEF Typed, ClientsTyped
<1>8. ReplacedInv'
  BY <1>3, <1>5, <1>7 DEF ReplacedInv, Maybe
<1>9. CurrentInv'
  BY <1>2 DEF CurrentInv
<1> QED
  BY <1>6, <1>8, <1>9

\* Checks and requests.
LEMMA AsksKeep ==
  ASSUME IInv, NEW t \in Tasks,
         \/ Check(t) \/ Use(t) \/ NotConfigured(t) \/ Ask(t) \/ LoadRules(t) \/ RulesFail(t)
         \/ (\E answer \in States : Answer(t, answer)) \/ Forbidden(t) \/ Retry(t) \/ Fail(t)
  PROVE  IInv'
<1> USE DEF IInv
<1>1. /\ task[t] \in Records /\ stored \in Maybe(Credentials)
      /\ client # None => client \in 1 .. built
      /\ 1 .. built \subseteq Numbers
      /\ status \in States /\ about \in Maybe(Credentials)
      /\ task[t].at = "asking" => task[t].client \in 1 .. built
  BY Bounds DEF Typed, ClientsTyped, ReplacedInv, Maybe, Numbers
<1>2. task[t].at = "asking" => made[task[t].client] \in Maybe(Credentials)
  BY <1>1 DEF Typed, ClientsTyped
<1>3. UNCHANGED <<settings, clients, locked, file, outside>>
  BY DEF Check, Use, NotConfigured, Ask, LoadRules, RulesFail, Answer, Forbidden, Retry, Fail
<1>4. task[t].at \notin {"rebuild", "closing"}
  BY DEF Check, Use, NotConfigured, Ask, LoadRules, RulesFail, Answer, Forbidden, Retry, Fail
<1>5. status' \in States /\ about' \in Maybe(Credentials)
  BY <1>1, <1>2 DEF Check, Use, NotConfigured, Ask, LoadRules, RulesFail, Answer, Forbidden, Retry, Fail,
                    Stores, SetStatus, States, Maybe
<1>6. CASE Becomes(t, NoTask)
  BY <1>3, <1>4, <1>5, <1>6, NoTaskIsTyped, TaskMoves DEF Becomes
<1>7. CASE Check(t) \/ Forbidden(t)
  <2> DEFINE r == [[NoTask EXCEPT !.kind = "check"] EXCEPT !.at = "check"]
  <2>1. task' = [task EXCEPT ![t] = r]
    BY <1>7 DEF Check, Forbidden, Becomes
  <2>2. r \in Records /\ r.at = "check"
    BY NoTaskIsTyped DEF Kinds
  <2> HIDE DEF r
  <2> QED
    BY <1>3, <1>4, <1>5, <2>1, <2>2, TaskMoves
<1>8. CASE Use(t)
  <2> DEFINE r == [NoTask EXCEPT !.at = "check"]
  <2>1. task' = [task EXCEPT ![t] = r]
    BY <1>8 DEF Use, Becomes
  <2>2. r \in Records /\ r.at = "check"
    BY NoTaskIsTyped DEF Records
  <2> HIDE DEF r
  <2> QED
    BY <1>3, <1>4, <1>5, <2>1, <2>2, TaskMoves
<1>9. CASE Ask(t)
  <2> DEFINE r == [[task[t] EXCEPT !.at = "asking"] EXCEPT !.client = client]
  <2>1. task' = [task EXCEPT ![t] = r] /\ client # None
    BY <1>9 DEF Ask, Becomes
  <2>2. r \in Records /\ r.at = "asking" /\ r.client \in 1 .. built
    BY <1>1, <2>1 DEF Records, Maybe
  <2> HIDE DEF r
  <2> QED
    BY <1>3, <1>4, <1>5, <2>1, <2>2, TaskMoves
<1>10. CASE LoadRules(t)
  <2> DEFINE r == [[task[t] EXCEPT !.at = "rules"] EXCEPT !.creds = stored]
  <2>1. task' = [task EXCEPT ![t] = r] /\ client = None
    BY <1>10 DEF LoadRules, Becomes
  <2>2. r \in Records /\ r.at = "rules"
    BY <1>1 DEF Records
  <2>3. provider # "patreon"
    BY <1>1, <2>1, Bounds DEF CurrentInv
  <2> HIDE DEF r
  <2> QED
    BY <1>3, <1>4, <1>5, <2>1, <2>2, <2>3, TaskMoves
<1>11. CASE Retry(t)
  <2> DEFINE r == [task[t] EXCEPT !.attempt = task[t].attempt + 1]
  <2>1. task' = [task EXCEPT ![t] = r] /\ task[t].attempt < MaxAttempts /\ task[t].at = "asking"
    BY <1>11 DEF Retry, Becomes
  <2>2. task[t].attempt \in 1 .. MaxAttempts
    BY <1>1 DEF Records
  <2>3. task[t].attempt + 1 \in 1 .. MaxAttempts
    BY <2>1, <2>2, Bounds
  <2>4. r \in Records /\ r.at = "asking" /\ r.client \in 1 .. built
    BY <1>1, <2>1, <2>3 DEF Records
  <2> HIDE DEF r
  <2> QED
    BY <1>3, <1>4, <1>5, <2>1, <2>4, TaskMoves
<1> QED
  BY <1>6, <1>7, <1>8, <1>9, <1>10, <1>11
     DEF NotConfigured, RulesFail, Answer, Fail

LEMMA StepsKeep ==
  IInv /\ [Next]_vars => IInv'
<1> SUFFICES ASSUME IInv, [Next]_vars PROVE IInv'
  OBVIOUS
<1>1. CASE UNCHANGED vars
  BY <1>1 DEF vars, settings, clients, file, outside, IInv, Typed, ClientsTyped, ReplacedInv, CurrentInv,
              Waiting, Rebuilding
<1>2. CASE \E c \in Credentials : Flip(c)
  BY <1>2, FlipKeeps
<1>3. ASSUME NEW t \in Tasks, \E kind \in {"auth", "other"}, c \in Maybe(Credentials) : Save(t, kind, c)
      PROVE  IInv'
  BY <1>3, SaveKeeps
<1>4. ASSUME NEW t \in Tasks, Check(t) \/ Use(t) \/ GoesOn(t)
      PROVE  IInv'
  BY <1>4, SwapKeeps, CloseKeeps, InstallKeeps, AsksKeep DEF GoesOn
<1> QED
  BY <1>1, <1>2, <1>3, <1>4 DEF Next

\* Whatever overlaps, a closed client is one that was replaced, and a rebuild
\* makes Patreon's of what is stored.
THEOREM Invariance == Spec => []IInv
BY StartsUsable, StepsKeep, PTL DEF Spec

\* Credentials, clients and tasks are of the kinds the code has.
THEOREM TypesHold == Spec => []TypeOK
<1>1. Typed => TypeOK
  <2> SUFFICES ASSUME Typed PROVE TypeOK
    OBVIOUS
  <2>1. client \in Maybe(Numbers)
    BY Bounds DEF Typed, ClientsTyped, Maybe, Numbers
  <2> QED
    BY <2>1 DEF Typed, ClientsTyped, TypeOK, Records
<1> QED
  BY <1>1, Invariance, PTL DEF IInv

\* However saves, checks and scans overlap, the next request never finds a closed
\* client, and when no rebuild is under way Patreon's client and, unless its last
\* write failed, its cookie file are of the stored credentials.
THEOREM ClientIsAlwaysUsable == Spec => []ClientIsUsable
<1>1. IInv => ClientIsUsable
  BY DEF IInv, ReplacedInv, CurrentInv, ClientIsUsable, ClientIsCurrent, Waiting, Rebuilding
<1> QED
  BY <1>1, Invariance, PTL

===============================================================================
