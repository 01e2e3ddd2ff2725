------------------------------ MODULE ScanProofs -------------------------------
(***************************************************************************)
(* The scanner, for all creators, callers, request objects, posts, sources *)
(* and page sizes.                                                         *)
(*                                                                         *)
(* The queue: what request_scan looks at tells what there is.  A request   *)
(* object is in one place at a time: being put, queued, or the worker's    *)
(* (Owned).  From API threads that is all there is to lean on.  On the     *)
(* event loop a call runs to its end before the worker takes a request, so *)
(* what it read still holds when it writes (OnLoop), and a full scan taken *)
(* on is not lost (OwedInv).                                               *)
(*                                                                         *)
(* One scan: a source has been scanned down to some post (Reached), from   *)
(* which on everything is stored (Partial); what was listed and isn't      *)
(* stored yet are the posts right below (Descending).  At the overlap a    *)
(* post is met that was stored when the scan began, and since `whole` says *)
(* that no post was missing below it then (WholeInv), none is now.         *)
(***************************************************************************)
EXTENDS ScanQueue, ScanRun, FiniteSetTheorems, SequenceTheorems, WellFoundedInduction, TLAPS

-------------------------------------------------------------------------------
(* The queue. *)

Putting == {t \in Callers : call[t].at = "putting"}

\* A request object is in use in one place.
Owned ==
  /\ \A i \in DOMAIN queue : request[queue[i]] # None
  /\ \A i, j \in DOMAIN queue : queue[i] = queue[j] => i = j
  /\ \A t \in Putting :
       /\ call[t].request # None /\ request[call[t].request] # None
       /\ request[call[t].request].creator = call[t].creator
       /\ \A i \in DOMAIN queue : queue[i] # call[t].request
  /\ \A t, u \in Putting : call[t].request = call[u].request => t = u
  /\ worker.at # "waiting" => worker.request # None
  /\ worker.request # None =>
       /\ request[worker.request] # None
       /\ \A i \in DOMAIN queue : queue[i] # worker.request
       /\ \A t \in Putting : call[t].request # worker.request

\* _current is the request that is scanned.
Current == current = IF worker.at = "scanning" THEN worker.request ELSE None

\* Calls are made by this behaviour's callers, on the event loop one at a time.
CallsInv ==
  /\ \A t \in Callers :
       /\ call[t].at # "idle" => t \in scene.callers /\ call[t].creator # None
       /\ call[t].request # None => call[t].at \in {"holding", "putting"}
  /\ \A t, u \in LoopCallers : call[t].at # "idle" /\ call[u].at # "idle" => t = u

\* On the loop, what a call found is so until it ends.
OnLoop ==
  OnLoopOnly =>
    /\ \A i \in DOMAIN queue : pending[request[queue[i]].creator] = queue[i]
    /\ \A t \in Callers :
         LET c == call[t].creator
         IN  /\ call[t].at \in {"unqueued", "comparing"} => pending[c] = None
             /\ call[t].at \in {"found", "holding"} => pending[c] # None
             /\ call[t].at \in {"holding", "putting"} => pending[c] = call[t].request

\* A full scan that was taken on and not refused is queued, or the worker's but
\* not begun.
OwedInv ==
  OnLoopOnly => \A c \in owed \ refused :
    \E r \in Requests :
      /\ r \in ToSet(queue) \/ (worker.at \in {"taken", "admitted"} /\ r = worker.request)
      /\ request[r] # None /\ request[r].creator = c /\ request[r].full

\* There is always an object left for a call that makes a request.
InUse == {r \in Requests : request[r] # None}
Undecided == {t \in Callers : call[t].at \notin {"idle", "putting"}}
RoomInv == Cardinality(InUse) + Cardinality(Undecided) <= Cardinality(Callers) + 1

Core ==
  /\ TypeOK
  /\ Owned
  /\ Current
  /\ CallsInv
  /\ PendingIsOnItsWay
  /\ OnLoop
  /\ OwedInv

IInv == Core /\ RoomInv
-------------------------------------------------------------------------------
\* A call that makes a request finds an object that nobody uses or holds.
LEMMA FreshIsFresh ==
  ASSUME IInv, NEW t \in Callers, call[t].at \in {"unqueued", "comparing"}
  PROVE  /\ Fresh \in Requests
         /\ request[Fresh] = None
         /\ \A u \in Callers : call[u].request # Fresh
<1> DEFINE Holding == {u \in Callers : call[u].at = "holding"}
           Held == {call[u].request : u \in Holding}
           f == [u \in Holding |-> call[u].request]
<1>1. IsFiniteSet(Callers) /\ IsFiniteSet(Requests)
  BY ScanQueueAssumption DEF ScanQueueAssumption
<1>2. /\ IsFiniteSet(InUse) /\ IsFiniteSet(Undecided) /\ IsFiniteSet(Holding)
  BY <1>1, FS_Subset DEF InUse, Undecided
<1>3. Holding \subseteq Undecided \ {t}
  BY DEF Undecided
<1>4. /\ Cardinality(Undecided \ {t}) = Cardinality(Undecided) - 1
      /\ IsFiniteSet(Undecided \ {t})
  <2>1. t \in Undecided
    BY DEF Undecided
  <2> QED
    BY <1>2, <2>1, FS_RemoveElement
<1>5. Cardinality(Holding) <= Cardinality(Undecided) - 1
  BY <1>3, <1>4, FS_Subset
<1>6. f \in Surjection(Holding, Held)
  BY DEF Surjection
<1>7. IsFiniteSet(Held) /\ Cardinality(Held) <= Cardinality(Holding)
  BY <1>2, <1>6, FS_Surjection
<1> HIDE DEF Held, Holding
<1>8. /\ IsFiniteSet(InUse \cup Held)
      /\ Cardinality(InUse \cup Held) <= Cardinality(InUse) + Cardinality(Held)
  <2>1. /\ IsFiniteSet(InUse \cap Held)
        /\ IsFiniteSet(InUse \cup Held)
        /\ Cardinality(InUse \cup Held)
             = Cardinality(InUse) + Cardinality(Held) - Cardinality(InUse \cap Held)
    BY <1>2, <1>7, FS_Union, FS_Intersection
  <2>2. /\ Cardinality(InUse \cap Held) \in Nat
        /\ Cardinality(InUse) \in Nat
        /\ Cardinality(Held) \in Nat
    BY <1>2, <1>7, <2>1, FS_CardinalityType
  <2> QED
    BY <2>1, <2>2
<1>9. Cardinality(InUse \cup Held) < Cardinality(Requests)
  BY <1>1, <1>2, <1>5, <1>7, <1>8, FS_CardinalityType, ScanQueueAssumption
     DEF IInv, RoomInv, ScanQueueAssumption
<1>10. \E r \in Requests : r \notin InUse \cup Held
  <2> SUFFICES ASSUME Requests \subseteq InUse \cup Held PROVE FALSE
    OBVIOUS
  <2>1. Requests \in SUBSET (InUse \cup Held)
    OBVIOUS
  <2>2. Cardinality(Requests) <= Cardinality(InUse \cup Held)
    BY <1>8, <2>1, FS_Subset
  <2> QED
    BY <1>1, <1>8, <1>9, <2>2, FS_CardinalityType
<1>11. PICK r \in Requests : r \notin InUse /\ r \notin Held
  BY <1>10
<1>12. request[r] = None
  BY <1>11 DEF InUse
<1>13. \A u \in Callers : call[u].request # r
  <2> SUFFICES ASSUME NEW u \in Callers, call[u].request = r PROVE FALSE
    OBVIOUS
  <2>1. r # None
    BY ScanQueueAssumption DEF ScanQueueAssumption
  <2>2. call[u].at \in {"holding", "putting"}
    BY <2>1 DEF IInv, Core, CallsInv
  <2>3. CASE call[u].at = "holding"
    BY <1>11, <2>3 DEF Held, Holding
  <2>4. CASE call[u].at = "putting"
    BY <1>12, <2>4 DEF IInv, Core, Owned, Putting
  <2> QED
    BY <2>2, <2>3, <2>4
<1> QED
  BY <1>12, <1>13 DEF Fresh

-------------------------------------------------------------------------------
\* A call goes on or ends, and only what it remembers changes.
LEMMA CallMoves ==
  ASSUME Core, NEW t \in Callers, NEW x,
         x \in [at : {"idle", "admitted", "found", "holding", "unqueued", "comparing", "raised"},
                creator : Creators \cup {None}, full : BOOLEAN, automatic : BOOLEAN,
                request : Requests \cup {None}],
         call[t].at # "putting",
         call' = [call EXCEPT ![t] = x],
         UNCHANGED <<scene, admits, request, pending, queue, current, worker, getter, owed, refused>>,
         x.at # "idle" => t \in scene.callers /\ x.creator # None,
         x.at # "idle" /\ t \in LoopCallers => MayAct(t),
         x.request # None => x.at = "holding",
         OnLoopOnly =>
           /\ x.at \in {"unqueued", "comparing"} => pending[x.creator] = None
           /\ x.at \in {"found", "holding"} => pending[x.creator] # None
           /\ x.at = "holding" => pending[x.creator] = x.request
  PROVE  Core'
<1>0. /\ call' \in [Callers -> [at : {"idle", "admitted", "found", "holding", "unqueued", "comparing",
                                      "putting", "raised"},
                              creator : Creators \cup {None}, full : BOOLEAN, automatic : BOOLEAN,
                              request : Requests \cup {None}]]
      /\ call'[t] = x
      /\ \A u \in Callers \ {t} : call'[u] = call[u]
  BY DEF Core, TypeOK
<1>1. TypeOK'
  BY <1>0 DEF Core, TypeOK
<1>2. Putting' = Putting /\ t \notin Putting /\ \A u \in Putting : u \in Callers /\ call'[u] = call[u]
  BY <1>0 DEF Putting
<1>3. Owned'
  BY <1>2 DEF Core, Owned
<1>4. Current'
  BY DEF Core, Current
<1>5. CallsInv'
  <2>1. ASSUME NEW u \in Callers
        PROVE  /\ call'[u].at # "idle" => u \in scene.callers /\ call'[u].creator # None
               /\ call'[u].request # None => call'[u].at \in {"holding", "putting"}
    BY <1>0 DEF Core, CallsInv
  <2>2. ASSUME NEW u \in LoopCallers, NEW v \in LoopCallers, call'[u].at # "idle", call'[v].at # "idle"
        PROVE  u = v
    BY <1>0, <2>2, ScanQueueAssumption DEF Core, CallsInv, MayAct, ScanQueueAssumption
  <2> QED
    BY <2>1, <2>2 DEF CallsInv
<1>6. PendingIsOnItsWay'
  BY <1>2 DEF Core, PendingIsOnItsWay, OnItsWay, Putting
<1>7. OnLoop'
  <2>1. ASSUME OnLoopOnly, NEW u \in Callers
        PROVE  /\ call'[u].at \in {"unqueued", "comparing"} => pending[call'[u].creator] = None
               /\ call'[u].at \in {"found", "holding"} => pending[call'[u].creator] # None
               /\ call'[u].at \in {"holding", "putting"} => pending[call'[u].creator] = call'[u].request
    <3>1. CASE u = t
      BY <1>0, <2>1, <3>1
    <3>2. CASE u # t
      BY <1>0, <2>1, <3>2 DEF Core, OnLoop
    <3> QED
      BY <3>1, <3>2
  <2> QED
    BY <2>1 DEF Core, OnLoop, OnLoopOnly
<1>8. OwedInv'
  BY DEF Core, OwedInv, OnLoopOnly
<1> QED
  BY <1>1, <1>3, <1>4, <1>5, <1>6, <1>7, <1>8 DEF Core

\* A call puts a new request into _pending.
LEMMA CallMakesRequest ==
  ASSUME Core, NEW t \in Callers, call[t].at \in {"unqueued", "comparing"},
         NEW r \in Requests, request[r] = None, \A u \in Callers : call[u].request # r,
         NewRequest(t, r),
         UNCHANGED <<scene, admits, queue, current, worker, getter, owed, refused>>
  PROVE  Core'
<1> DEFINE c == call[t].creator
           made == [creator |-> c, full |-> call[t].full, automatic |-> call[t].automatic]
<1>0. /\ c \in Creators /\ t \in scene.callers
      /\ made \in Request /\ made # None /\ r # None
  <2>1. c \in Creators /\ t \in scene.callers /\ r # None
    BY ScanQueueAssumption DEF Core, TypeOK, CallsInv, ScanQueueAssumption
  <2>2. made \in Request
    BY <2>1 DEF Core, TypeOK, Request
  <2>3. made # None
    BY <2>2, ScanQueueAssumption DEF Request, ScanQueueAssumption
  <2> QED
    BY <2>1, <2>2, <2>3
<1>1. /\ request'[r] = made
      /\ \A q \in Requests \ {r} : request'[q] = request[q]
      /\ pending'[c] = r
      /\ \A d \in Creators \ {c} : pending'[d] = pending[d]
      /\ call'[t] = [call[t] EXCEPT !.at = "putting", !.request = r]
      /\ \A u \in Callers \ {t} : call'[u] = call[u]
  BY <1>0 DEF Core, TypeOK, NewRequest
<1>2. TypeOK'
  BY <1>0 DEF Core, TypeOK, NewRequest
<1>3. /\ call'[t].at = "putting" /\ call'[t].request = r /\ call'[t].creator = c
      /\ made.creator = c
  BY <1>1 DEF Core, TypeOK
<1>4. /\ Putting' = Putting \cup {t} /\ t \notin Putting
      /\ \A u \in Putting : u \in Callers /\ call'[u] = call[u] /\ call[u].request \in Requests \ {r}
  <2>1. ASSUME NEW u \in Callers
        PROVE  call'[u].at = "putting" <=> u = t \/ call[u].at = "putting"
    BY ZenonT(60), <1>1, <1>3 DEF Core, TypeOK
  <2>2. ASSUME NEW u \in Putting
        PROVE  u \in Callers /\ call'[u] = call[u] /\ call[u].request \in Requests \ {r}
    BY <1>1 DEF Putting, Core, TypeOK, Owned
  <2> QED
    BY <2>1, <2>2 DEF Putting
<1> HIDE DEF made
<1>5. \A i \in DOMAIN queue : queue[i] \in Requests \ {r}
  BY DEF Core, TypeOK, Owned
<1>6. worker.request # None => worker.request \in Requests \ {r}
  BY DEF Core, TypeOK, Owned
<1>7. Owned'
  <2>1. \A i \in DOMAIN queue : request'[queue[i]] # None
    BY <1>1, <1>5 DEF Core, Owned
  <2>2. ASSUME NEW u \in Putting'
        PROVE  /\ call'[u].request # None /\ request'[call'[u].request] # None
               /\ request'[call'[u].request].creator = call'[u].creator
               /\ \A i \in DOMAIN queue : queue[i] # call'[u].request
    <3>1. CASE u = t
      BY <1>0, <1>1, <1>3, <1>5, <3>1
    <3>2. CASE u \in Putting
      BY <1>1, <1>4, <3>2 DEF Core, Owned
    <3> QED
      BY <1>4, <3>1, <3>2
  <2>3. ASSUME NEW u \in Putting', NEW v \in Putting', call'[u].request = call'[v].request
        PROVE  u = v
    BY <1>4, <1>3, <2>3 DEF Core, Owned
  <2>4. worker.request # None =>
          /\ request'[worker.request] # None
          /\ \A u \in Putting' : call'[u].request # worker.request
    <3>1. worker.request # None =>
            /\ request'[worker.request] # None
            /\ \A u \in Putting : call'[u].request # worker.request
            /\ call'[t].request # worker.request
      BY <1>1, <1>4, <1>3, <1>6 DEF Core, Owned
    <3> QED
      BY <1>4, <3>1
  <2> QED
    BY <2>1, <2>2, <2>3, <2>4 DEF Core, Owned
<1>8. Current'
  BY DEF Core, Current
<1>9. CallsInv'
  <2>1. ASSUME NEW u \in Callers
        PROVE  /\ call'[u].at # "idle" => u \in scene.callers /\ call'[u].creator # None
               /\ call'[u].request # None => call'[u].at \in {"holding", "putting"}
    <3>1. CASE u = t
      BY <1>0, <1>3, <3>1, ScanQueueAssumption DEF ScanQueueAssumption
    <3>2. CASE u # t
      BY <1>1, <3>2 DEF Core, CallsInv
    <3> QED
      BY <3>1, <3>2
  <2>2. ASSUME NEW u \in LoopCallers, NEW v \in LoopCallers, call'[u].at # "idle", call'[v].at # "idle"
        PROVE  u = v
    BY <1>1, <2>2, ScanQueueAssumption DEF Core, CallsInv, ScanQueueAssumption
  <2> QED
    BY <2>1, <2>2 DEF CallsInv
<1>10. PendingIsOnItsWay'
  <2> SUFFICES ASSUME NEW d \in Creators, pending'[d] # None
               PROVE  OnItsWay(pending[d])' /\ request'[pending'[d]].creator = d
    BY DEF PendingIsOnItsWay
  <2>1. CASE d = c
    BY <1>1, <1>3, <2>1 DEF OnItsWay
  <2>2. CASE d # c
    <3>1. /\ pending'[d] = pending[d] /\ OnItsWay(pending[d])
          /\ request[pending[d]].creator = d
      BY <1>1, <2>2 DEF Core, PendingIsOnItsWay
    <3>2. pending[d] \in Requests \ {r}
      BY <1>4, <1>5, <3>1 DEF OnItsWay, ToSet, Putting
    <3>3. OnItsWay(pending[d])'
      <4>1. CASE pending[d] \in ToSet(queue)
        BY <3>1, <4>1 DEF OnItsWay
      <4>2. CASE \E u \in Callers : call[u].at = "putting" /\ call[u].request = pending[d]
        BY <1>4, <3>1, <4>2 DEF OnItsWay, Putting
      <4> QED
        BY <3>1, <4>1, <4>2 DEF OnItsWay
    <3> QED
      BY <1>1, <3>1, <3>2, <3>3
  <2> QED
    BY <2>1, <2>2
<1>11. OnLoop'
  <2> SUFFICES ASSUME OnLoopOnly
               PROVE  /\ \A i \in DOMAIN queue : pending'[request'[queue[i]].creator] = queue[i]
                      /\ \A u \in Callers \ {t} : call[u].at = "idle"
    BY ZenonT(60), <1>1, <1>3 DEF OnLoop, OnLoopOnly
  <2>1. pending[c] = None
    BY DEF Core, OnLoop
  <2>2. ASSUME NEW i \in DOMAIN queue
        PROVE  pending'[request'[queue[i]].creator] = queue[i]
    <3>1. /\ request'[queue[i]] = request[queue[i]]
          /\ pending[request[queue[i]].creator] = queue[i]
          /\ queue[i] # None
      BY <1>1, <1>5, ScanQueueAssumption DEF Core, OnLoop, ScanQueueAssumption
    <3>2. request[queue[i]].creator \in Creators \ {c}
      BY <1>5, <2>1, <3>1 DEF Core, Owned, TypeOK, Request
    <3> QED
      BY <1>1, <3>1, <3>2
  <2>3. ASSUME NEW u \in Callers \ {t}
        PROVE  call[u].at = "idle"
    BY <1>0 DEF Core, CallsInv, OnLoopOnly
  <2> QED
    BY <2>2, <2>3
<1>12. OwedInv'
  <2>1. ASSUME OnLoopOnly, NEW d \in owed \ refused
        PROVE  \E q \in Requests :
                 /\ q \in ToSet(queue) \/ (worker.at \in {"taken", "admitted"} /\ q = worker.request)
                 /\ request'[q] # None /\ request'[q].creator = d /\ request'[q].full
    BY <1>1, <2>1 DEF Core, OwedInv
  <2> QED
    BY <2>1 DEF OwedInv, OnLoopOnly
<1> QED
  BY <1>2, <1>7, <1>8, <1>9, <1>10, <1>11, <1>12 DEF Core

\* A call puts its request into the queue.
LEMMA CallPuts ==
  ASSUME Core, NEW t \in Callers, Put(t)
  PROVE  Core'
<1> DEFINE r == call[t].request
<1>1. /\ call[t].at = "putting" /\ t \in Putting
      /\ r \in Requests /\ request[r] # None /\ request[r].creator = call[t].creator
      /\ \A i \in DOMAIN queue : queue[i] # r
  BY DEF Put, Putting, Core, Owned, TypeOK
<1>2. /\ call'[t] = NoCall
      /\ \A u \in Callers \ {t} : call'[u] = call[u]
      /\ UNCHANGED <<scene, admits, request, pending, current, worker, owed, refused>>
      /\ getter' \in {"none", getter}
  BY DEF Put, Return, Core, TypeOK
<1>3. /\ Putting' = Putting \ {t}
      /\ \A u \in Putting \ {t} : u \in Callers /\ call'[u] = call[u] /\ call[u].request # r
  BY <1>1, <1>2 DEF Putting, NoCall, Core, Owned
<1>4. /\ queue' = Append(queue, r) /\ queue \in Seq(Requests)
      /\ queue' \in Seq(Requests)
      /\ DOMAIN queue = 1 .. Len(queue) /\ Len(queue) \in Nat
      /\ DOMAIN queue' = 1 .. Len(queue) + 1
      /\ \A i \in DOMAIN queue : queue'[i] = queue[i]
      /\ queue'[Len(queue) + 1] = r
  BY <1>1, AppendProperties DEF Put, Core, TypeOK
<1>5. \A i \in DOMAIN queue' : i \in DOMAIN queue \/ i = Len(queue) + 1
  BY <1>4
<1>6. ToSet(queue)' = ToSet(queue) \cup {r}
  BY <1>4, <1>5 DEF ToSet
<1>7. TypeOK'
  BY <1>2, <1>4 DEF Put, Return, NoCall, Core, TypeOK
<1> HIDE DEF r
<1>8. Owned'
  <2>1. /\ \A i \in DOMAIN queue' : request[queue'[i]] # None
        /\ \A i, j \in DOMAIN queue' : queue'[i] = queue'[j] => i = j
    BY <1>1, <1>4, <1>5 DEF Core, Owned
  <2>2. ASSUME NEW u \in Putting \ {t}
        PROVE  \A i \in DOMAIN queue' : queue'[i] # call[u].request
    BY <1>3, <1>4, <1>5 DEF Core, Owned
  <2>3. worker.request # None => \A i \in DOMAIN queue' : queue'[i] # worker.request
    BY <1>1, <1>4, <1>5 DEF Core, Owned, r
  <2> QED
    BY <1>2, <1>3, <2>1, <2>2, <2>3 DEF Core, Owned
<1>9. Current'
  BY <1>2 DEF Core, Current
<1>10. CallsInv'
  <2>1. /\ call'[t].at = "idle" /\ call'[t].request = None
        /\ scene' = scene
    BY <1>2 DEF NoCall
  <2> QED
    BY <1>2, <2>1, ScanQueueAssumption DEF Core, CallsInv, ScanQueueAssumption
<1>11. PendingIsOnItsWay'
  <2> SUFFICES ASSUME NEW c \in Creators, pending[c] # None
               PROVE  OnItsWay(pending[c])' /\ request[pending[c]].creator = c
    BY <1>2 DEF PendingIsOnItsWay
  <2>1. OnItsWay(pending[c]) /\ request[pending[c]].creator = c
    BY DEF Core, PendingIsOnItsWay
  <2>2. CASE \E u \in Callers : call[u].at = "putting" /\ call[u].request = pending[c]
    <3>1. PICK u \in Callers : call[u].at = "putting" /\ call[u].request = pending[c]
      BY <2>2
    <3>2. CASE u = t
      BY <1>2, <1>6, <2>1, <3>1, <3>2 DEF OnItsWay, r
    <3>3. CASE u # t
      BY <1>2, <2>1, <3>1, <3>3 DEF OnItsWay
    <3> QED
      BY <3>2, <3>3
  <2> QED
    BY <1>2, <1>6, <2>1, <2>2 DEF OnItsWay
<1>12. OnLoop'
  <2>1. ASSUME OnLoopOnly, NEW i \in DOMAIN queue'
        PROVE  pending[request[queue'[i]].creator] = queue'[i]
    <3>1. CASE i \in DOMAIN queue
      BY <1>4, <2>1, <3>1 DEF Core, OnLoop
    <3>2. CASE i = Len(queue) + 1
      BY <1>1, <1>4, <2>1, <3>2 DEF Core, OnLoop, r
    <3> QED
      BY <1>5, <3>1, <3>2
  <2> QED
    BY <1>2, <2>1 DEF Core, OnLoop, OnLoopOnly, NoCall
<1>13. OwedInv'
  BY <1>2, <1>6 DEF Core, OwedInv, OnLoopOnly
<1> QED
  BY <1>7, <1>8, <1>9, <1>10, <1>11, <1>12, <1>13 DEF Core

\* A call finds a pending request and makes it a full scan if it wants one.
LEMMA CallUpgrades ==
  ASSUME Core, NEW t \in Callers, Upgrade(t)
  PROVE  Core' /\ \A q \in Requests : request'[q] = None <=> request[q] = None
<1> DEFINE r == call[t].request
           Same(q) == /\ request'[q] = None <=> request[q] = None
                      /\ request[q] # None =>
                           /\ request'[q].creator = request[q].creator
                           /\ request[q].full => request'[q].full
<1>1. /\ call[t].at = "holding" /\ t \notin Putting
      /\ call'[t] = NoCall
      /\ \A u \in Callers \ {t} : call'[u] = call[u]
      /\ UNCHANGED <<scene, admits, pending, queue, current, worker, getter>>
  BY DEF Upgrade, Return, Core, TypeOK, Putting
<1>2. /\ request' \in [Requests -> Request \cup {None}]
      /\ \A q \in Requests : Same(q)
  <2>1. CASE call[t].full /\ request[r] # None
    <3>1. request' = [request EXCEPT ![r].full = TRUE]
      BY <2>1 DEF Upgrade
    <3>2. ASSUME r \in Requests
          PROVE  /\ request'[r] \in Request /\ request'[r].full /\ request'[r].creator = request[r].creator
                 /\ request'[r] # None
                 /\ \A q \in Requests \ {r} : request'[q] = request[q]
      <4>1. request[r] \in Request
        BY <2>1, <3>2 DEF Core, TypeOK
      <4>2. request'[r] = [request[r] EXCEPT !.full = TRUE]
        BY <3>1, <3>2 DEF Core, TypeOK
      <4>3. request'[r] \in Request
        BY <4>1, <4>2 DEF Request
      <4> QED
        BY ZenonT(60), <3>1, <3>2, <4>1, <4>2, <4>3, ScanQueueAssumption DEF Core, TypeOK, Request, ScanQueueAssumption
    <3>3. request' \in [Requests -> Request \cup {None}]
      <4>1. DOMAIN request' = Requests /\ request' = [q \in Requests |-> request'[q]]
        BY <3>1 DEF Core, TypeOK
      <4>2. \A q \in Requests : request'[q] \in Request \cup {None}
        BY <3>1, <3>2 DEF Core, TypeOK
      <4> QED
        BY <4>1, <4>2
    <3> QED
      BY <2>1, <3>1, <3>2, <3>3 DEF Core, TypeOK
  <2>2. CASE ~(call[t].full /\ request[r] # None)
    BY <2>2 DEF Upgrade, Core, TypeOK
  <2> QED
    BY <2>1, <2>2
<1>3. /\ call[t].creator \in Creators
      /\ owed' \subseteq owed \cup {call[t].creator} /\ refused' \subseteq owed'
      /\ \A d \in owed' \ refused' :
           d \in owed \ refused \/ (d = call[t].creator /\ call[t].full)
  BY <1>1 DEF Upgrade, TakesOn, Core, CallsInv, TypeOK
<1>4. TypeOK'
  BY <1>1, <1>2, <1>3 DEF Upgrade, Return, NoCall, Core, TypeOK
<1>5. Putting' = Putting /\ \A u \in Putting : u \in Callers /\ call'[u] = call[u]
  BY <1>1 DEF Putting, NoCall
<1>6. /\ \A i \in DOMAIN queue : Same(queue[i])
      /\ \A u \in Putting : Same(call[u].request)
      /\ worker.request # None => Same(worker.request)
      /\ \A c \in Creators : pending[c] # None => Same(pending[c])
  BY <1>2 DEF Core, TypeOK, Owned, Putting
<1> HIDE DEF Same
<1>7. Owned'
  BY <1>1, <1>5, <1>6 DEF Core, Owned, Same
<1>8. Current'
  BY <1>1 DEF Core, Current
<1>9. CallsInv'
  <2>1. /\ call'[t].at = "idle" /\ call'[t].request = None
        /\ scene' = scene
    BY <1>1 DEF NoCall
  <2> QED
    BY <1>1, <2>1, ScanQueueAssumption DEF Core, CallsInv, ScanQueueAssumption
<1>10. PendingIsOnItsWay'
  <2> SUFFICES ASSUME NEW c \in Creators, pending[c] # None
               PROVE  OnItsWay(pending[c])' /\ request'[pending[c]].creator = c
    BY <1>1 DEF PendingIsOnItsWay
  <2>1. OnItsWay(pending[c]) /\ request[pending[c]].creator = c
    BY DEF Core, PendingIsOnItsWay
  <2>2. OnItsWay(pending[c])'
    BY <1>1, <1>5, <2>1 DEF OnItsWay, Putting
  <2>3. request[pending[c]] # None
    BY <2>1 DEF OnItsWay, Putting, ToSet, Core, Owned
  <2> QED
    BY <1>6, <2>1, <2>2, <2>3 DEF Same
<1>11. OnLoop'
  BY <1>1, <1>6 DEF Core, Owned, OnLoop, OnLoopOnly, NoCall, Same
<1>12. OwedInv'
  <2> SUFFICES ASSUME OnLoopOnly, NEW d \in owed' \ refused'
               PROVE  \E q \in Requests :
                        /\ q \in ToSet(queue) \/ (worker.at \in {"taken", "admitted"} /\ q = worker.request)
                        /\ request'[q] # None /\ request'[q].creator = d /\ request'[q].full
    BY <1>1 DEF OwedInv, OnLoopOnly
  <2>1. CASE d \in owed \ refused
    BY <1>2, <2>1 DEF Core, OwedInv, Same
  <2>2. CASE d \notin owed \ refused
    <3>1. d = call[t].creator /\ call[t].full
      BY <1>3, <2>2
    <3>2. r # None /\ r \in Requests /\ r = pending[d] /\ OnItsWay(r) /\ request[r].creator = d
      BY <1>1, <1>3, <3>1 DEF Core, OnLoop, PendingIsOnItsWay, TypeOK
    <3>3. \A u \in Callers : call[u].at # "putting"
      BY <1>1 DEF Core, CallsInv, OnLoopOnly
    <3>4. r \in ToSet(queue)
      BY <3>2, <3>3 DEF OnItsWay
    <3>5. request[r] # None
      BY <3>4 DEF ToSet, Core, Owned
    <3>6. request'[r].full
      <4>1. request' = [request EXCEPT ![r].full = TRUE] /\ request[r] \in Request
        BY <3>1, <3>2, <3>5 DEF Upgrade, Core, TypeOK
      <4> QED
        BY <3>2, <4>1 DEF Core, TypeOK, Request
    <3> QED
      BY <1>2, <3>2, <3>4, <3>5, <3>6 DEF Same
  <2> QED
    BY <2>1, <2>2
<1> QED
  BY <1>2, <1>4, <1>7, <1>8, <1>9, <1>10, <1>11, <1>12 DEF Core, Same

-------------------------------------------------------------------------------
\* The worker takes the head of the queue, and its creator's entry is popped.
LEMMA WorkerTakes ==
  ASSUME Core, Take
  PROVE  Core'
<1> DEFINE h == Head(queue)
           c == request[h].creator
<1>1. /\ worker.at = "waiting" /\ LoopIsFree
      /\ worker' = [at |-> "taken", request |-> h]
      /\ pending' = [pending EXCEPT ![c] = None]
      /\ UNCHANGED <<scene, admits, request, current, getter, call, owed, refused>>
  BY DEF Take
<1>2. /\ queue \in Seq(Requests) /\ Len(queue) \in Nat /\ DOMAIN queue = 1 .. Len(queue)
      /\ queue' \in Seq(Requests) /\ DOMAIN queue' = 1 .. Len(queue) - 1
      /\ \A i \in DOMAIN queue' : queue'[i] = queue[i + 1] /\ i + 1 \in DOMAIN queue
      /\ 1 \in DOMAIN queue /\ h = queue[1] /\ h \in Requests
      /\ \A i \in DOMAIN queue : i = 1 \/ (i - 1 \in DOMAIN queue' /\ queue'[i - 1] = queue[i])
  <2>1. queue \in Seq(Requests) /\ queue # <<>>
    BY DEF Core, TypeOK, Take
  <2>2. /\ Len(queue) \in Nat \ {0} /\ DOMAIN queue = 1 .. Len(queue)
        /\ h = queue[1]
    BY <2>1, EmptySeq, LenProperties
  <2>3. /\ Tail(queue) \in Seq(Requests) /\ Len(Tail(queue)) = Len(queue) - 1
        /\ h \in Requests
        /\ \A i \in 1 .. Len(Tail(queue)) : Tail(queue)[i] = queue[i + 1]
    BY <2>1, HeadTailProperties
  <2>4. DOMAIN Tail(queue) = 1 .. Len(queue) - 1
    BY <2>3, LenProperties
  <2>5. queue' = Tail(queue)
    BY DEF Take
  <2>6. ASSUME NEW i \in DOMAIN queue, i # 1
        PROVE  i - 1 \in DOMAIN queue' /\ queue'[i - 1] = queue[i]
    <3>1. i - 1 \in 1 .. Len(queue) - 1 /\ (i - 1) + 1 = i
      BY <2>2, <2>6
    <3> QED
      BY <2>3, <2>4, <2>5, <3>1
  <2> QED
    BY <2>1, <2>2, <2>3, <2>4, <2>5, <2>6
<1>3. /\ h # None /\ request[h] # None /\ c \in Creators
      /\ \A i \in DOMAIN queue' : queue'[i] # h
  <2>1. h # None /\ request[h] # None
    BY <1>2, ScanQueueAssumption DEF Core, Owned, ScanQueueAssumption
  <2>2. c \in Creators
    BY <1>2, <2>1 DEF Core, TypeOK, Request
  <2>3. ASSUME NEW i \in DOMAIN queue', queue'[i] = h
        PROVE  FALSE
    BY <1>2, <2>3 DEF Core, Owned
  <2> QED
    BY <2>1, <2>2, <2>3
<1>4. ToSet(queue) \subseteq ToSet(queue)' \cup {h}
  BY <1>2 DEF ToSet
<1>5. TypeOK'
  BY <1>1, <1>2, <1>3 DEF Core, TypeOK
<1> HIDE DEF h
<1>6. Putting' = Putting /\ \A t \in Putting : call[t].request # h
  <2>1. Putting' = Putting
    BY <1>1 DEF Putting
  <2> QED
    BY <1>2, <2>1 DEF Core, Owned
<1>7. Owned'
  <2>1. /\ \A i \in DOMAIN queue' : request[queue'[i]] # None
        /\ \A i, j \in DOMAIN queue' : queue'[i] = queue'[j] => i = j
        /\ \A t \in Putting, i \in DOMAIN queue' : queue'[i] # call[t].request
    BY <1>2 DEF Core, Owned
  <2>2. worker'.request = h /\ request'[h] # None
    BY <1>1, <1>3
  <2> QED
    BY <1>1, <1>3, <1>6, <2>1, <2>2 DEF Core, Owned
<1>8. Current'
  BY <1>1 DEF Core, Current
<1>9. CallsInv'
  BY <1>1 DEF Core, CallsInv
<1>10. PendingIsOnItsWay'
  <2> SUFFICES ASSUME NEW d \in Creators, pending'[d] # None
               PROVE  OnItsWay(pending[d])' /\ request[pending'[d]].creator = d
    BY <1>1 DEF PendingIsOnItsWay
  <2>1. d # c /\ pending'[d] = pending[d]
    BY <1>1, <1>3 DEF Core, TypeOK
  <2>2. OnItsWay(pending[d]) /\ request[pending[d]].creator = d
    BY <2>1 DEF Core, PendingIsOnItsWay
  <2> QED
    BY <1>1, <1>4, <2>1, <2>2 DEF OnItsWay
<1>11. OnLoop'
  <2> SUFFICES ASSUME OnLoopOnly
               PROVE  /\ \A i \in DOMAIN queue' : pending'[request[queue'[i]].creator] = queue'[i]
                      /\ \A t \in Callers : call[t].at = "idle"
    BY <1>1 DEF OnLoop, OnLoopOnly
  <2>1. \A t \in Callers : call[t].at = "idle"
    BY <1>1 DEF Core, CallsInv, OnLoopOnly, LoopIsFree
  <2>2. ASSUME NEW i \in DOMAIN queue'
        PROVE  pending'[request[queue'[i]].creator] = queue'[i]
    <3>1. /\ pending[request[queue'[i]].creator] = queue'[i]
          /\ pending[c] = h
          /\ request[queue'[i]] # None /\ queue'[i] \in Requests
      BY <1>2 DEF Core, OnLoop, Owned
    <3>2. request[queue'[i]].creator \in Creators \ {c}
      BY <1>3, <3>1 DEF Core, TypeOK, Request
    <3> QED
      BY <1>1, <3>1, <3>2 DEF Core, TypeOK
  <2> QED
    BY <2>1, <2>2
<1>12. OwedInv'
  BY <1>1, <1>4 DEF Core, OwedInv, OnLoopOnly
<1> QED
  BY <1>5, <1>7, <1>8, <1>9, <1>10, <1>11, <1>12 DEF Core

\* The worker is done with its request, refused or scanned, and drops it.
LEMMA WorkerIsDone ==
  ASSUME Core, worker.at \in {"taken", "scanning"}, Done,
         admits' \in [Creators -> Admissions],
         UNCHANGED <<scene, pending, queue, getter, call, owed>>,
         current' = None,
         refused \subseteq refused' /\ refused' \subseteq owed,
         worker.at = "taken" /\ request[worker.request].full =>
           request[worker.request].creator \notin owed \ refused'
  PROVE  Core'
<1> DEFINE w == worker.request
<1>1. /\ worker' = Waiting /\ w \in Requests /\ w # None
      /\ request'[w] = None
      /\ \A q \in Requests \ {w} : request'[q] = request[q]
  BY DEF Done, Core, TypeOK, Owned
<1>2. TypeOK'
  BY <1>1 DEF Core, TypeOK, Done, Waiting
<1>3. /\ \A i \in DOMAIN queue : queue[i] \in Requests \ {w}
      /\ \A t \in Putting : t \in Callers /\ call[t].request \in Requests \ {w}
  <2>1. \A i \in DOMAIN queue : queue[i] \in Requests \ {w}
    BY <1>1 DEF Core, TypeOK, Owned
  <2>2. \A t \in Putting : t \in Callers /\ call[t].request \in Requests \ {w}
    BY <1>1 DEF Core, TypeOK, Owned, Putting
  <2> QED
    BY <2>1, <2>2
<1>4. Putting' = Putting
  BY DEF Putting
<1>5. Owned'
  <2>1. worker'.at = "waiting" /\ worker'.request = None
    BY <1>1 DEF Waiting
  <2> QED
    BY <1>1, <1>3, <1>4, <2>1 DEF Core, Owned
<1>6. Current'
  BY <1>1 DEF Current, Waiting
<1>7. CallsInv'
  BY DEF Core, CallsInv
<1>8. PendingIsOnItsWay'
  <2> SUFFICES ASSUME NEW c \in Creators, pending[c] # None
               PROVE  OnItsWay(pending[c])' /\ request'[pending[c]].creator = c
    BY DEF PendingIsOnItsWay
  <2>1. OnItsWay(pending[c]) /\ request[pending[c]].creator = c
    BY DEF Core, PendingIsOnItsWay
  <2>2. pending[c] \in Requests \ {w}
    BY <1>3, <2>1 DEF OnItsWay, ToSet, Putting
  <2> QED
    BY <1>1, <2>1, <2>2 DEF OnItsWay
<1>9. OnLoop'
  BY <1>1, <1>3 DEF Core, OnLoop, OnLoopOnly
<1>10. OwedInv'
  <2> SUFFICES ASSUME OnLoopOnly, NEW c \in owed' \ refused'
               PROVE  \E q \in Requests :
                        /\ q \in ToSet(queue)
                        /\ request'[q] # None /\ request'[q].creator = c /\ request'[q].full
    BY DEF OwedInv, OnLoopOnly
  <2>1. PICK q \in Requests :
          /\ q \in ToSet(queue) \/ (worker.at \in {"taken", "admitted"} /\ q = w)
          /\ request[q] # None /\ request[q].creator = c /\ request[q].full
    BY DEF Core, OwedInv
  <2>2. q \in ToSet(queue)
    BY <2>1
  <2>3. q \in Requests \ {w}
    BY <1>3, <2>2 DEF ToSet
  <2> QED
    BY <1>1, <2>1, <2>2, <2>3
<1> QED
  BY <1>2, <1>5, <1>6, <1>7, <1>8, <1>9, <1>10 DEF Core

\* The worker's other steps: what it does with the request it has.
LEMMA WorkerGoesOn ==
  ASSUME Core, Admit \/ Begin
  PROVE  Core'
<1>1. /\ UNCHANGED <<scene, admits, request, pending, queue, getter, call>>
      /\ worker.at \in {"taken", "admitted"}
      /\ worker'.request = worker.request /\ worker.request # None
      /\ worker'.at \in {"admitted", "scanning"}
  BY DEF Admit, Begin, Core, TypeOK, Owned
<1>2. TypeOK'
  BY DEF Admit, Begin, Core, TypeOK
<1>3. Putting' = Putting
  BY <1>1 DEF Putting
<1>4. Owned'
  BY <1>1, <1>3 DEF Core, Owned
<1>5. Current'
  BY DEF Admit, Begin, Core, TypeOK, Current
<1>6. CallsInv' /\ PendingIsOnItsWay' /\ OnLoop'
  BY <1>1 DEF Core, CallsInv, PendingIsOnItsWay, OnItsWay, OnLoop, OnLoopOnly
<1>7. OwedInv'
  <2> SUFFICES ASSUME OnLoopOnly, NEW c \in owed' \ refused'
               PROVE  \E q \in Requests :
                        /\ q \in ToSet(queue) \/ (worker'.at \in {"taken", "admitted"} /\ q = worker'.request)
                        /\ request[q] # None /\ request[q].creator = c /\ request[q].full
    BY <1>1 DEF OwedInv, OnLoopOnly
  <2>1. c \in owed \ refused
    BY DEF Admit, Begin
  <2>2. PICK q \in Requests :
          /\ q \in ToSet(queue) \/ (worker.at \in {"taken", "admitted"} /\ q = worker.request)
          /\ request[q] # None /\ request[q].creator = c /\ request[q].full
    BY <2>1 DEF Core, OwedInv
  <2>3. CASE Admit
    BY <1>1, <2>2, <2>3 DEF Admit
  <2>4. CASE Begin
    BY <2>2, <2>4 DEF Begin
  <2> QED
    BY <2>3, <2>4
<1> QED
  BY <1>2, <1>4, <1>5, <1>6, <1>7 DEF Core

-------------------------------------------------------------------------------
\* Every step keeps what there is and what _pending and _current say together.
LEMMA CoreStep ==
  ASSUME IInv, [Next]_vars
  PROVE  Core'
<1>0. Core
  BY DEF IInv
<1>1. ASSUME NEW t \in Callers, NEW c \in Creators, NEW full \in BOOLEAN, NEW automatic \in BOOLEAN,
             Ask(t, c, full, automatic)
      PROVE  Core'
  <2> DEFINE x == [at |-> "admitted", creator |-> c, full |-> full, automatic |-> automatic,
                   request |-> None]
  <2>1. c # None
    BY ScanQueueAssumption DEF ScanQueueAssumption
  <2>2. /\ call[t].at # "putting" /\ call' = [call EXCEPT ![t] = x]
        /\ UNCHANGED <<scene, admits, request, pending, queue, current, worker, getter, owed, refused>>
        /\ t \in scene.callers /\ MayAct(t)
    BY <1>1 DEF Ask
  <2>3. x \in [at : {"idle", "admitted", "found", "holding", "unqueued", "comparing", "raised"},
               creator : Creators \cup {None}, full : BOOLEAN, automatic : BOOLEAN,
               request : Requests \cup {None}]
    OBVIOUS
  <2> QED
    BY <1>0, <2>1, <2>2, <2>3, CallMoves
<1>2. ASSUME NEW t \in Callers, CallStep(t)
      PROVE  Core'
  <2> USE <1>0
  <2> DEFINE Record == [at : {"idle", "admitted", "found", "holding", "unqueued", "comparing", "raised"},
                        creator : Creators \cup {None}, full : BOOLEAN, automatic : BOOLEAN,
                        request : Requests \cup {None}]
  <2>1. CASE Put(t)
    BY <2>1, CallPuts
  <2>2. CASE Upgrade(t)
    BY <2>2, CallUpgrades
  <2>3. CASE Raise(t) \/ (CompareCurrent(t) /\ Return(t) /\ UNCHANGED <<request, pending>>)
    <3>1. /\ call[t].at # "putting" /\ call' = [call EXCEPT ![t] = NoCall]
          /\ UNCHANGED <<scene, admits, request, pending, queue, current, worker, getter, owed, refused>>
      BY <2>3 DEF Raise, CompareCurrent, Return
    <3>2. /\ NoCall \in Record /\ NoCall.at = "idle" /\ NoCall.request = None
      BY DEF NoCall
    <3> QED
      BY <3>1, <3>2, CallMoves
  <2>4. ASSUME call[t].at \notin {"idle", "putting"}, NEW place, NEW r,
               call' = [call EXCEPT ![t] = [call[t] EXCEPT !.at = place, !.request = r]],
               UNCHANGED <<scene, admits, request, pending, queue, current, worker, getter, owed, refused>>,
               \/ place \in {"admitted", "found", "unqueued", "comparing", "raised"} /\ r = None
               \/ place = "holding" /\ r = pending[call[t].creator] /\ r # None,
               OnLoopOnly =>
                 /\ place \in {"unqueued", "comparing"} => pending[call[t].creator] = None
                 /\ place \in {"found", "holding"} => pending[call[t].creator] # None
        PROVE  Core'
    <3> DEFINE x == [call[t] EXCEPT !.at = place, !.request = r]
    <3>1. /\ t \in scene.callers /\ call[t].creator \in Creators
          /\ t \in LoopCallers => MayAct(t)
      BY <2>4, ScanQueueAssumption DEF Core, CallsInv, TypeOK, MayAct, ScanQueueAssumption
    <3>2. /\ x.at = place /\ x.request = r /\ x.creator = call[t].creator
          /\ x \in Record
      <4>1. /\ place \in {"idle", "admitted", "found", "holding", "unqueued", "comparing", "raised"}
            /\ r \in Requests \cup {None}
        BY <2>4, <3>1 DEF Core, TypeOK
      <4>2. call[t] \in [at : {"idle", "admitted", "found", "holding", "unqueued", "comparing",
                              "putting", "raised"},
                        creator : Creators \cup {None}, full : BOOLEAN, automatic : BOOLEAN,
                        request : Requests \cup {None}]
        BY DEF Core, TypeOK
      <4> QED
        BY <4>1, <4>2
    <3>3. call[t].creator # None
      BY <3>1, ScanQueueAssumption DEF ScanQueueAssumption
    <3> HIDE DEF x
    <3>4. call' = [call EXCEPT ![t] = x]
      BY <2>4 DEF x
    <3> HIDE DEF Record
    <3>5. /\ x.at # "idle" => t \in scene.callers /\ x.creator # None
          /\ x.at # "idle" /\ t \in LoopCallers => MayAct(t)
          /\ x.request # None => x.at = "holding"
          /\ OnLoopOnly =>
               /\ x.at \in {"unqueued", "comparing"} => pending[x.creator] = None
               /\ x.at \in {"found", "holding"} => pending[x.creator] # None
               /\ x.at = "holding" => pending[x.creator] = x.request
      BY <2>4, <3>1, <3>2, <3>3
    <3> QED
      BY ZenonT(60), <2>4, <3>2, <3>4, <3>5, CallMoves DEF Record
  <2>5. call \in [Callers -> [at : {"idle", "admitted", "found", "holding", "unqueued", "comparing",
                                   "putting", "raised"},
                             creator : Creators \cup {None}, full : BOOLEAN, automatic : BOOLEAN,
                             request : Requests \cup {None}]]
    BY DEF Core, TypeOK
  <2>6. ASSUME NEW place, call[t].request = None, GoTo(t, place)
        PROVE  call' = [call EXCEPT ![t] = [call[t] EXCEPT !.at = place, !.request = None]]
    BY <2>5, <2>6 DEF GoTo
  <2>7. CASE LookForPending(t)
    <3>1. call[t].at = "admitted" /\ call[t].request = None
      BY <2>7 DEF LookForPending, Core, CallsInv
    <3>2. CASE pending[call[t].creator] = None
      <4>1. GoTo(t, "unqueued")
        BY <2>7, <3>2 DEF LookForPending
      <4> QED
        BY <2>4, <2>6, <2>7, <3>1, <3>2, <4>1 DEF LookForPending
    <3>3. CASE pending[call[t].creator] # None
      <4>1. GoTo(t, "found")
        BY <2>7, <3>3 DEF LookForPending
      <4> QED
        BY <2>4, <2>6, <2>7, <3>1, <3>3, <4>1 DEF LookForPending
    <3> QED
      BY <3>2, <3>3
  <2>8. CASE GetPending(t)
    <3> DEFINE r == pending[call[t].creator]
    <3>1. call[t].at = "found"
      BY <2>8 DEF GetPending
    <3>2. OnLoopOnly => r # None
      BY <3>1 DEF Core, OnLoop
    <3>3. CASE r = None
      <4>1. call' = [call EXCEPT ![t] = [call[t] EXCEPT !.at = "raised", !.request = r]]
        BY <2>5, <2>8, <3>3 DEF GetPending
      <4> QED
        BY <2>4, <2>8, <3>1, <3>3, <4>1 DEF GetPending
    <3>4. CASE r # None
      <4>1. call' = [call EXCEPT ![t] = [call[t] EXCEPT !.at = "holding", !.request = r]]
        BY <2>5, <2>8, <3>4 DEF GetPending
      <4> QED
        BY <2>4, <2>8, <3>1, <3>4, <4>1 DEF GetPending
    <3> QED
      BY <3>3, <3>4
  <2>9. CASE /\ LookAtCurrent(t) \/ CompareCurrent(t)
             /\ NewRequest(t, Fresh)
    <3>1. /\ call[t].at \in {"unqueued", "comparing"}
          /\ UNCHANGED <<scene, admits, queue, current, worker, getter, owed, refused>>
      BY <2>9 DEF LookAtCurrent, CompareCurrent
    <3>2. Fresh \in Requests /\ request[Fresh] = None /\ \A u \in Callers : call[u].request # Fresh
      BY <3>1, FreshIsFresh
    <3> QED
      BY <2>9, <3>1, <3>2, CallMakesRequest
  <2>10. ASSUME NEW place \in {"comparing", "raised"}, GoTo(t, place), UNCHANGED <<request, pending>>,
                LookAtCurrent(t) \/ CompareCurrent(t)
         PROVE  Core'
    <3>1. /\ call[t].at \in {"unqueued", "comparing"} /\ call[t].request = None
          /\ UNCHANGED <<scene, admits, queue, current, worker, getter, owed, refused>>
          /\ OnLoopOnly => pending[call[t].creator] = None
      BY <2>10 DEF LookAtCurrent, CompareCurrent, Core, CallsInv, OnLoop
    <3> QED
      BY <2>4, <2>6, <2>10, <3>1
  <2>11. CASE LookAtCurrent(t)
    BY <2>9, <2>10, <2>11 DEF LookAtCurrent
  <2>12. CASE CompareCurrent(t)
    BY <2>3, <2>9, <2>10, <2>12 DEF CompareCurrent
  <2> QED
    BY <1>2, <2>1, <2>2, <2>3, <2>7, <2>8, <2>11, <2>12 DEF CallStep
<1>3. ASSUME \/ \E c \in Creators : ChangeAdmission(c)
             \/ FindEmpty \/ Register
             \/ UNCHANGED vars
      PROVE  Core'
  <2>1. /\ UNCHANGED <<scene, request, pending, queue, current, worker, call, owed, refused>>
        /\ admits' \in [Creators -> Admissions]
        /\ getter' \in {"none", "registering", "registered"}
    BY <1>0, <1>3 DEF ChangeAdmission, FindEmpty, Register, vars, memory, Core, TypeOK
  <2>2. Putting' = Putting
    BY <2>1 DEF Putting
  <2>3. TypeOK' /\ Owned' /\ Current'
    BY <1>0, <2>1, <2>2 DEF Core, TypeOK, Owned, Current
  <2>4. CallsInv' /\ PendingIsOnItsWay' /\ OnLoop' /\ OwedInv'
    BY <1>0, <2>1 DEF Core, CallsInv, PendingIsOnItsWay, OnItsWay, OnLoop, OwedInv, OnLoopOnly
  <2> QED
    BY <2>3, <2>4 DEF Core
<1>4. CASE WorkerStep
  <2>1. CASE Refuse
    <3>1. worker.at = "taken" /\ current = None
      BY <1>0, <2>1 DEF Refuse, Core, Current
    <3> QED
      BY <1>0, <2>1, <3>1, WorkerIsDone DEF Refuse, Core, TypeOK
  <2>2. ASSUME NEW expired \in BOOLEAN, Finish(expired)
        PROVE  Core'
    <3>1. admits' \in [Creators -> Admissions]
      BY <1>0, <2>2 DEF Finish, Core, TypeOK, Admissions
    <3>2. refused \subseteq refused' /\ refused' \subseteq owed /\ worker.at = "scanning"
      BY <1>0, <2>2 DEF Finish, Core, TypeOK
    <3> QED
      BY <1>0, <2>2, <3>1, <3>2, WorkerIsDone DEF Finish
  <2> QED
    BY <1>0, <1>3, <1>4, <2>1, <2>2, WorkerTakes, WorkerGoesOn DEF WorkerStep
<1>5. CASE Restart
  <2>1. TypeOK'
    BY <1>0, <1>5 DEF Restart, Core, TypeOK, Waiting, NoCall
  <2>2. /\ \A t \in Callers : call'[t].at = "idle" /\ call'[t].request = None
        /\ worker'.at = "waiting" /\ worker'.request = None
        /\ DOMAIN queue' = {} /\ current' = None /\ owed' = {} /\ refused' = {} /\ UNCHANGED scene
        /\ \A c \in Creators : pending'[c] = None
    BY <1>5 DEF Restart, Waiting, NoCall
  <2>3. Putting' = {}
    BY <2>2 DEF Putting
  <2>4. Owned' /\ Current'
    BY <2>2, <2>3 DEF Owned, Current
  <2>5. CallsInv' /\ PendingIsOnItsWay' /\ OnLoop' /\ OwedInv'
    BY <2>2, ScanQueueAssumption DEF CallsInv, PendingIsOnItsWay, OnLoop, OwedInv, ScanQueueAssumption
  <2> QED
    BY <2>1, <2>4, <2>5 DEF Core
<1> QED
  BY <1>1, <1>2, <1>3, <1>4, <1>5 DEF Next

-------------------------------------------------------------------------------
\* There is room left while objects in use and calls under way only get fewer.
LEMMA RoomShrinks ==
  ASSUME RoomInv, InUse' \subseteq InUse, Undecided' \subseteq Undecided
  PROVE  RoomInv'
<1>1. IsFiniteSet(InUse) /\ IsFiniteSet(Undecided) /\ IsFiniteSet(Callers)
  <2>1. InUse \subseteq Requests /\ Undecided \subseteq Callers
    BY DEF InUse, Undecided
  <2> QED
    BY <2>1, FS_Subset, ScanQueueAssumption DEF ScanQueueAssumption
<1>2. /\ Cardinality(InUse') \in Nat /\ Cardinality(InUse') <= Cardinality(InUse)
      /\ Cardinality(Undecided') \in Nat /\ Cardinality(Undecided') <= Cardinality(Undecided)
  BY <1>1, FS_Subset, FS_CardinalityType
<1>3. Cardinality(InUse) \in Nat /\ Cardinality(Undecided) \in Nat /\ Cardinality(Callers) \in Nat
  BY <1>1, FS_CardinalityType
<1> QED
  BY <1>2, <1>3 DEF RoomInv

\* A call that makes a request was counted before it was made.
LEMMA RoomForRequest ==
  ASSUME IInv, NEW t \in Callers, call[t].at \in {"unqueued", "comparing"}, NewRequest(t, Fresh)
  PROVE  RoomInv'
<1>1. Fresh \in Requests
  BY FreshIsFresh
<1>2. InUse' \subseteq InUse \cup {Fresh}
  BY DEF InUse, NewRequest, IInv, Core, TypeOK
<1>3. Undecided' \subseteq Undecided \ {t} /\ t \in Undecided
  <2>1. call'[t].at = "putting" /\ \A u \in Callers \ {t} : call'[u] = call[u]
    BY DEF NewRequest, IInv, Core, TypeOK
  <2> QED
    BY <2>1 DEF Undecided
<1>4. IsFiniteSet(InUse) /\ IsFiniteSet(Undecided) /\ IsFiniteSet(Callers)
  <2>1. InUse \subseteq Requests /\ Undecided \subseteq Callers
    BY DEF InUse, Undecided
  <2> QED
    BY <2>1, FS_Subset, ScanQueueAssumption DEF ScanQueueAssumption
<1>5. /\ IsFiniteSet(InUse \cup {Fresh})
      /\ Cardinality(InUse \cup {Fresh}) <= Cardinality(InUse) + 1
  <2>1. ASSUME NEW S, IsFiniteSet(S), NEW r
        PROVE  IsFiniteSet(S \cup {r}) /\ Cardinality(S \cup {r}) <= Cardinality(S) + 1
    <3>1. Cardinality(S) \in Nat
      BY <2>1, FS_CardinalityType
    <3>2. CASE r \in S
      <4>1. S \cup {r} = S
        BY <3>2
      <4>2. Cardinality(S) <= Cardinality(S) + 1
        BY <3>1
      <4> QED
        BY <2>1, <4>1, <4>2
    <3>3. CASE r \notin S
      <4>1. IsFiniteSet(S \cup {r}) /\ Cardinality(S \cup {r}) = Cardinality(S) + 1
        BY <2>1, <3>3, FS_AddElement
      <4> QED
        BY <3>1, <4>1
    <3> QED
      BY <3>2, <3>3
  <2> QED
    BY <1>4, <2>1
<1>6. /\ IsFiniteSet(Undecided \ {t})
      /\ Cardinality(Undecided \ {t}) = Cardinality(Undecided) - 1
  BY <1>3, <1>4, FS_RemoveElement
<1>7. /\ Cardinality(InUse') \in Nat /\ Cardinality(InUse') <= Cardinality(InUse \cup {Fresh})
      /\ Cardinality(Undecided') \in Nat /\ Cardinality(Undecided') <= Cardinality(Undecided \ {t})
  BY <1>2, <1>3, <1>5, <1>6, FS_Subset, FS_CardinalityType
<1>8. /\ Cardinality(InUse) \in Nat /\ Cardinality(Undecided) \in Nat /\ Cardinality(Callers) \in Nat
      /\ Cardinality(InUse \cup {Fresh}) \in Nat
  BY <1>4, <1>5, FS_CardinalityType
<1> QED
  BY <1>5, <1>6, <1>7, <1>8 DEF IInv, RoomInv

\* A call begins only when there is room for it (the bound Room).
LEMMA RoomForCall ==
  ASSUME IInv, NEW t \in Callers, NEW c \in Creators, NEW full, NEW automatic,
         Ask(t, c, full, automatic)
  PROVE  RoomInv'
<1> DEFINE Busy == {u \in Callers : call[u].at # "idle"}
<1>1. InUse' = InUse
  BY DEF Ask, InUse
<1>2. Undecided' \subseteq Busy \cup {t}
  BY DEF Undecided, Ask, IInv, Core, TypeOK
<1>3. Cardinality(InUse) + Cardinality(Busy) <= Cardinality(scene.callers)
  BY DEF Ask, Room, InUse
<1>4. /\ IsFiniteSet(InUse) /\ IsFiniteSet(Busy) /\ IsFiniteSet(Callers) /\ IsFiniteSet(scene.callers)
      /\ Cardinality(scene.callers) <= Cardinality(Callers)
  <2>1. InUse \subseteq Requests /\ Busy \subseteq Callers /\ scene.callers \subseteq Callers
    BY DEF InUse, IInv, Core, TypeOK
  <2> QED
    BY <2>1, FS_Subset, ScanQueueAssumption DEF ScanQueueAssumption
<1> HIDE DEF Busy
<1>5. /\ IsFiniteSet(Busy \cup {t})
      /\ Cardinality(Busy \cup {t}) <= Cardinality(Busy) + 1
  <2>1. /\ IsFiniteSet(Busy \cup {t})
        /\ t \in Busy => Busy \cup {t} = Busy
        /\ t \notin Busy => Cardinality(Busy \cup {t}) = Cardinality(Busy) + 1
    BY <1>4, FS_AddElement
  <2>2. Cardinality(Busy) \in Nat
    BY <1>4, FS_CardinalityType
  <2>3. CASE t \in Busy
    <3>1. Busy \cup {t} = Busy
      BY <2>3
    <3> QED
      BY <2>1, <2>2, <3>1
  <2> QED
    BY <2>1, <2>2, <2>3
<1>6. Cardinality(Undecided') \in Nat /\ Cardinality(Undecided') <= Cardinality(Busy \cup {t})
  BY <1>2, <1>5, FS_Subset, FS_CardinalityType
<1>7. /\ Cardinality(InUse) \in Nat /\ Cardinality(Busy) \in Nat /\ Cardinality(Callers) \in Nat
      /\ Cardinality(Busy \cup {t}) \in Nat /\ Cardinality(scene.callers) \in Nat
  BY <1>4, <1>5, FS_CardinalityType
<1> QED
  BY <1>1, <1>3, <1>4, <1>5, <1>6, <1>7 DEF RoomInv

LEMMA RoomStep ==
  ASSUME IInv, [Next]_vars
  PROVE  RoomInv'
<1>0. Core /\ RoomInv
  BY DEF IInv
<1>1. ASSUME NEW t \in Callers, CallStep(t)
      PROVE  RoomInv'
  <2>1. CASE /\ LookAtCurrent(t) \/ CompareCurrent(t)
             /\ NewRequest(t, Fresh)
    BY <2>1, RoomForRequest DEF LookAtCurrent, CompareCurrent
  <2>2. CASE Upgrade(t)
    <3>1. InUse' = InUse
      BY <1>0, <2>2, CallUpgrades DEF InUse
    <3>2. Undecided' \subseteq Undecided
      BY <1>0, <2>2 DEF Upgrade, Return, NoCall, Undecided, Core, TypeOK
    <3> QED
      BY <1>0, <3>1, <3>2, RoomShrinks
  <2>3. CASE /\ UNCHANGED request
             /\ call[t].at # "idle"
             /\ \A u \in Callers \ {t} : call'[u] = call[u]
             /\ call[t].at = "putting" => call'[t].at = "idle"
    <3>1. InUse' = InUse
      BY <2>3 DEF InUse
    <3>2. Undecided' \subseteq Undecided
      BY <2>3 DEF Undecided
    <3> QED
      BY <1>0, <3>1, <3>2, RoomShrinks
  <2>4. CASE LookForPending(t) \/ GetPending(t) \/ Put(t) \/ Raise(t)
    <3>1. /\ UNCHANGED request /\ call[t].at # "idle"
          /\ call[t].at = "putting" => call'[t] = NoCall
          /\ \A u \in Callers \ {t} : call'[u] = call[u]
      BY <1>0, <2>4 DEF LookForPending, GetPending, Put, Raise, GoTo, Return, Core, TypeOK
    <3> QED
      BY <2>3, <3>1 DEF NoCall
  <2>5. CASE LookAtCurrent(t) \/ CompareCurrent(t)
    <3>1. \/ NewRequest(t, Fresh)
          \/ UNCHANGED request /\ (Return(t) \/ GoTo(t, "comparing") \/ GoTo(t, "raised"))
      BY <2>5 DEF LookAtCurrent, CompareCurrent
    <3>2. call[t].at \in {"unqueued", "comparing"}
      BY <2>5 DEF LookAtCurrent, CompareCurrent
    <3>3. CASE UNCHANGED request /\ (Return(t) \/ GoTo(t, "comparing") \/ GoTo(t, "raised"))
      <4>1. \A u \in Callers \ {t} : call'[u] = call[u]
        BY <1>0, <3>3 DEF Return, GoTo, Core, TypeOK
      <4> QED
        BY <2>3, <3>2, <3>3, <4>1
    <3> QED
      BY <2>1, <2>5, <3>1, <3>3
  <2> QED
    BY <1>1, <2>2, <2>4, <2>5 DEF CallStep
<1>2. ASSUME UNCHANGED call, \A q \in Requests : request'[q] = request[q] \/ request'[q] = None
      PROVE  RoomInv'
  <2>1. InUse' \subseteq InUse /\ Undecided' = Undecided
    BY <1>2 DEF InUse, Undecided
  <2> QED
    BY <1>0, <2>1, RoomShrinks
<1>3. CASE WorkerStep
  <2>1. UNCHANGED call /\ (UNCHANGED request \/ Done)
    BY <1>3 DEF WorkerStep, FindEmpty, Register, Take, Admit, Refuse, Begin, Finish
  <2>2. \A q \in Requests : request'[q] = request[q] \/ request'[q] = None
    BY <1>0, <2>1 DEF Done, Core, TypeOK
  <2> QED
    BY <1>2, <2>1, <2>2
<1>4. CASE (\E c \in Creators : ChangeAdmission(c)) \/ UNCHANGED vars
  BY <1>2, <1>4 DEF ChangeAdmission, vars, memory
<1>5. CASE Restart
  <2>1. InUse' = {} /\ Undecided' = {}
    BY <1>5 DEF Restart, NoCall, InUse, Undecided
  <2> QED
    BY <1>0, <2>1, RoomShrinks
<1> QED
  BY <1>1, <1>3, <1>4, <1>5, RoomForCall DEF Next

LEMMA InitIInv == Init => IInv
<1> SUFFICES ASSUME Init PROVE IInv
  OBVIOUS
<1>1. TypeOK
  BY DEF Init, TypeOK, Waiting, NoCall
<1>2. /\ \A t \in Callers : call[t].at = "idle" /\ call[t].request = None
      /\ worker.at = "waiting" /\ worker.request = None
      /\ DOMAIN queue = {} /\ current = None /\ owed = {} /\ refused = {}
      /\ \A c \in Creators : pending[c] = None
      /\ \A r \in Requests : request[r] = None
  BY DEF Init, Waiting, NoCall
<1>3. Putting = {} /\ InUse = {} /\ Undecided = {}
  BY <1>2 DEF Putting, InUse, Undecided
<1>4. Owned /\ Current
  BY <1>2, <1>3 DEF Owned, Current
<1>5. CallsInv /\ PendingIsOnItsWay /\ OnLoop /\ OwedInv
  BY <1>2, ScanQueueAssumption DEF CallsInv, PendingIsOnItsWay, OnLoop, OwedInv, ScanQueueAssumption
<1>6. RoomInv
  <2>1. Cardinality({}) = 0 /\ Cardinality(Callers) \in Nat
    BY FS_EmptySet, FS_CardinalityType, ScanQueueAssumption DEF ScanQueueAssumption
  <2> QED
    BY <1>3, <2>1 DEF RoomInv
<1> QED
  BY <1>1, <1>4, <1>5, <1>6 DEF IInv, Core

\* The inductive invariant: request_scan's and the worker's bookkeeping.
THEOREM BookkeepingHolds == Spec => []IInv
<1>1. IInv /\ [Next]_vars => IInv'
  BY CoreStep, RoomStep DEF IInv
<1> QED
  BY InitIInv, <1>1, PTL DEF Spec

\* What request_scan reads of _pending, _current and the queue tells what there
\* is (scan_manager.py:76): no entry outlives its request, and none is missed.
THEOREM EntriesAlwaysLive == Spec => []EntriesAreLive
<1>1. IInv => EntriesAreLive
  <2> SUFFICES ASSUME IInv PROVE EntriesAreLive
    OBVIOUS
  <2>1. PendingIsOnItsWay
    BY DEF IInv, Core
  <2>2. CurrentIsScanned
    <3>1. worker.at = "scanning" => worker.request # None
      BY DEF IInv, Core, Owned
    <3> QED
      BY <3>1 DEF IInv, Core, Current, CurrentIsScanned
  <2>3. QueuedIsPending
    BY DEF IInv, Core, OnLoop, QueuedIsPending
  <2> QED
    BY <2>1, <2>2, <2>3 DEF EntriesAreLive
<1> QED
  BY BookkeepingHolds, <1>1, PTL

\* A full scan that a pending request took on is still to come until one is
\* begun, unless admission refused the request once it was full: the upgrade of
\* its mode reaches a request that no scan has read yet, and no request is
\* dropped in another way.
THEOREM FullAlwaysKept == Spec => []FullIsKept
<1>1. IInv => FullIsKept
  <2> SUFFICES ASSUME IInv, OnLoopOnly, NEW c \in owed \ refused
               PROVE  \E r \in ToSet(queue) \cup {worker.request} :
                        r # None /\ request[r] # None /\ request[r].creator = c /\ request[r].full
    BY DEF FullIsKept
  <2>1. PICK r \in Requests :
          /\ r \in ToSet(queue) \/ (worker.at \in {"taken", "admitted"} /\ r = worker.request)
          /\ request[r] # None /\ request[r].creator = c /\ request[r].full
    BY DEF IInv, Core, OwedInv
  <2>2. r # None
    BY ScanQueueAssumption DEF ScanQueueAssumption
  <2> QED
    BY <2>1, <2>2
<1> QED
  BY BookkeepingHolds, <1>1, PTL

-------------------------------------------------------------------------------
(* One scan. *)

\* A source lists the posts 1..n for some n, and what is stored or was listed
\* when the scan began is listed still.
FeedInv ==
  /\ \A s \in Sources : \A p, q \in Posts : p < q /\ remote[s][q] # 0 => remote[s][p] # 0
  /\ \A s \in Sources, p \in Posts : known[s][p] # 0 => remote[s][p] # 0
  /\ \A s \in Sources, p \in Posts : horizon[s][p] <= remote[s][p]

\* The listing was asked for up to here, and read up to there.
Asked == IF scan.read THEN Len(scan.listing) + 1 ELSE scan.cursor
Reached == Asked + Len(scan.page)

\* What was listed and isn't stored yet are the posts below Reached, one after
\* the other ...
Descending(entries, low) ==
  \A i \in DOMAIN entries : entries[i].post = low + Len(entries) - i

\* ... as they were when the scan began or newer.
StillListed(entries) ==
  \A i \in DOMAIN entries :
    /\ remote[scan.source][entries[i].post] # 0
    /\ horizon[scan.source][entries[i].post] <= entries[i].edition

ListedInv ==
  /\ at \in {"starting", "fetching"} => scan.page = <<>>
  /\ scan.read => scan.source \in Whole
  /\ ~scan.read => scan.listing = <<>>
  /\ ~scan.read /\ scan.source \in Whole => scan.cursor = NumPosts + 1
  /\ ~scan.read /\ scan.cursor <= NumPosts => remote[scan.source][scan.cursor] # 0
  /\ at = "page" => scan.read \/ scan.source \notin Whole
  /\ at = "starting" => scan.source = 1 /\ ~scan.read /\ scan.cursor = NumPosts + 1
  /\ Descending(scan.listing, 1) /\ Descending(scan.page, Asked)
  /\ StillListed(scan.listing) /\ StillListed(scan.page)

\* No post is missing between those from `low` on that are stored.
Solid(stored, low) ==
  \A p, q \in Posts : low <= p /\ p < q /\ stored[q] # 0 => stored[p] # 0

\* A source the scan is done with
Covered(s) ==
  /\ scan.mode = "full" => \A p \in Posts : known[s][p] >= horizon[s][p]
  /\ scan.mode = "full" \/ whole =>
       /\ Solid(known[s], 1)
       /\ \A p \in Posts : horizon[s][p] # 0 => known[s][p] # 0

\* The source that is scanned: its posts from low on are stored, those below
\* are as they were, and the last one was stored before if any is counted.
Partial(s, low) ==
  /\ \A p \in Posts : p < low => known[s][p] = before[s][p]
  /\ \A p \in Posts : p >= low => known[s][p] >= horizon[s][p]
  /\ Solid(known[s], low)
  /\ scan.consecutive > 0 => low <= NumPosts /\ before[s][low] # 0

Underway ==
  /\ ~deleted
  /\ \/ at \in {"starting", "fetching", "page"}
     \/ at = "finishing" /\ scan.outcome = "ok"

ProgressInv ==
  Underway =>
    /\ creator = scan.creator /\ creator # Absent
    /\ \A s \in Sources : s < scan.source \/ at = "finishing" => Covered(s)
    /\ at # "finishing" =>
         /\ Partial(scan.source, Reached)
         /\ \A s \in Sources : s > scan.source => known[s] = before[s]

\* The sources are stored without a gap while `whole` says so.
WholeInv ==
  /\ deleted => ~whole
  /\ at = "checking" => scan.outcome = "error"
  /\ at \in {"idle", "down"} => ~deleted
  /\ whole => \A s \in Sources :
       IF at \in {"idle", "down"} THEN Solid(known[s], 1) ELSE Solid(before[s], 1)

RunInv ==
  /\ RunTypeOK
  /\ FeedInv
  /\ ListedInv
  /\ ProgressInv
  /\ WholeInv
  /\ NoOrphanRun
-------------------------------------------------------------------------------
(* Numbers, listings and pages. *)

LEMMA Bounds ==
  /\ NumSources \in Nat /\ NumPosts \in Nat /\ NumOthers \in Nat
  /\ PageSize \in Nat /\ Overlap \in Nat /\ MaxCreators \in Nat
  /\ NumSources >= 1 /\ NumPosts >= 1 /\ NumOthers >= 1
  /\ PageSize >= 1 /\ Overlap >= 1 /\ MaxCreators >= 1
  /\ MaxEdits \in Nat /\ MaxRestarts \in Nat
  /\ NumOthers <= NumPosts
BY ScanRunAssumption DEF ScanRunAssumption

LEMMA MinOfTwo ==
  ASSUME NEW a \in Int, NEW b \in Int
  PROVE  Min({a, b}) = IF a <= b THEN a ELSE b
<1>1. PICK x \in {a, b} : \A y \in {a, b} : x =< y
  OBVIOUS
<1>2. Min({a, b}) \in {a, b} /\ \A y \in {a, b} : Min({a, b}) =< y
  BY <1>1 DEF Min
<1> QED
  BY <1>2

\* A set of numbers that isn't empty has a least one ...
LEMMA Least ==
  ASSUME NEW S \in SUBSET Nat, S # {}
  PROVE  \E x \in S : \A y \in S : x <= y
<1>1. \E x \in S : \A y \in S : ~(<<y, x>> \in OpToRel(<, Nat))
  BY NatLessThanWellFounded, WFMin
<1>2. PICK x \in S : \A y \in S : ~(<<y, x>> \in OpToRel(<, Nat))
  BY <1>1
<1>3. ASSUME NEW y \in S, y < x PROVE FALSE
  <2>1. <<y, x>> \in Nat \X Nat
    OBVIOUS
  <2>2. <<y, x>> \in OpToRel(<, Nat)
    BY <2>1, <1>3 DEF OpToRel
  <2> QED
    BY <1>2, <2>2
<1> QED
  BY <1>3

\* ... and one that is bounded has a greatest.
LEMMA Greatest ==
  ASSUME NEW n \in Nat, NEW S \in SUBSET (1 .. n), S # {}
  PROVE  \E x \in S : \A y \in S : y <= x
<1> DEFINE T == {n - x : x \in S}
<1>1. T \subseteq Nat /\ T # {}
  <2>1. PICK x \in S : TRUE
    OBVIOUS
  <2>2. n - x \in T
    OBVIOUS
  <2>3. \A y \in S : n - y \in Nat
    OBVIOUS
  <2> QED
    BY <2>2, <2>3
<1>2. PICK t \in T : \A u \in T : t <= u
  <2> HIDE DEF T
  <2> QED
    BY <1>1, Least
<1>3. PICK x \in S : t = n - x
  OBVIOUS
<1>4. \A y \in S : n - x <= n - y
  BY <1>2, <1>3
<1> QED
  BY <1>4

\* A source lists the posts up to its newest.
LEMMA NewestIs ==
  ASSUME RunTypeOK, FeedInv, NEW s \in Sources
  PROVE  /\ Newest(s) \in 0 .. NumPosts
         /\ \A p \in Posts : remote[s][p] # 0 <=> p <= Newest(s)
<1> DEFINE Unlisted == {p \in Posts : remote[s][p] = 0}
<1>1. \E n \in 0 .. NumPosts : \A p \in Posts : remote[s][p] # 0 <=> p <= n
  <2>1. CASE Unlisted = {}
    <3>1. NumPosts \in 0 .. NumPosts
      BY Bounds
    <3>2. \A p \in Posts : remote[s][p] # 0 <=> p <= NumPosts
      BY <2>1, Bounds DEF Posts
    <3> QED
      BY <3>1, <3>2
  <2>2. CASE Unlisted # {}
    <3>1. Unlisted \subseteq Nat
      BY Bounds DEF Posts
    <3>2. PICK x \in Unlisted : \A y \in Unlisted : x <= y
      <4> HIDE DEF Unlisted
      <4> QED
        BY <2>2, <3>1, Least
    <3>3. x \in Posts /\ remote[s][x] = 0 /\ x - 1 \in 0 .. NumPosts
      BY Bounds DEF Posts
    <3>4. ASSUME NEW p \in Posts PROVE remote[s][p] # 0 <=> p <= x - 1
      <4>1. ASSUME p <= x - 1 PROVE remote[s][p] # 0
        BY <3>2, <3>3, <4>1, Bounds DEF Posts
      <4>2. ASSUME p > x - 1 PROVE remote[s][p] = 0
        BY <3>3, <4>2, Bounds DEF Posts, FeedInv
      <4> QED
        BY <3>3, <4>1, <4>2, Bounds DEF Posts
    <3> QED
      BY <3>3, <3>4
  <2> QED
    BY <2>1, <2>2
<1> QED
  BY <1>1 DEF Newest

\* What a source lists below a cursor: all posts there are, without a gap.
LEMMA ListingIs ==
  ASSUME RunTypeOK, FeedInv, NEW s \in Sources, NEW cursor \in 1 .. NumPosts + 1
  PROVE  /\ Listing(s, cursor) \in Seq(Entry)
         /\ Len(Listing(s, cursor)) = IF cursor - 1 <= Newest(s) THEN cursor - 1 ELSE Newest(s)
         /\ \A i \in 1 .. Len(Listing(s, cursor)) :
              /\ Listing(s, cursor)[i].post = Len(Listing(s, cursor)) + 1 - i
              /\ Listing(s, cursor)[i].post \in Posts
              /\ Listing(s, cursor)[i].post <= Newest(s)
              /\ Listing(s, cursor)[i].edition = remote[s][Listing(s, cursor)[i].post]
<1> DEFINE newest == Min({cursor - 1, Newest(s)})
           Older(i) == newest + 1 - i
           listing == [i \in 1 .. newest |-> [post |-> Older(i), edition |-> remote[s][Older(i)]]]
<1>1. /\ Newest(s) \in 0 .. NumPosts
      /\ \A p \in Posts : remote[s][p] # 0 <=> p <= Newest(s)
  BY NewestIs
<1>2. newest = IF cursor - 1 <= Newest(s) THEN cursor - 1 ELSE Newest(s)
  BY <1>1, MinOfTwo
<1>3. newest \in 0 .. NumPosts /\ newest <= Newest(s)
  BY <1>1, <1>2, Bounds
<1>4. Listing(s, cursor) = listing
  BY DEF Listing
<1> HIDE DEF newest
<1>5. ASSUME NEW i \in 1 .. newest
      PROVE  /\ Older(i) \in Posts
             /\ Older(i) <= Newest(s)
             /\ remote[s][Older(i)] \in 1 .. 2
  <2>1. Older(i) \in Posts /\ Older(i) <= Newest(s)
    BY <1>1, <1>3, Bounds DEF Posts
  <2>2. remote[s][Older(i)] \in 0 .. 2 /\ remote[s][Older(i)] # 0
    BY <1>1, <2>1 DEF RunTypeOK, Editions
  <2> QED
    BY <2>1, <2>2
<1>6. listing \in [1 .. newest -> Entry]
  BY <1>5 DEF Entry
<1>7. listing \in Seq(Entry) /\ Len(listing) = newest
  BY <1>3, <1>6
<1>8. \A i \in 1 .. newest : listing[i].post = Older(i) /\ listing[i].edition = remote[s][Older(i)]
  OBVIOUS
<1> HIDE DEF listing
<1> QED
  BY <1>2, <1>4, <1>5, <1>7, <1>8

\* A page is the beginning of a listing.
LEMMA CutIs ==
  ASSUME NEW listing \in Seq(Entry)
  PROVE  /\ Cut(listing) \in Seq(Entry)
         /\ Len(Cut(listing)) = IF PageSize <= Len(listing) THEN PageSize ELSE Len(listing)
         /\ Len(Cut(listing)) <= Len(listing)
         /\ \A i \in 1 .. Len(Cut(listing)) : Cut(listing)[i] = listing[i]
         /\ Cut(listing) = <<>> <=> listing = <<>>
<1> DEFINE n == Min({PageSize, Len(listing)})
<1>1. n = IF PageSize <= Len(listing) THEN PageSize ELSE Len(listing)
  BY MinOfTwo, Bounds
<1>2. n \in 0 .. Len(listing) /\ (n = 0 => Len(listing) = 0)
  BY <1>1, Bounds
<1>3. Cut(listing) = SubSeq(listing, 1, n)
  BY DEF Cut
<1> HIDE DEF n
<1>4. \A i \in 1 .. n : listing[i] \in Entry
  BY <1>2
<1>5. /\ SubSeq(listing, 1, n) \in Seq(Entry)
      /\ Len(SubSeq(listing, 1, n)) = n
      /\ \A i \in 1 .. n : SubSeq(listing, 1, n)[i] = listing[i]
  BY <1>2, <1>4, SubSeqProperties
<1>6. \A q \in Seq(Entry) : q = <<>> <=> Len(q) = 0
  BY EmptySeq
<1> QED
  BY <1>1, <1>2, <1>3, <1>5, <1>6

-------------------------------------------------------------------------------
(* What goes on around the scan. *)

LEMMA NoScanIs ==
  /\ NoScan \in Scan
  /\ NoScan.creator = Absent /\ NoScan.mode = "full" /\ NoScan.source = 1
  /\ NoScan.cursor = NumPosts + 1 /\ NoScan.read = FALSE
  /\ NoScan.listing = <<>> /\ NoScan.page = <<>>
  /\ NoScan.consecutive = 0 /\ NoScan.outcome = "ok"
<1>1. <<>> \in Seq(Entry) /\ NumPosts + 1 \in 1 .. NumPosts + 1 /\ 1 \in Sources
  BY Bounds DEF Sources
<1> QED
  BY <1>1 DEF NoScan, Scan, Outcomes

\* Nothing is listed or counted yet when a source is begun.
Blank(fresh) ==
  /\ fresh \in Scan
  /\ fresh.cursor = NumPosts + 1 /\ fresh.read = FALSE
  /\ fresh.listing = <<>> /\ fresh.page = <<>>
  /\ fresh.consecutive = 0 /\ fresh.outcome = "ok"

Begun(c, m) == [NoScan EXCEPT !.creator = c, !.mode = m]
BegunAt(c, m, s) == [NoScan EXCEPT !.creator = c, !.mode = m, !.source = s]

LEMMA BegunIsBlank ==
  ASSUME NEW c \in 1 .. MaxCreators \cup {Absent}, NEW m \in {"full", "incremental"},
         NEW s \in Sources
  PROVE  /\ Blank(Begun(c, m)) /\ Begun(c, m).creator = c
         /\ Begun(c, m).mode = m /\ Begun(c, m).source = 1
         /\ Blank(BegunAt(c, m, s)) /\ BegunAt(c, m, s).creator = c
         /\ BegunAt(c, m, s).mode = m /\ BegunAt(c, m, s).source = s
<1> DEFINE named == [NoScan EXCEPT !.creator = c]
           begun == [named EXCEPT !.mode = m]
           next == [begun EXCEPT !.source = s]
<1>1. Blank(NoScan) /\ NoScan.mode = "full" /\ NoScan.source = 1
  BY NoScanIs DEF Blank
<1>2. Blank(named) /\ named.creator = c /\ named.mode = "full" /\ named.source = 1
  BY <1>1 DEF Blank, Scan
<1> HIDE DEF named
<1>3. Blank(begun) /\ begun.creator = c /\ begun.mode = m /\ begun.source = 1
  BY <1>2 DEF Blank, Scan
<1> HIDE DEF begun
<1>4. Blank(next) /\ next.creator = c /\ next.mode = m /\ next.source = s
  BY <1>3 DEF Blank, Scan
<1>5. Begun(c, m) = begun /\ BegunAt(c, m, s) = next
  BY DEF Begun, BegunAt, named, begun
<1> HIDE DEF next
<1> QED
  BY <1>3, <1>4, <1>5

\* Nothing of a listing is left.
LEMMA EmptyIsListed ==
  ASSUME NEW low
  PROVE  Descending(<<>>, low) /\ StillListed(<<>>)
BY DEF Descending, StillListed

LEMMA InitRunInv == RunInit => RunInv
<1> SUFFICES ASSUME RunInit PROVE RunInv
  OBVIOUS
<1> USE DEF RunInit
<1>1. RunTypeOK
  <2>1. remote \in Editions /\ Nothing \in Editions
    BY DEF Editions, Nothing
  <2>2. creator \in 1 .. MaxCreators \cup {Absent}
    BY Bounds
  <2>3. edits \in 0 .. MaxEdits /\ restarts \in 0 .. MaxRestarts
    BY Bounds
  <2> QED
    BY <2>1, <2>2, <2>3, NoScanIs DEF RunTypeOK
<1>2. FeedInv
  BY Bounds DEF FeedInv, Nothing, Posts, Sources
<1>3. ListedInv
  BY NoScanIs, EmptyIsListed, Bounds DEF ListedInv
<1>4. ProgressInv
  BY DEF ProgressInv, Underway
<1>5. WholeInv
  BY DEF WholeInv
<1> QED
  BY <1>1, <1>2, <1>3, <1>4, <1>5 DEF RunInv, NoOrphanRun

\* A post that is published or edited is listed after, and the rest as before.
LEMMA FeedGrows ==
  ASSUME RunInv, remote' \in Editions, edits' \in 0 .. MaxEdits,
         \A s \in Sources, p \in Posts : remote[s][p] <= remote'[s][p],
         \A s \in Sources : \A p, q \in Posts : p < q /\ remote'[s][q] # 0 => remote'[s][p] # 0,
         UNCHANGED <<rows, progress, restarts, history>>
  PROVE  RunInv'
<1> USE DEF rows, progress, history
<1>1. RunTypeOK'
  BY DEF RunInv, RunTypeOK
<1>2. \A s \in Sources, p \in Posts :
        /\ remote[s][p] \in 0 .. 2 /\ remote'[s][p] \in 0 .. 2 /\ horizon[s][p] \in 0 .. 2
        /\ remote[s][p] # 0 => remote'[s][p] # 0
  BY DEF RunInv, RunTypeOK, Editions
<1>3. FeedInv'
  BY <1>2 DEF RunInv, FeedInv
<1>4. ListedInv'
  <2>1. ASSUME NEW entries \in Seq(Entry), StillListed(entries)
        PROVE  /\ \A i \in DOMAIN entries : remote'[scan.source][entries[i].post] # 0
               /\ \A i \in DOMAIN entries : horizon[scan.source][entries[i].post] <= entries[i].edition
    <3>1. \A i \in DOMAIN entries : entries[i].post \in Posts
      <4>1. \A i \in 1 .. Len(entries) : entries[i] \in Entry
        BY ElementOfSeq
      <4> QED
        BY <4>1 DEF Entry
    <3>2. scan.source \in Sources
      BY DEF RunInv, RunTypeOK, Scan
    <3> QED
      BY <2>1, <3>1, <3>2, <1>2 DEF StillListed
  <2>2. scan.listing \in Seq(Entry) /\ scan.page \in Seq(Entry)
    BY DEF RunInv, RunTypeOK, Scan
  <2>3. StillListed(scan.listing)' /\ StillListed(scan.page)'
    <3>1. StillListed(scan.listing) /\ StillListed(scan.page)
      BY DEF RunInv, ListedInv
    <3> QED
      BY <2>1, <2>2, <3>1 DEF StillListed
  <2>4. Descending(scan.listing, 1)' /\ Descending(scan.page, Asked)'
    BY DEF RunInv, ListedInv, Descending, Asked
  <2>5. (~scan.read /\ scan.cursor <= NumPosts => remote[scan.source][scan.cursor] # 0)'
    BY <1>2, Bounds DEF RunInv, ListedInv, RunTypeOK, Scan, Posts
  <2> QED
    BY <2>3, <2>4, <2>5 DEF RunInv, ListedInv
<1>5. ProgressInv'
  BY DEF RunInv, ProgressInv, Underway, Covered, Partial, Solid, Reached, Asked
<1>6. WholeInv' /\ NoOrphanRun'
  BY DEF RunInv, WholeInv, Solid, NoOrphanRun
<1> QED
  BY <1>1, <1>3, <1>4, <1>5, <1>6 DEF RunInv

LEMMA PublishStep ==
  ASSUME RunInv, NEW s \in Sources, Publish(s)
  PROVE  RunInv'
<1>1. PICK p \in 1 .. IF s = 1 THEN NumPosts ELSE NumOthers :
        /\ remote[s][p] = 0
        /\ \A q \in 1 .. p - 1 : remote[s][q] # 0
        /\ remote' = [remote EXCEPT ![s][p] = 1]
        /\ UNCHANGED <<edits, rows, progress, restarts, history>>
  BY DEF Publish
<1>2. p \in Posts
  BY Bounds DEF Posts
<1>3. remote \in Editions /\ edits \in 0 .. MaxEdits
  BY DEF RunInv, RunTypeOK
<1>4. remote' \in Editions
  BY <1>1, <1>2, <1>3 DEF Editions
<1>5. \A t \in Sources, q \in Posts :
        /\ remote'[t][q] = IF t = s /\ q = p THEN 1 ELSE remote[t][q]
        /\ remote[t][q] \in 0 .. 2
  BY <1>1, <1>2, <1>3 DEF Editions
<1>6. ASSUME NEW t \in Sources, NEW a \in Posts, NEW b \in Posts, a < b, remote'[t][b] # 0
      PROVE  remote'[t][a] # 0
  <2>1. CASE t = s /\ b = p
    <3>1. a \in 1 .. p - 1 /\ a # p
      BY <1>6, <2>1, Bounds DEF Posts
    <3> QED
      BY <2>1, <3>1, <1>1, <1>5
  <2>2. CASE ~(t = s /\ b = p)
    BY <2>2, <1>5, <1>6 DEF RunInv, FeedInv
  <2> QED
    BY <2>1, <2>2
<1>7. \A t \in Sources, q \in Posts : remote[t][q] <= remote'[t][q]
  BY <1>1, <1>5
<1> QED
  BY <1>1, <1>3, <1>4, <1>6, <1>7, FeedGrows

LEMMA EditStep ==
  ASSUME RunInv, NEW s \in Sources, NEW p \in Posts, Edit(s, p)
  PROVE  RunInv'
<1>1. remote \in Editions /\ edits \in 0 .. MaxEdits /\ edits < MaxEdits
  BY DEF RunInv, RunTypeOK, Edit
<1>2. /\ remote' = [remote EXCEPT ![s][p] = 2]
      /\ remote[s][p] = 1
      /\ edits' = edits + 1
      /\ UNCHANGED <<rows, progress, restarts, history>>
  BY DEF Edit
<1>3. remote' \in Editions /\ edits' \in 0 .. MaxEdits
  BY <1>1, <1>2, Bounds DEF Editions
<1>4. \A t \in Sources, q \in Posts :
        /\ remote'[t][q] = IF t = s /\ q = p THEN 2 ELSE remote[t][q]
        /\ remote[t][q] \in 0 .. 2
  BY <1>1, <1>2 DEF Editions
<1>5. \A t \in Sources : \A a, b \in Posts : a < b /\ remote'[t][b] # 0 => remote'[t][a] # 0
  <2> SUFFICES ASSUME NEW t \in Sources, NEW a \in Posts, NEW b \in Posts,
                      a < b, remote'[t][b] # 0
               PROVE  remote'[t][a] # 0
    OBVIOUS
  <2>1. remote[t][b] # 0
    BY <1>2, <1>4
  <2>2. remote[t][a] # 0
    BY <2>1 DEF RunInv, FeedInv
  <2> QED
    BY <2>2, <1>4
<1>6. \A t \in Sources, q \in Posts : remote[t][q] <= remote'[t][q]
  BY <1>2, <1>4
<1> QED
  BY <1>2, <1>3, <1>5, <1>6, FeedGrows

LEMMA CancelStep ==
  ASSUME RunInv, Cancel
  PROVE  RunInv'
<1>1. /\ cancel' \in BOOLEAN
      /\ UNCHANGED <<feed, rows, at, scan, restarts, history>>
  BY DEF Cancel
<1> QED
  BY SMTT(30), <1>1
     DEF feed, rows, history, RunInv, RunTypeOK, FeedInv, ListedInv, Descending, StillListed, Asked, ProgressInv,
         Underway, Covered, Partial, Solid, Reached, WholeInv, NoOrphanRun

\* A scan whose creator is deleted isn't one of a creator that is there.
LEMMA DeleteStep ==
  ASSUME RunInv, Delete
  PROVE  RunInv'
<1> USE DEF Delete, feed, progress
<1>1. RunTypeOK'
  <2>1. Nothing \in Editions
    BY DEF Nothing, Editions
  <2> QED
    BY <2>1 DEF RunInv, RunTypeOK
<1>2. FeedInv'
  BY DEF RunInv, FeedInv, Nothing
<1>3. ListedInv'
  BY DEF RunInv, ListedInv, Descending, StillListed, Asked
<1>4. ProgressInv'
  BY DEF ProgressInv, Underway
<1>5. WholeInv' /\ NoOrphanRun'
  BY DEF RunInv, WholeInv, NoOrphanRun
<1> QED
  BY <1>1, <1>2, <1>3, <1>4, <1>5 DEF RunInv

LEMMA AddStep ==
  ASSUME RunInv, NEW c \in 1 .. MaxCreators, Add(c)
  PROVE  RunInv'
<1> USE DEF Add, feed, progress, history
<1>1. RunTypeOK'
  BY DEF RunInv, RunTypeOK
<1>2. FeedInv' /\ ListedInv'
  BY DEF RunInv, FeedInv, ListedInv, Descending, StillListed, Asked
<1>3. ProgressInv'
  BY DEF RunInv, ProgressInv, Underway
<1>4. WholeInv' /\ NoOrphanRun'
  BY DEF RunInv, WholeInv, Solid, NoOrphanRun
<1> QED
  BY <1>1, <1>2, <1>3, <1>4 DEF RunInv

-------------------------------------------------------------------------------
(* How a scan begins and ends. *)

LEMMA StartRunStep ==
  ASSUME RunInv, NEW asked \in {"auto", "full", "incremental"}, StartRun(asked)
  PROVE  RunInv'
<1> DEFINE mode == IF asked # "auto" THEN asked ELSE IF fullDone THEN "incremental" ELSE "full"
<1>1. /\ at = "idle" /\ at' = "starting"
      /\ creator # Absent
      /\ run' = [status |-> "running", mode |-> mode]
      /\ scan' = [NoScan EXCEPT !.creator = creator, !.mode = mode]
      /\ cancel' = FALSE
      /\ before' = known
      /\ horizon' = remote
      /\ UNCHANGED <<remote, edits, known, creator, fullDone, restarts, whole, deleted, foreign>>
  BY DEF StartRun, feed
<1>2. mode \in {"full", "incremental"}
  OBVIOUS
<1> HIDE DEF mode
<1>3. creator \in 1 .. MaxCreators \cup {Absent} /\ 1 \in Sources
  BY Bounds DEF RunInv, RunTypeOK, Sources
<1>4. Blank(scan') /\ scan'.creator = creator /\ scan'.mode = mode /\ scan'.source = 1
  <2>1. scan' = Begun(creator, mode)
    BY <1>1 DEF Begun
  <2> QED
    BY <1>2, <1>3, <2>1, BegunIsBlank
<1>5. RunTypeOK'
  BY <1>1, <1>2, <1>4 DEF RunInv, RunTypeOK, Blank
<1>6. FeedInv'
  <2>1. \A s \in Sources, p \in Posts : remote[s][p] <= remote[s][p]
    BY SMTT(30) DEF RunInv, RunTypeOK, Editions
  <2> QED
    BY <1>1, <2>1 DEF RunInv, FeedInv
<1>7. ListedInv'
  BY <1>1, <1>4, Bounds DEF Blank, ListedInv, Descending, StillListed
<1>8. Reached' = NumPosts + 1 /\ Len(scan'.page) = 0
  BY <1>4, Bounds DEF Blank, Reached, Asked
<1>9. ProgressInv'
  <2>1. ~(\E s \in Sources : s < 1)
    BY DEF Sources
  <2>2. \A p \in Posts : p < NumPosts + 1
    BY Bounds DEF Posts
  <2>3. Partial(1, NumPosts + 1)'
    BY <1>1, <1>4, <1>8, <2>2, Bounds DEF Partial, Solid, Blank, Posts
  <2> QED
    BY <1>1, <1>4, <1>8, <2>1, <2>3 DEF ProgressInv
<1>10. WholeInv' /\ NoOrphanRun'
  BY <1>1 DEF RunInv, WholeInv, Solid, NoOrphanRun
<1> QED
  BY <1>5, <1>6, <1>7, <1>9, <1>10 DEF RunInv

\* No scan is left, and nothing of its history.
LEMMA ScanEnds ==
  ASSUME RunInv, Forget, scan' = NoScan, at' \in {"idle", "down"},
         UNCHANGED <<remote, edits, creator>>,
         known' \in Editions, fullDone' \in BOOLEAN, cancel' \in BOOLEAN,
         run' \in [status : {"running"} \cup Outcomes, mode : {"full", "incremental"}] \cup {Absent},
         whole' \in BOOLEAN, foreign' \in BOOLEAN, restarts' \in 0 .. MaxRestarts,
         \A s \in Sources, p \in Posts : known'[s][p] # 0 => remote[s][p] # 0,
         whole' => \A s \in Sources : Solid(known'[s], 1),
         NoOrphanRun'
  PROVE  RunInv'
<1>1. before' = Nothing /\ horizon' = Nothing /\ deleted' = FALSE /\ Nothing \in Editions
  BY DEF Forget, Nothing, Editions
<1>2. RunTypeOK'
  BY <1>1, NoScanIs DEF RunInv, RunTypeOK
<1>3. FeedInv'
  <2>1. \A s \in Sources, p \in Posts : Nothing[s][p] = 0 /\ remote[s][p] \in 0 .. 2
    BY DEF Nothing, RunInv, RunTypeOK, Editions
  <2> QED
    BY <1>1, <2>1 DEF RunInv, FeedInv
<1>4. ListedInv'
  BY NoScanIs, Bounds DEF ListedInv, Descending, StillListed
<1>5. ProgressInv'
  BY DEF ProgressInv, Underway
<1>6. WholeInv'
  BY <1>1 DEF WholeInv, Solid
<1> QED
  BY <1>2, <1>3, <1>4, <1>5, <1>6 DEF RunInv

\* While nothing was stored, the sources are as they were.
LEMMA AsBefore ==
  ASSUME RunInv, whole,
         at \in {"idle", "down", "starting"} \/ known = before
  PROVE  \A s \in Sources : Solid(known[s], 1)
<1>1. CASE at \in {"idle", "down"}
  BY <1>1 DEF RunInv, WholeInv
<1>2. CASE at = "starting"
  <2>1. Underway
    BY <1>2 DEF RunInv, WholeInv, Underway
  <2>2. /\ scan.source = 1 /\ scan.page = <<>> /\ scan.cursor = NumPosts + 1 /\ ~scan.read
        /\ Partial(scan.source, Reached)
        /\ \A s \in Sources : s > scan.source => known[s] = before[s]
    BY <1>2, <2>1 DEF RunInv, ListedInv, ProgressInv
  <2>3. Reached = NumPosts + 1
    BY <2>2, Bounds DEF Reached, Asked
  <2>4. \A p \in Posts : known[1][p] = before[1][p]
    BY <2>2, <2>3, Bounds DEF Partial, Posts
  <2>5. \A s \in Sources : s = 1 \/ known[s] = before[s]
    BY <2>2, Bounds DEF Sources
  <2>6. \A s \in Sources : Solid(before[s], 1)
    BY <1>2 DEF RunInv, WholeInv
  <2> QED
    BY <2>4, <2>5, <2>6 DEF Solid
<1>3. CASE at \notin {"idle", "down", "starting"}
  BY <1>3 DEF RunInv, WholeInv
<1> QED
  BY <1>1, <1>2, <1>3

LEMMA BeginRunStep ==
  ASSUME RunInv, BeginRun
  PROVE  RunInv'
<1>1. /\ at = "starting"
      /\ UNCHANGED <<remote, edits, known, creator, fullDone, run, cancel, restarts>>
  BY DEF BeginRun, feed, rows
<1>2. CASE at' = "fetching" /\ UNCHANGED <<scan, before, horizon, whole, deleted, foreign>>
  BY SMTT(30), <1>1, <1>2
     DEF RunInv, RunTypeOK, FeedInv, ListedInv, Descending, StillListed, Asked, ProgressInv,
         Underway, Covered, Partial, Solid, Reached, WholeInv, NoOrphanRun
<1>3. CASE run = Absent /\ at' = "idle" /\ scan' = NoScan /\ Forget /\ UNCHANGED <<whole, foreign>>
  <2>1. whole => \A s \in Sources : Solid(known[s], 1)
    BY <1>1, AsBefore
  <2>2. \A s \in Sources, p \in Posts : known[s][p] # 0 => remote[s][p] # 0
    BY DEF RunInv, FeedInv
  <2>3. NoOrphanRun'
    BY <1>1, <1>3 DEF NoOrphanRun
  <2>4. (whole => \A s \in Sources : Solid(known[s], 1))'
    BY <1>1, <1>3, <2>1 DEF Solid
  <2> QED
    BY <1>1, <1>3, <2>2, <2>3, <2>4, ScanEnds DEF RunInv, RunTypeOK
<1> QED
  BY <1>2, <1>3 DEF BeginRun, history

\* A scan that fails or is stopped ends, and not well.
LEMMA GoesWrong ==
  ASSUME RunInv, NEW outcome \in {"error", "cancelled"},
         at \in {"fetching", "page"},
         at' = "finishing" \/ (at' = "checking" /\ outcome = "error"),
         scan' = [scan EXCEPT !.outcome = outcome],
         UNCHANGED <<feed, rows, cancel, restarts, history>>
  PROVE  RunInv'
<1>1. /\ scan' \in Scan
      /\ scan'.outcome = outcome
      /\ scan'.creator = scan.creator /\ scan'.mode = scan.mode /\ scan'.source = scan.source
      /\ scan'.cursor = scan.cursor /\ scan'.read = scan.read /\ scan'.listing = scan.listing
      /\ scan'.page = scan.page
  BY DEF RunInv, RunTypeOK, Scan, Outcomes
<1> USE DEF feed, rows, history
<1>2. RunTypeOK'
  BY <1>1 DEF RunInv, RunTypeOK
<1>3. FeedInv'
  BY DEF RunInv, FeedInv
<1>4. ListedInv'
  BY <1>1 DEF RunInv, ListedInv, Descending, StillListed, Asked
<1>5. ProgressInv'
  BY <1>1 DEF ProgressInv, Underway
<1>6. WholeInv' /\ NoOrphanRun'
  BY <1>1 DEF RunInv, WholeInv, Solid, NoOrphanRun
<1> QED
  BY <1>2, <1>3, <1>4, <1>5, <1>6 DEF RunInv

LEMMA FetchFailsStep ==
  ASSUME RunInv, FetchFails
  PROVE  RunInv'
BY GoesWrong DEF FetchFails

LEMMA StopScanStep ==
  ASSUME RunInv, StopScan
  PROVE  RunInv'
BY GoesWrong DEF StopScan

LEMMA CheckedStep ==
  ASSUME RunInv, Checked
  PROVE  RunInv'
<1>1. /\ at = "checking" /\ at' = "finishing" /\ scan.outcome = "error"
      /\ UNCHANGED <<feed, rows, scan, cancel, restarts, history>>
  BY DEF Checked, RunInv, WholeInv
<1> QED
  BY SMTT(30), <1>1
     DEF feed, rows, history, RunInv, RunTypeOK, FeedInv, ListedInv, Descending, StillListed, Asked,
         ProgressInv, Underway, WholeInv, Solid, NoOrphanRun

LEMMA CloseRunIs ==
  ASSUME RunInv, NEW outcome \in Outcomes, CloseRun(outcome)
  PROVE  /\ run' \in [status : {"running"} \cup Outcomes, mode : {"full", "incremental"}] \cup {Absent}
         /\ fullDone' \in BOOLEAN
         /\ run' # Absent => run'.status # "running"
<1>1. run \in [status : {"running"} \cup Outcomes, mode : {"full", "incremental"}] \cup {Absent}
  BY DEF RunInv, RunTypeOK
<1>2. /\ run' = IF run = Absent THEN Absent ELSE [run EXCEPT !.status = outcome]
      /\ fullDone' = (fullDone \/ (creator # Absent /\ outcome = "ok" /\ scan.mode = "full"))
  BY DEF CloseRun
<1>3. run # Absent => /\ [run EXCEPT !.status = outcome]
                          \in [status : {"running"} \cup Outcomes, mode : {"full", "incremental"}]
                    /\ [run EXCEPT !.status = outcome].status = outcome
  BY <1>1
<1>4. fullDone' \in BOOLEAN
  BY <1>2 DEF RunInv, RunTypeOK
<1>5. outcome # "running"
  BY DEF Outcomes
<1> QED
  BY <1>2, <1>3, <1>4, <1>5

LEMMA FinishRunStep ==
  ASSUME RunInv, FinishRun
  PROVE  RunInv'
<1>1. /\ at = "finishing" /\ at' = "idle" /\ scan' = NoScan
      /\ CloseRun(scan.outcome)
      /\ Ended(scan.outcome)
      /\ UNCHANGED <<remote, edits, known, creator, cancel, restarts>>
  BY DEF FinishRun, feed
<1>2. scan.outcome \in Outcomes
  BY DEF RunInv, RunTypeOK, Scan
<1>3. /\ run' \in [status : {"running"} \cup Outcomes, mode : {"full", "incremental"}] \cup {Absent}
      /\ fullDone' \in BOOLEAN
      /\ NoOrphanRun'
  BY <1>1, <1>2, CloseRunIs DEF NoOrphanRun
<1>4. /\ Forget /\ foreign' = foreign
      /\ whole' \in BOOLEAN
  BY <1>1 DEF Ended, RunInv, RunTypeOK
<1>5. ASSUME whole' PROVE \A s \in Sources : Solid(known'[s], 1)
  <2>1. CASE scan.outcome = "ok"
    <3>1. whole \/ (scan.mode = "full" /\ ~deleted)
      BY <1>1, <1>5, <2>1 DEF Ended
    <3>2. Underway
      BY <1>1, <2>1, <3>1 DEF Underway, RunInv, WholeInv
    <3>3. \A s \in Sources : Covered(s)
      BY <1>1, <3>2 DEF RunInv, ProgressInv
    <3> QED
      BY <1>1, <3>1, <3>3 DEF Covered
  <2>2. CASE scan.outcome # "ok"
    <3>1. whole /\ before = known
      BY <1>1, <1>5, <2>2 DEF Ended
    <3> QED
      BY <1>1, <3>1, AsBefore
  <2> QED
    BY <2>1, <2>2
<1>6. \A s \in Sources, p \in Posts : known'[s][p] # 0 => remote[s][p] # 0
  BY <1>1 DEF RunInv, FeedInv
<1> QED
  BY <1>1, <1>3, <1>4, <1>5, <1>6, ScanEnds DEF RunInv, RunTypeOK

LEMMA StopStep ==
  ASSUME RunInv, Stop
  PROVE  RunInv'
<1>1. /\ at # "down" /\ restarts < MaxRestarts
      /\ whole' = (whole /\ (at \in {"idle", "starting"} \/ before = known))
      /\ Forget
      /\ at' = "down" /\ scan' = NoScan /\ restarts' = restarts + 1
      /\ UNCHANGED <<remote, edits, known, creator, fullDone, run, cancel, foreign>>
  BY DEF Stop, feed, rows
<1>2. restarts' \in 0 .. MaxRestarts /\ whole' \in BOOLEAN
  BY <1>1, Bounds DEF RunInv, RunTypeOK
<1>3. whole' => \A s \in Sources : Solid(known'[s], 1)
  BY <1>1, AsBefore
<1>4. \A s \in Sources, p \in Posts : known'[s][p] # 0 => remote[s][p] # 0
  BY <1>1 DEF RunInv, FeedInv
<1>5. NoOrphanRun'
  BY <1>1 DEF NoOrphanRun
<1> QED
  BY <1>1, <1>2, <1>3, <1>4, <1>5, ScanEnds DEF RunInv, RunTypeOK

LEMMA StartStep ==
  ASSUME RunInv, Start
  PROVE  RunInv'
<1>1. /\ at = "down" /\ at' = "idle"
      /\ run' = IF run # Absent /\ run.status = "running" THEN [run EXCEPT !.status = "error"] ELSE run
      /\ cancel' = FALSE
      /\ UNCHANGED <<remote, edits, known, creator, fullDone, scan, restarts, before, horizon, whole,
                     deleted, foreign>>
  BY DEF Start, feed, history
<1>2. run \in [status : {"running"} \cup Outcomes, mode : {"full", "incremental"}] \cup {Absent}
  BY DEF RunInv, RunTypeOK
<1>3. /\ run' \in [status : {"running"} \cup Outcomes, mode : {"full", "incremental"}] \cup {Absent}
      /\ run' # Absent => run'.status # "running"
  <2>1. "error" \in Outcomes /\ "error" # "running"
    BY DEF Outcomes
  <2> QED
    BY <1>1, <1>2, <2>1
<1>4. RunTypeOK'
  BY <1>1, <1>3 DEF RunInv, RunTypeOK
<1>5. FeedInv' /\ ListedInv'
  BY <1>1 DEF RunInv, FeedInv, ListedInv, Descending, StillListed, Asked
<1>6. ProgressInv'
  BY <1>1 DEF ProgressInv, Underway
<1>7. WholeInv' /\ NoOrphanRun'
  BY <1>1, <1>3 DEF RunInv, WholeInv, Solid, NoOrphanRun
<1> QED
  BY <1>4, <1>5, <1>6, <1>7 DEF RunInv

-------------------------------------------------------------------------------
(* How a page is listed. *)

LEMMA ScanTypes ==
  ASSUME RunInv
  PROVE  /\ scan \in Scan /\ scan.source \in Sources /\ scan.cursor \in 1 .. NumPosts + 1
         /\ scan.listing \in Seq(Entry) /\ scan.page \in Seq(Entry) /\ scan.consecutive \in Nat
         /\ Len(scan.listing) \in Nat /\ Len(scan.page) \in Nat
         /\ Asked \in Nat /\ Reached \in Nat /\ Asked <= Reached
         /\ scan.page = <<>> => Reached = Asked
         /\ \A s \in Sources, p \in Posts :
              /\ known[s][p] \in 0 .. 2 /\ remote[s][p] \in 0 .. 2
              /\ before[s][p] \in 0 .. 2 /\ horizon[s][p] \in 0 .. 2
<1>1. /\ scan \in Scan /\ scan.source \in Sources /\ scan.cursor \in 1 .. NumPosts + 1
      /\ scan.listing \in Seq(Entry) /\ scan.page \in Seq(Entry) /\ scan.consecutive \in Nat
  BY DEF RunInv, RunTypeOK, Scan
<1>2. /\ Len(scan.listing) \in Nat /\ Len(scan.page) \in Nat
      /\ scan.page = <<>> => Len(scan.page) = 0
  BY <1>1
<1>3. Asked \in Nat
  BY <1>1, <1>2, Bounds DEF Asked
<1>4. \A s \in Sources, p \in Posts :
        /\ known[s][p] \in 0 .. 2 /\ remote[s][p] \in 0 .. 2
        /\ before[s][p] \in 0 .. 2 /\ horizon[s][p] \in 0 .. 2
  BY DEF RunInv, RunTypeOK, Editions
<1> QED
  BY <1>1, <1>2, <1>3, <1>4 DEF Reached

\* The listing begins anew at a lower post only if there is none between.
LEMMA Lower ==
  ASSUME RunInv, NEW low \in Nat, low <= Reached,
         Partial(scan.source, Reached),
         low = Reached \/ (\A p \in Posts : p >= low => remote[scan.source][p] = 0),
         scan.consecutive > 0 => low = Reached
  PROVE  Partial(scan.source, low)
<1> DEFINE s == scan.source
<1>1. CASE low = Reached
  BY <1>1
<1>2. CASE \A p \in Posts : p >= low => remote[s][p] = 0
  <2>1. /\ s \in Sources /\ Reached \in Nat
        /\ \A p \in Posts : horizon[s][p] \in 0 .. 2 /\ known[s][p] \in 0 .. 2
        /\ \A p \in Posts : p \in Nat
    <3>1. s \in Sources /\ Reached \in Nat
      BY ScanTypes
    <3>2. \A p \in Posts : horizon[s][p] \in 0 .. 2 /\ known[s][p] \in 0 .. 2
      BY <3>1, ScanTypes
    <3>3. \A p \in Posts : p \in Nat
      BY Bounds DEF Posts
    <3> QED
      BY <3>1, <3>2, <3>3
  <2>2. \A p \in Posts : p >= low => horizon[s][p] = 0 /\ known[s][p] = 0
    BY <1>2, <2>1 DEF RunInv, FeedInv
  <2>3. \A p \in Posts : p >= low => known[s][p] >= horizon[s][p]
    BY <2>1, <2>2
  <2>4. Solid(known[s], low)
    BY <2>1, <2>2 DEF Solid
  <2>5. \A p \in Posts : p < low => known[s][p] = before[s][p]
    BY <2>1 DEF Partial
  <2>6. scan.consecutive > 0 => low <= NumPosts /\ before[s][low] # 0
    BY DEF Partial
  <2> QED
    BY <2>3, <2>4, <2>5, <2>6 DEF Partial
<1> QED
  BY <1>1, <1>2

\* A step that lists something: of the scan it changes what is listed.
LEMMA ListStep ==
  ASSUME RunInv, at = "fetching", at' \in {"fetching", "page"},
         scan' \in Scan,
         scan'.creator = scan.creator, scan'.mode = scan.mode, scan'.source = scan.source,
         scan'.consecutive = scan.consecutive,
         UNCHANGED <<feed, rows, cancel, restarts, history>>,
         ListedInv',
         Reached' \in Nat, Reached' <= Reached,
         Reached' = Reached \/ (\A p \in Posts : p >= Reached' => remote[scan.source][p] = 0),
         Partial(scan.source, Reached) /\ scan.consecutive > 0 => Reached' = Reached
  PROVE  RunInv'
<1> USE DEF feed, rows, history
<1>1. RunTypeOK'
  BY DEF RunInv, RunTypeOK
<1>2. FeedInv'
  BY DEF RunInv, FeedInv
<1>3. ProgressInv'
  <2>1. SUFFICES ASSUME ~deleted
                 PROVE  /\ creator = scan.creator /\ creator # Absent
                        /\ \A s \in Sources : s < scan.source => Covered(s)'
                        /\ Partial(scan.source, Reached)'
                        /\ \A s \in Sources : s > scan.source => known[s] = before[s]
    <3>1. UNCHANGED <<deleted, creator, known, before>> /\ at' # "finishing"
      OBVIOUS
    <3> QED
      BY <3>1 DEF ProgressInv, Underway
  <2>2. Underway
    BY <2>1 DEF Underway
  <2>3. /\ creator = scan.creator /\ creator # Absent
        /\ \A s \in Sources : s < scan.source => Covered(s)
        /\ Partial(scan.source, Reached)
        /\ \A s \in Sources : s > scan.source => known[s] = before[s]
    BY <2>2 DEF RunInv, ProgressInv
  <2>4. Partial(scan.source, Reached')
    BY <2>3, Lower
  <2>5. Partial(scan.source, Reached)'
    BY <2>4 DEF Partial, Solid
  <2>6. \A s \in Sources : s < scan.source => Covered(s)'
    BY <2>3 DEF Covered, Solid
  <2> QED
    BY <2>3, <2>5, <2>6
<1>4. WholeInv' /\ NoOrphanRun'
  BY DEF RunInv, WholeInv, Solid, NoOrphanRun
<1> QED
  BY <1>1, <1>2, <1>3, <1>4 DEF RunInv

\* Everything a listing names is there, and as new as when the scan began.
LEMMA ListingIsListed ==
  ASSUME RunInv, NEW cursor \in 1 .. NumPosts + 1
  PROVE  /\ Descending(Listing(scan.source, cursor), 1)
         /\ StillListed(Listing(scan.source, cursor))
<1> DEFINE s == scan.source
           listing == Listing(s, cursor)
<1>1. s \in Sources /\ RunTypeOK /\ FeedInv
  BY ScanTypes DEF RunInv
<1>2. /\ listing \in Seq(Entry)
      /\ \A i \in 1 .. Len(listing) :
           /\ listing[i].post = Len(listing) + 1 - i
           /\ listing[i].post \in Posts
           /\ listing[i].post <= Newest(s)
           /\ listing[i].edition = remote[s][listing[i].post]
  BY <1>1, ListingIs
<1>3. \A p \in Posts : remote[s][p] # 0 <=> p <= Newest(s)
  BY <1>1, NewestIs
<1> HIDE DEF listing
<1>4. DOMAIN listing = 1 .. Len(listing) /\ Len(listing) \in Nat
  BY <1>2
<1>5. Descending(listing, 1)
  BY <1>2, <1>4 DEF Descending
<1>6. StillListed(listing)
  BY <1>1, <1>2, <1>3, <1>4 DEF StillListed, FeedInv
<1> QED
  BY <1>5, <1>6 DEF listing

LEMMA FetchPageStep ==
  ASSUME RunInv, FetchPage
  PROVE  RunInv'
<1> DEFINE s == scan.source
           listing == Listing(s, scan.cursor)
           page == Cut(listing)
           paged == [scan EXCEPT !.page = page]
           cursor == IF page = <<>> THEN scan.cursor ELSE Last(page).post
           next == [paged EXCEPT !.cursor = cursor]
<1>1. /\ at = "fetching" /\ at' = "page"
      /\ s \notin Whole
      /\ UNCHANGED <<feed, rows, cancel, restarts, history>>
  BY DEF FetchPage
<1>2. scan' = next
  <2>1. scan' = [paged EXCEPT !.cursor = IF page = <<>> THEN @ ELSE Last(page).post]
    BY DEF FetchPage
  <2>2. paged.cursor = scan.cursor /\ paged \in Scan \cup {paged}
    BY ScanTypes DEF Scan
  <2> HIDE DEF paged, page
  <2> QED
    BY <2>1, <2>2
<1>3. /\ ~scan.read /\ scan.listing = <<>> /\ scan.page = <<>>
      /\ Asked = scan.cursor /\ Reached = scan.cursor
      /\ s \in Sources /\ scan.cursor \in 1 .. NumPosts + 1
      /\ RunTypeOK /\ FeedInv
  BY <1>1, ScanTypes, Bounds DEF RunInv, ListedInv, Asked
<1>4. /\ listing \in Seq(Entry)
      /\ Len(listing) = IF scan.cursor - 1 <= Newest(s) THEN scan.cursor - 1 ELSE Newest(s)
      /\ \A i \in 1 .. Len(listing) :
           /\ listing[i].post = Len(listing) + 1 - i
           /\ listing[i].post \in Posts
           /\ listing[i].post <= Newest(s)
  BY <1>3, ListingIs
<1>5. Newest(s) \in 0 .. NumPosts /\ \A p \in Posts : remote[s][p] # 0 <=> p <= Newest(s)
  BY <1>3, NewestIs
<1>6. Descending(listing, 1) /\ StillListed(listing)
  BY <1>3, ListingIsListed
<1> HIDE DEF listing
<1>7. /\ page \in Seq(Entry)
      /\ Len(page) \in Nat /\ DOMAIN page = 1 .. Len(page)
      /\ Len(page) <= Len(listing) /\ Len(listing) \in Nat /\ DOMAIN listing = 1 .. Len(listing)
      /\ \A i \in 1 .. Len(page) : page[i] = listing[i]
      /\ page = <<>> <=> listing = <<>>
      /\ page = <<>> <=> Len(page) = 0
  BY SMTT(30), <1>4, CutIs, EmptySeq
<1> HIDE DEF page
<1>8. /\ page # <<>> => /\ cursor = Len(listing) + 1 - Len(page)
                        /\ cursor \in Posts /\ cursor <= Newest(s)
      /\ page = <<>> => cursor = scan.cursor
  <2>1. page # <<>> => /\ Len(page) \in 1 .. Len(page) /\ Len(page) \in 1 .. Len(listing)
                       /\ Last(page) = listing[Len(page)]
    BY <1>7 DEF Last
  <2> QED
    BY <1>4, <2>1
<1>9. cursor \in 1 .. NumPosts + 1
  BY <1>3, <1>8, Bounds DEF Posts
<1>10. /\ scan' \in Scan
       /\ scan'.creator = scan.creator /\ scan'.mode = scan.mode /\ scan'.source = s
       /\ scan'.consecutive = scan.consecutive /\ scan'.read = scan.read
       /\ scan'.listing = scan.listing /\ scan'.page = page /\ scan'.cursor = cursor
  <2> HIDE DEF cursor
  <2>1. /\ paged \in Scan
        /\ paged.creator = scan.creator /\ paged.mode = scan.mode /\ paged.source = s
        /\ paged.consecutive = scan.consecutive /\ paged.read = scan.read
        /\ paged.listing = scan.listing /\ paged.page = page
    BY <1>7, ScanTypes DEF Scan
  <2> HIDE DEF paged
  <2> QED
    BY <1>2, <1>9, <2>1 DEF Scan
<1> HIDE DEF next, paged
<1>11. Asked' = cursor /\ Reached' = cursor + Len(page)
  BY <1>3, <1>10 DEF Asked, Reached
<1>12. IF page = <<>> THEN Reached' = Reached ELSE Reached' = Len(listing) + 1
  BY <1>3, <1>7, <1>8, <1>9, <1>11
<1>13. ListedInv'
  <2>1. Descending(page, cursor)
    BY <1>4, <1>7, <1>8 DEF Descending
  <2>2. StillListed(page)
    BY <1>6, <1>7 DEF StillListed
  <2>3. Descending(scan.page, Asked)' /\ StillListed(scan.page)'
    BY <1>1, <1>10, <1>11, <2>1, <2>2 DEF Descending, StillListed, feed, history
  <2>4. Descending(scan.listing, 1)' /\ StillListed(scan.listing)'
    BY <1>3, <1>10 DEF Descending, StillListed
  <2>5. cursor <= NumPosts => remote[s][cursor] # 0
    BY <1>3, <1>5, <1>8 DEF RunInv, ListedInv
  <2>6. UNCHANGED remote
    BY <1>1 DEF feed
  <2> QED
    BY <1>1, <1>3, <1>10, <2>3, <2>4, <2>5, <2>6 DEF ListedInv
<1>14. /\ Reached' \in Nat /\ Reached' <= Reached
       /\ Reached' = Reached \/ (\A p \in Posts : p >= Reached' => remote[s][p] = 0)
       /\ Partial(s, Reached) /\ scan.consecutive > 0 => Reached' = Reached
  <2>1. CASE page = <<>>
    BY <1>3, <1>12, <2>1
  <2>2. CASE page # <<>>
    <3>1. Reached' = Len(listing) + 1
      BY <1>12, <2>2
    <3>2. CASE scan.cursor - 1 <= Newest(s)
      BY <1>3, <1>4, <3>1, <3>2
    <3>3. CASE scan.cursor - 1 > Newest(s)
      <4>1. Reached' = Newest(s) + 1 /\ Reached' < Reached
        BY <1>3, <1>4, <1>5, <3>1, <3>3
      <4>2. \A p \in Posts : p >= Reached' => remote[s][p] = 0
        BY <1>5, <4>1 DEF Posts
      <4>3. ~(scan.cursor <= NumPosts)
        BY <1>3, <1>5, <3>3, Bounds DEF RunInv, ListedInv, Posts
      <4>4. ~(Partial(s, Reached) /\ scan.consecutive > 0)
        BY <1>3, <4>3 DEF Partial
      <4> QED
        BY <1>3, <1>5, <4>1, <4>2, <4>4
    <3> QED
      BY <1>3, <1>5, <3>2, <3>3
  <2> QED
    BY <2>1, <2>2
<1> QED
  BY <1>1, <1>10, <1>13, <1>14, ListStep

LEMMA FetchWholeStep ==
  ASSUME RunInv, FetchWhole
  PROVE  RunInv'
<1> DEFINE s == scan.source
           listing == Listing(s, scan.cursor)
           listed == [scan EXCEPT !.listing = listing]
           next == [listed EXCEPT !.read = TRUE]
<1>1. /\ at = "fetching" /\ at' = at
      /\ s \in Whole /\ ~scan.read
      /\ UNCHANGED <<feed, rows, cancel, restarts, history>>
      /\ scan' = [scan EXCEPT !.listing = Listing(s, NumPosts + 1), !.read = TRUE]
  BY DEF FetchWhole
<1>2. /\ scan.page = <<>> /\ scan.cursor = NumPosts + 1
      /\ Reached = NumPosts + 1
      /\ s \in Sources /\ scan.cursor \in 1 .. NumPosts + 1
      /\ RunTypeOK /\ FeedInv
  BY <1>1, ScanTypes, Bounds DEF RunInv, ListedInv, Asked
<1>3. Newest(s) \in 0 .. NumPosts /\ \A p \in Posts : remote[s][p] # 0 <=> p <= Newest(s)
  BY <1>2, NewestIs
<1>4. listing \in Seq(Entry) /\ Len(listing) = Newest(s)
  <2>1. /\ listing \in Seq(Entry)
        /\ Len(listing) = IF scan.cursor - 1 <= Newest(s) THEN scan.cursor - 1 ELSE Newest(s)
    BY <1>2, ListingIs
  <2> HIDE DEF listing
  <2> QED
    BY <1>2, <1>3, <2>1, Bounds
<1>5. Descending(listing, 1) /\ StillListed(listing)
  BY <1>2, ListingIsListed
<1>6. scan' = next
  BY <1>1, <1>2
<1> HIDE DEF listing
<1>7. /\ scan' \in Scan
      /\ scan'.creator = scan.creator /\ scan'.mode = scan.mode /\ scan'.source = s
      /\ scan'.consecutive = scan.consecutive /\ scan'.read
      /\ scan'.listing = listing /\ scan'.page = scan.page /\ scan'.cursor = scan.cursor
  <2>1. /\ listed \in Scan
        /\ listed.creator = scan.creator /\ listed.mode = scan.mode /\ listed.source = s
        /\ listed.consecutive = scan.consecutive
        /\ listed.listing = listing /\ listed.page = scan.page /\ listed.cursor = scan.cursor
    BY <1>4, ScanTypes DEF Scan
  <2> HIDE DEF listed
  <2> QED
    BY <1>6, <2>1 DEF Scan
<1> HIDE DEF next, listed
<1>8. Reached' = Newest(s) + 1
  BY <1>2, <1>3, <1>4, <1>7 DEF Asked, Reached
<1>9. ListedInv'
  <2>1. Descending(scan.listing, 1)' /\ StillListed(scan.listing)'
    BY <1>1, <1>5, <1>7 DEF Descending, StillListed, feed, history
  <2>2. Descending(scan.page, Asked)' /\ StillListed(scan.page)'
    BY <1>2, <1>7 DEF Descending, StillListed
  <2> QED
    BY <1>1, <1>2, <1>7, <2>1, <2>2 DEF ListedInv
<1>10. /\ Reached' \in Nat /\ Reached' <= Reached
       /\ \A p \in Posts : p >= Reached' => remote[s][p] = 0
       /\ Partial(s, Reached) /\ scan.consecutive > 0 => Reached' = Reached
  <2>1. \A p \in Posts : p >= Reached' => remote[s][p] = 0
    BY <1>3, <1>8 DEF Posts
  <2>2. ~(Partial(s, Reached) /\ scan.consecutive > 0)
    BY <1>2, Bounds DEF Partial
  <2> QED
    BY <1>2, <1>3, <1>8, <2>1, <2>2, Bounds
<1> QED
  BY <1>1, <1>7, <1>9, <1>10, ListStep

LEMMA CutPageStep ==
  ASSUME RunInv, CutPage
  PROVE  RunInv'
<1> DEFINE s == scan.source
           listing == scan.listing
           page == Cut(listing)
           rest == SubSeq(listing, Len(page) + 1, Len(listing))
           cursor == IF page = <<>> THEN scan.cursor ELSE Last(page).post
           paged == [scan EXCEPT !.page = page]
           rested == [paged EXCEPT !.listing = rest]
           next == [rested EXCEPT !.cursor = cursor]
<1>1. /\ at = "fetching" /\ at' = "page"
      /\ scan.read
      /\ UNCHANGED <<feed, rows, cancel, restarts, history>>
  BY DEF CutPage
<1>2. /\ listing \in Seq(Entry) /\ Len(listing) \in Nat /\ DOMAIN listing = 1 .. Len(listing)
      /\ \A i \in 1 .. Len(listing) : listing[i] \in Entry
      /\ Descending(listing, 1) /\ StillListed(listing)
      /\ scan.page = <<>> /\ Reached = Len(listing) + 1
      /\ s \in Whole /\ s \in Sources /\ scan.cursor \in 1 .. NumPosts + 1
  <2>1. listing \in Seq(Entry) /\ Len(listing) \in Nat /\ s \in Sources
    BY ScanTypes
  <2> QED
    BY <1>1, <2>1, ScanTypes, ElementOfSeq DEF RunInv, ListedInv, Asked
<1>3. /\ page \in Seq(Entry)
      /\ Len(page) \in Nat /\ DOMAIN page = 1 .. Len(page)
      /\ Len(page) <= Len(listing)
      /\ \A i \in 1 .. Len(page) : page[i] = listing[i]
      /\ page = <<>> <=> Len(page) = 0
  BY <1>2, CutIs, EmptySeq
<1>4. scan' = next
  <2>1. scan' = [scan EXCEPT !.page = page,
                             !.listing = SubSeq(@, Len(page) + 1, Len(@)),
                             !.cursor = IF page = <<>> THEN @ ELSE Last(page).post]
    BY DEF CutPage
  <2>2. /\ paged \in Scan /\ paged.listing = listing /\ paged.cursor = scan.cursor
    BY <1>3, ScanTypes DEF Scan
  <2>3. rested.cursor = scan.cursor
    BY <2>2 DEF Scan
  <2> HIDE DEF page
  <2>4. scan' = [[paged EXCEPT !.listing = SubSeq(paged.listing, Len(page) + 1, Len(paged.listing))]
                   EXCEPT !.cursor = IF page = <<>> THEN @ ELSE Last(page).post]
    BY <2>1
  <2> HIDE DEF paged
  <2>5. scan' = [rested EXCEPT !.cursor = IF page = <<>> THEN @ ELSE Last(page).post]
    BY <2>2, <2>4
  <2> HIDE DEF rested
  <2> QED
    BY <2>3, <2>5
<1> HIDE DEF page
<1>5. /\ rest \in Seq(Entry)
      /\ Len(rest) = Len(listing) - Len(page)
      /\ DOMAIN rest = 1 .. Len(rest)
      /\ \A i \in 1 .. Len(rest) : rest[i] = listing[Len(page) + i]
  <2>1. \A i \in Len(page) + 1 .. Len(listing) : listing[i] \in Entry
    BY <1>2, <1>3
  <2>2. /\ rest \in Seq(Entry)
        /\ Len(rest) = IF Len(page) + 1 <= Len(listing) THEN Len(listing) - (Len(page) + 1) + 1 ELSE 0
        /\ \A i \in 1 .. Len(listing) - (Len(page) + 1) + 1 : rest[i] = listing[Len(page) + 1 + i - 1]
    BY <1>2, <1>3, <2>1, SubSeqProperties
  <2> HIDE DEF rest, listing
  <2>3. Len(rest) = Len(listing) - Len(page) /\ DOMAIN rest = 1 .. Len(rest)
    <3>1. DOMAIN rest = 1 .. Len(rest)
      BY <2>2
    <3>2. Len(rest) = Len(listing) - Len(page)
      <4>1. Len(listing) \in Nat /\ Len(page) \in Nat /\ Len(page) <= Len(listing)
        BY <1>2, <1>3
      <4> QED
        BY <4>1, <2>2
    <3> QED
      BY <3>1, <3>2
  <2>4. \A i \in 1 .. Len(rest) : rest[i] = listing[Len(page) + i]
    <3> SUFFICES ASSUME NEW i \in 1 .. Len(rest) PROVE rest[i] = listing[Len(page) + i]
      OBVIOUS
    <3>1. i \in 1 .. Len(listing) - (Len(page) + 1) + 1
      BY <1>2, <1>3, <2>3
    <3>2. Len(page) + 1 + i - 1 = Len(page) + i
      BY <1>3
    <3> QED
      BY <2>2, <3>1, <3>2
  <2> QED
    BY <2>2, <2>3, <2>4
<1>6. cursor \in 1 .. NumPosts + 1
  <2>1. CASE page = <<>>
    BY <1>2, <2>1
  <2>2. CASE page # <<>>
    <3>1. Len(page) \in 1 .. Len(page) /\ Len(page) \in 1 .. Len(listing)
      BY <1>2, <1>3, <2>2
    <3>2. Last(page) = listing[Len(page)] /\ listing[Len(page)].post \in Posts
      BY <1>2, <1>3, <3>1 DEF Last, Entry
    <3> QED
      BY <2>2, <3>2, Bounds DEF Posts
  <2> QED
    BY <2>1, <2>2
<1> HIDE DEF rest, cursor
<1>7. /\ scan' \in Scan
      /\ scan'.creator = scan.creator /\ scan'.mode = scan.mode /\ scan'.source = s
      /\ scan'.consecutive = scan.consecutive /\ scan'.read = scan.read
      /\ scan'.listing = rest /\ scan'.page = page
  <2>1. /\ paged \in Scan
        /\ paged.creator = scan.creator /\ paged.mode = scan.mode /\ paged.source = s
        /\ paged.consecutive = scan.consecutive /\ paged.read = scan.read /\ paged.page = page
    BY <1>3, ScanTypes DEF Scan
  <2> HIDE DEF paged
  <2>2. /\ rested \in Scan
        /\ rested.creator = scan.creator /\ rested.mode = scan.mode /\ rested.source = s
        /\ rested.consecutive = scan.consecutive /\ rested.read = scan.read /\ rested.page = page
        /\ rested.listing = rest
    BY <1>5, <2>1 DEF Scan
  <2> HIDE DEF rested
  <2> QED
    BY <1>4, <1>6, <2>2 DEF Scan
<1> HIDE DEF next, rested, paged
<1>8. Asked' = Len(rest) + 1 /\ Reached' = Reached
  <2>1. Asked' = Len(rest) + 1
    BY <1>1, <1>7 DEF Asked
  <2>2. Reached' = Asked' + Len(page)
    BY <1>7 DEF Reached
  <2>3. Len(listing) \in Nat /\ Len(page) \in Nat /\ Len(rest) = Len(listing) - Len(page)
    BY <1>2, <1>3, <1>5
  <2> HIDE DEF listing
  <2> QED
    BY <1>2, <2>1, <2>2, <2>3
<1>9. ListedInv'
  <2>1. UNCHANGED <<remote, horizon>>
    BY <1>1 DEF feed, history
  <2>2. Descending(rest, 1) /\ Descending(page, Len(rest) + 1)
    <3>1. /\ Len(listing) \in Nat /\ Len(page) \in Nat /\ Len(rest) = Len(listing) - Len(page)
          /\ \A i \in 1 .. Len(listing) : listing[i].post = 1 + Len(listing) - i
      BY <1>2, <1>3, <1>5 DEF Descending
    <3> HIDE DEF listing
    <3>2. ASSUME NEW i \in 1 .. Len(rest) PROVE rest[i].post = 1 + Len(rest) - i
      <4>1. Len(page) + i \in 1 .. Len(listing) /\ rest[i] = listing[Len(page) + i]
        BY <1>5, <3>1
      <4>2. rest[i].post = 1 + Len(listing) - (Len(page) + i)
        BY <3>1, <4>1
      <4> QED
        BY <3>1, <4>2
    <3>3. ASSUME NEW i \in 1 .. Len(page) PROVE page[i].post = Len(rest) + 1 + Len(page) - i
      <4>1. i \in 1 .. Len(listing) /\ page[i] = listing[i]
        BY <1>3, <3>1
      <4>2. page[i].post = 1 + Len(listing) - i
        BY <3>1, <4>1
      <4> QED
        BY <3>1, <4>2
    <3> QED
      BY <1>3, <1>5, <3>2, <3>3 DEF Descending
  <2>3. StillListed(rest)
    <3> SUFFICES ASSUME NEW i \in 1 .. Len(rest)
                 PROVE  /\ remote[s][rest[i].post] # 0
                        /\ horizon[s][rest[i].post] <= rest[i].edition
      BY <1>5 DEF StillListed
    <3>1. Len(page) + i \in DOMAIN listing /\ rest[i] = listing[Len(page) + i]
      BY <1>2, <1>3, <1>5
    <3> QED
      BY <1>2, <3>1 DEF StillListed
  <2>4. StillListed(page)
    BY <1>2, <1>3 DEF StillListed
  <2>5. Descending(scan.listing, 1)' /\ StillListed(scan.listing)'
    BY <1>7, <2>1, <2>2, <2>3 DEF Descending, StillListed
  <2>6. Descending(scan.page, Asked)' /\ StillListed(scan.page)'
    BY <1>7, <1>8, <2>1, <2>2, <2>4 DEF Descending, StillListed
  <2> QED
    BY <1>1, <1>2, <1>7, <2>5, <2>6 DEF ListedInv
<1> QED
  BY <1>1, <1>2, <1>7, <1>8, <1>9, ScanTypes, ListStep

-------------------------------------------------------------------------------
(* How a page is stored. *)

\* A page names the posts from Asked to below Reached.
LEMMA PageIs ==
  ASSUME RunInv, NEW p \in Posts
  PROVE  /\ Asked <= p /\ p < Reached => \E e \in ToSet(scan.page) : e.post = p
         /\ \A e \in ToSet(scan.page) : e.post = p =>
              /\ Asked <= p /\ p < Reached
              /\ e.edition \in 1 .. 2
              /\ horizon[scan.source][p] <= e.edition
              /\ remote[scan.source][p] # 0
<1> DEFINE page == scan.page
<1>1. /\ page \in Seq(Entry) /\ Len(page) \in Nat /\ DOMAIN page = 1 .. Len(page)
      /\ \A i \in 1 .. Len(page) : page[i] \in Entry
      /\ Asked \in Nat /\ Reached = Asked + Len(page)
      /\ p \in Nat
      /\ Descending(page, Asked) /\ StillListed(page)
  <2>1. page \in Seq(Entry) /\ Len(page) \in Nat /\ Asked \in Nat
    BY ScanTypes
  <2> QED
    BY <2>1, Bounds, ElementOfSeq DEF RunInv, ListedInv, Reached, Posts
<1>2. ASSUME Asked <= p, p < Reached PROVE \E e \in ToSet(page) : e.post = p
  <2> DEFINE i == Asked + Len(page) - p
  <2>1. i \in 1 .. Len(page)
    BY <1>1, <1>2
  <2>2. page[i].post = Asked + Len(page) - i
    BY <1>1, <2>1 DEF Descending
  <2>3. page[i].post = p
    BY <1>1, <2>2
  <2> QED
    BY <1>1, <2>1, <2>3 DEF ToSet
<1>3. ASSUME NEW e \in ToSet(page), e.post = p
      PROVE  /\ Asked <= p /\ p < Reached
             /\ e.edition \in 1 .. 2
             /\ horizon[scan.source][p] <= e.edition
             /\ remote[scan.source][p] # 0
  <2>1. PICK i \in 1 .. Len(page) : e = page[i]
    BY <1>1 DEF ToSet
  <2>2. page[i].post = Asked + Len(page) - i
    BY <1>1 DEF Descending
  <2>3. /\ e.edition \in 1 .. 2
        /\ horizon[scan.source][p] <= e.edition
        /\ remote[scan.source][p] # 0
    BY <1>1, <1>3, <2>1 DEF StillListed, Entry
  <2> QED
    BY <1>1, <1>3, <2>1, <2>2, <2>3
<1> QED
  BY <1>2, <1>3

LEMMA StoreIs ==
  ASSUME RunInv, StorePage
  PROVE  /\ known' \in Editions
         /\ foreign' \in BOOLEAN
         /\ \A s \in Sources, p \in Posts : known'[s][p] # 0 => remote[s][p] # 0
         /\ creator = scan.creator =>
              /\ \A s \in Sources : s # scan.source => known'[s] = known[s]
              /\ \A p \in Posts :
                   IF Asked <= p /\ p < Reached
                   THEN /\ known'[scan.source][p] # 0
                        /\ known'[scan.source][p] >= horizon[scan.source][p]
                   ELSE known'[scan.source][p] = known[scan.source][p]
<1> DEFINE s == scan.source
           Listed(p) == {e \in ToSet(scan.page) : e.post = p}
           Stored(p) == IF Listed(p) = {} THEN known[s][p] ELSE (CHOOSE e \in Listed(p) : TRUE).edition
<1>1. known \in Editions /\ foreign \in BOOLEAN /\ s \in Sources
  BY ScanTypes DEF RunInv, RunTypeOK
<1>2. ASSUME NEW p \in Posts
      PROVE  /\ Stored(p) \in 0 .. 2
             /\ Stored(p) # 0 => remote[s][p] # 0
             /\ IF Asked <= p /\ p < Reached
                THEN Stored(p) # 0 /\ Stored(p) >= horizon[s][p]
                ELSE Stored(p) = known[s][p]
  <2>1. CASE Listed(p) = {}
    <3>1. ~(Asked <= p /\ p < Reached)
      BY <2>1, PageIs
    <3> QED
      BY <1>1, <2>1, <3>1 DEF Editions, RunInv, FeedInv
  <2>2. CASE Listed(p) # {}
    <3>1. PICK e \in Listed(p) : Stored(p) = e.edition
      BY <2>2
    <3>2. e \in ToSet(scan.page) /\ e.post = p
      OBVIOUS
    <3> HIDE DEF Stored
    <3> QED
      BY <3>1, <3>2, PageIs
  <2> QED
    BY <2>1, <2>2
<1>3. CASE creator = scan.creator
  <2>1. known' = [known EXCEPT ![s] = [p \in Posts |-> Stored(p)]] /\ foreign' = foreign
    BY <1>3 DEF StorePage
  <2> HIDE DEF Stored
  <2>2. [p \in Posts |-> Stored(p)] \in [Posts -> 0 .. 2]
    BY <1>2
  <2>3. known' \in Editions
    BY <1>1, <2>1, <2>2 DEF Editions
  <2>4. /\ \A p \in Posts : known'[s][p] = Stored(p)
        /\ \A t \in Sources : t # s => known'[t] = known[t]
    BY <1>1, <2>1 DEF Editions
  <2>5. \A t \in Sources, p \in Posts : known'[t][p] # 0 => remote[t][p] # 0
    BY <1>2, <2>4 DEF RunInv, FeedInv
  <2> QED
    BY <1>1, <1>2, <2>1, <2>3, <2>4, <2>5
<1>4. CASE creator # scan.creator
  BY <1>1, <1>4 DEF StorePage, RunInv, FeedInv
<1> QED
  BY <1>3, <1>4

\* If any post is counted, the last of the page was known (or of the page before,
\* if this one is empty).
LEMMA TrailingIs ==
  ASSUME RunInv
  PROVE  /\ Trailing(scan.page) \in Nat
         /\ Trailing(scan.page) > 0 =>
              \/ scan.page = <<>> /\ scan.consecutive > 0
              \/ Asked \in Posts /\ Asked < Reached /\ known[scan.source][Asked] # 0
<1> DEFINE page == scan.page
           changed == {i \in DOMAIN page : Differs(page[i])}
           n == Len(page)
<1>1. /\ page \in Seq(Entry) /\ n \in Nat /\ DOMAIN page = 1 .. n
      /\ \A i \in 1 .. n : page[i] \in Entry
      /\ page = <<>> <=> n = 0
      /\ scan.consecutive \in Nat /\ Asked \in Nat /\ Reached = Asked + n
      /\ Descending(page, Asked)
  <2>1. page \in Seq(Entry) /\ n \in Nat
    BY ScanTypes
  <2> QED
    BY <2>1, ScanTypes, ElementOfSeq, EmptySeq DEF RunInv, ListedInv, Reached
<1>2. ASSUME n > 0, n \notin changed
      PROVE  Asked \in Posts /\ Asked < Reached /\ known[scan.source][Asked] # 0
  <2>1. n \in 1 .. n /\ page[n].post = Asked + n - n /\ ~Differs(page[n])
    <3>1. n \in 1 .. n
      BY <1>1, <1>2
    <3>2. ~Differs(page[n])
      BY <1>1, <1>2, <3>1
    <3>3. page[n].post = Asked + n - n
      BY <1>1, <3>1 DEF Descending
    <3> QED
      BY <3>1, <3>2, <3>3
  <2>2. page[n].post = Asked /\ page[n].post \in Posts /\ page[n].edition \in 1 .. 2
    BY <1>1, <2>1 DEF Entry
  <2>3. known[scan.source][Asked] = page[n].edition
    BY <2>1, <2>2 DEF Differs
  <2> QED
    BY <1>1, <1>2, <2>2, <2>3
<1>3. CASE changed = {}
  <2>1. Trailing(page) = scan.consecutive + n
    BY <1>3 DEF Trailing
  <2> QED
    BY SMTT(30), <1>1, <1>2, <1>3, <2>1
<1>4. CASE changed # {}
  <2>1. changed \in SUBSET (1 .. n)
    BY <1>1
  <2> HIDE DEF changed, n
  <2>2. PICK i \in changed : \A j \in changed : j <= i
    BY <1>1, <1>4, <2>1, Greatest
  <2> DEFINE last == CHOOSE k \in changed : \A j \in changed : j <= k
  <2>3. last \in changed /\ \A j \in changed : j <= last
    BY <2>2
  <2>4. Trailing(page) = n - last
    BY <1>4 DEF Trailing, changed, n
  <2> HIDE DEF last
  <2>5. last \in 1 .. n
    BY <2>1, <2>3
  <2>6. Trailing(page) \in Nat /\ (Trailing(page) > 0 => n > 0 /\ n \notin changed)
    BY <1>1, <2>3, <2>4, <2>5
  <2> QED
    BY <1>2, <2>6
<1> QED
  BY <1>3, <1>4

\* Of a creator that is there, the page is stored and counted: the source has
\* been scanned down to where it was asked for.
LEMMA StoredDownTo ==
  ASSUME RunInv, at = "page", StorePage, creator = scan.creator,
         Partial(scan.source, Reached)
  PROVE  /\ \A p \in Posts : p < Asked => known'[scan.source][p] = before[scan.source][p]
         /\ \A p \in Posts : p >= Asked => known'[scan.source][p] >= horizon[scan.source][p]
         /\ Solid(known'[scan.source], Asked)
         /\ Trailing(scan.page) > 0 => Asked <= NumPosts /\ before[scan.source][Asked] # 0
<1> DEFINE s == scan.source
<1>1. \A p \in Posts :
        IF Asked <= p /\ p < Reached
        THEN known'[s][p] # 0 /\ known'[s][p] >= horizon[s][p]
        ELSE known'[s][p] = known[s][p]
  BY StoreIs
<1>2. /\ Asked \in Nat /\ Reached \in Nat /\ Asked <= Reached
      /\ scan.page = <<>> => Reached = Asked
      /\ \A p \in Posts : p \in Nat
  BY ScanTypes, Bounds DEF Posts
<1>3. \A p \in Posts : p < Asked => known'[s][p] = before[s][p]
  BY <1>1, <1>2 DEF Partial
<1>4. \A p \in Posts : p >= Asked => known'[s][p] >= horizon[s][p]
  BY <1>1, <1>2 DEF Partial
<1>5. Solid(known'[s], Asked)
  <2> SUFFICES ASSUME NEW p \in Posts, NEW q \in Posts, Asked <= p, p < q, known'[s][q] # 0
               PROVE  known'[s][p] # 0
    BY DEF Solid
  <2>1. CASE p < Reached
    BY <1>1, <2>1
  <2>2. CASE p >= Reached
    BY <1>1, <1>2, <2>2 DEF Partial, Solid
  <2> QED
    BY <1>2, <2>1, <2>2
<1>6. ASSUME Trailing(scan.page) > 0 PROVE Asked <= NumPosts /\ before[s][Asked] # 0
  <2>1. CASE scan.page = <<>> /\ scan.consecutive > 0
    BY <1>2, <2>1 DEF Partial
  <2>2. CASE Asked \in Posts /\ Asked < Reached /\ known[s][Asked] # 0
    BY <2>2, Bounds DEF Partial, Posts
  <2> QED
    BY <1>6, <2>1, <2>2, TrailingIs
<1> QED
  BY <1>3, <1>4, <1>5, <1>6

Enough(consecutive) == scan.mode = "incremental" /\ consecutive >= Overlap

\* When no page is left, or enough posts were known before, the source is done.
LEMMA SourceIsDone ==
  ASSUME RunInv, at = "page", StorePage, creator = scan.creator,
         Partial(scan.source, Reached),
         ~More(scan.source) \/ Enough(Trailing(scan.page))
  PROVE  /\ scan.mode = "full" =>
              \A p \in Posts : known'[scan.source][p] >= horizon[scan.source][p]
         /\ scan.mode = "full" \/ whole =>
              /\ Solid(known'[scan.source], 1)
              /\ \A p \in Posts : horizon[scan.source][p] # 0 => known'[scan.source][p] # 0
<1> DEFINE s == scan.source
<1>1. /\ Asked \in Nat /\ s \in Sources /\ RunTypeOK /\ FeedInv
      /\ scan.cursor \in 1 .. NumPosts + 1
      /\ \A p \in Posts : p \in Nat /\ p >= 1
      /\ \A p \in Posts : horizon[s][p] \in 0 .. 2 /\ remote[s][p] \in 0 .. 2
      /\ Trailing(scan.page) \in Nat
  BY ScanTypes, TrailingIs, Bounds DEF Posts, RunInv
<1>2. known' \in Editions
  BY StoreIs
<1>3. \A p \in Posts : known'[s][p] \in 0 .. 2
  BY <1>1, <1>2 DEF Editions
<1>4. /\ \A p \in Posts : p < Asked => known'[s][p] = before[s][p]
      /\ \A p \in Posts : p >= Asked => known'[s][p] >= horizon[s][p]
      /\ Solid(known'[s], Asked)
      /\ Trailing(scan.page) > 0 => Asked <= NumPosts /\ before[s][Asked] # 0
  BY StoredDownTo
<1>5. CASE ~More(s)
  <2>1. \A p \in Posts : p < Asked => remote[s][p] = 0
    <3>1. CASE s \in Whole
      <4>1. scan.listing = <<>> /\ scan.read
        BY <1>5, <3>1 DEF More, RunInv, ListedInv
      <4>2. Asked = 1
        BY <4>1 DEF Asked
      <4> QED
        BY <1>1, <4>2
    <3>2. CASE s \notin Whole
      <4>1. Listing(s, scan.cursor) = <<>> /\ ~scan.read
        BY <1>5, <3>2 DEF More, RunInv, ListedInv
      <4>2. Len(Listing(s, scan.cursor))
              = IF scan.cursor - 1 <= Newest(s) THEN scan.cursor - 1 ELSE Newest(s)
        BY <1>1, ListingIs
      <4>3. /\ Newest(s) \in 0 .. NumPosts
            /\ \A p \in Posts : remote[s][p] # 0 <=> p <= Newest(s)
        BY <1>1, NewestIs
      <4>4. Asked = scan.cursor
        BY <4>1 DEF Asked
      <4>5. Len(Listing(s, scan.cursor)) = 0
        BY <4>1
      <4>6. scan.cursor = 1 \/ Newest(s) = 0
        BY <1>1, <4>2, <4>3, <4>5, Bounds
      <4> QED
        BY <1>1, <4>3, <4>4, <4>6
    <3> QED
      BY <3>1, <3>2
  <2>2. \A p \in Posts : horizon[s][p] <= remote[s][p]
    BY <1>1 DEF FeedInv
  <2>3. \A p \in Posts : known'[s][p] >= horizon[s][p]
    <3> SUFFICES ASSUME NEW p \in Posts PROVE known'[s][p] >= horizon[s][p]
      OBVIOUS
    <3>1. CASE p < Asked
      BY <1>1, <1>3, <2>1, <2>2, <3>1
    <3>2. CASE p >= Asked
      BY <1>4, <3>2
    <3> QED
      BY <1>1, <3>1, <3>2
  <2>4. Solid(known'[s], 1)
    <3> SUFFICES ASSUME NEW p \in Posts, NEW q \in Posts, p < q, known'[s][q] # 0
                 PROVE  known'[s][p] # 0
      BY DEF Solid
    <3>1. remote[s][q] # 0
      BY <1>1, StoreIs
    <3>2. remote[s][p] # 0
      BY <1>1, <3>1 DEF FeedInv
    <3>3. p >= Asked
      BY <1>1, <2>1, <3>2
    <3> QED
      BY <1>4, <3>3 DEF Solid
  <2>5. \A p \in Posts : horizon[s][p] # 0 => known'[s][p] # 0
    BY <1>1, <1>3, <2>3
  <2> QED
    BY <2>3, <2>4, <2>5
<1>6. CASE Enough(Trailing(scan.page))
  <2>1. scan.mode # "full" /\ Trailing(scan.page) > 0
    BY <1>1, <1>6, Bounds DEF Enough
  <2>2. ASSUME whole
        PROVE  /\ Solid(known'[s], 1)
               /\ \A p \in Posts : horizon[s][p] # 0 => known'[s][p] # 0
    <3>1. Solid(before[s], 1)
      BY <1>1, <2>2 DEF RunInv, WholeInv
    <3>2. Asked <= NumPosts /\ before[s][Asked] # 0
      BY <1>4, <2>1
    <3>3. ASSUME NEW p \in Posts, p < Asked PROVE known'[s][p] # 0
      <4>1. Asked \in Posts
        BY <1>1, <3>2, <3>3, Bounds DEF Posts
      <4>2. before[s][p] # 0
        BY <1>1, <3>1, <3>2, <3>3, <4>1 DEF Solid
      <4> QED
        BY <1>4, <3>3, <4>2
    <3>4. Solid(known'[s], 1)
      <4> SUFFICES ASSUME NEW p \in Posts, NEW q \in Posts, p < q, known'[s][q] # 0
                   PROVE  known'[s][p] # 0
        BY DEF Solid
      <4>1. CASE p < Asked
        BY <3>3, <4>1
      <4>2. CASE p >= Asked
        BY <1>4, <4>2 DEF Solid
      <4> QED
        BY <1>1, <4>1, <4>2
    <3>5. \A p \in Posts : horizon[s][p] # 0 => known'[s][p] # 0
      <4> SUFFICES ASSUME NEW p \in Posts, horizon[s][p] # 0 PROVE known'[s][p] # 0
        OBVIOUS
      <4>1. CASE p < Asked
        BY <3>3, <4>1
      <4>2. CASE p >= Asked
        BY <1>1, <1>3, <1>4, <4>2
      <4> QED
        BY <1>1, <4>1, <4>2
    <3> QED
      BY <3>4, <3>5
  <2> QED
    BY <2>1, <2>2
<1> QED
  BY <1>5, <1>6

\* What a stored page changes besides the scan's own variables.
LEMMA AfterStore ==
  ASSUME RunInv, ProcessPage, at' \in {"fetching", "finishing"}, scan' \in Scan,
         ListedInv', ProgressInv'
  PROVE  RunInv'
<1>1. /\ at = "page" /\ StorePage
      /\ UNCHANGED <<remote, edits, creator, fullDone, run, cancel, restarts, before, horizon, whole,
                     deleted>>
  BY DEF ProcessPage, feed
<1>2. /\ known' \in Editions /\ foreign' \in BOOLEAN
      /\ \A s \in Sources, p \in Posts : known'[s][p] # 0 => remote[s][p] # 0
  BY <1>1, StoreIs
<1>3. RunTypeOK'
  BY <1>1, <1>2 DEF RunInv, RunTypeOK
<1>4. FeedInv'
  BY <1>1, <1>2 DEF RunInv, FeedInv
<1>5. WholeInv' /\ NoOrphanRun'
  BY <1>1 DEF RunInv, WholeInv, Solid, NoOrphanRun
<1> QED
  BY <1>3, <1>4, <1>5 DEF RunInv

\* The sources the scan was done with, or hasn't begun, are left alone.
LEMMA OtherSources ==
  ASSUME RunInv, ProcessPage, ~deleted
  PROVE  /\ creator = scan.creator /\ creator # Absent /\ StorePage /\ at = "page"
         /\ Partial(scan.source, Reached)
         /\ \A s \in Sources : s < scan.source =>
              /\ scan.mode = "full" => \A p \in Posts : known'[s][p] >= horizon[s][p]
              /\ scan.mode = "full" \/ whole =>
                   /\ Solid(known'[s], 1)
                   /\ \A p \in Posts : horizon[s][p] # 0 => known'[s][p] # 0
         /\ \A s \in Sources : s > scan.source => known'[s] = before[s]
<1>1. at = "page" /\ StorePage
  BY DEF ProcessPage
<1>2. Underway
  BY <1>1 DEF Underway
<1>3. /\ creator = scan.creator /\ creator # Absent
      /\ Partial(scan.source, Reached)
      /\ \A s \in Sources : s < scan.source => Covered(s)
      /\ \A s \in Sources : s > scan.source => known[s] = before[s]
  BY <1>1, <1>2 DEF RunInv, ProgressInv
<1>4. \A s \in Sources : s # scan.source => known'[s] = known[s]
  BY <1>1, <1>3, StoreIs
<1>5. \A s \in Sources : s < scan.source \/ s > scan.source => s # scan.source
  BY ScanTypes DEF Sources
<1>6. \A s \in Sources : s > scan.source => known'[s] = before[s]
  BY <1>3, <1>4, <1>5
<1>7. ASSUME NEW s \in Sources, s < scan.source
      PROVE  /\ scan.mode = "full" => \A p \in Posts : known'[s][p] >= horizon[s][p]
             /\ scan.mode = "full" \/ whole =>
                  /\ Solid(known'[s], 1)
                  /\ \A p \in Posts : horizon[s][p] # 0 => known'[s][p] # 0
  <2>1. known'[s] = known[s] /\ Covered(s)
    BY <1>3, <1>4, <1>5, <1>7
  <2> QED
    BY <2>1 DEF Covered
<1> QED
  BY <1>1, <1>3, <1>6, <1>7

LEMMA NextPage ==
  ASSUME RunInv, ProcessPage, at' = "fetching",
         scan' = [scan EXCEPT !.page = <<>>, !.consecutive = Trailing(scan.page)]
  PROVE  RunInv'
<1> DEFINE paged == [scan EXCEPT !.page = <<>>]
<1>1. /\ at = "page"
      /\ UNCHANGED <<remote, creator, before, horizon, whole, deleted>>
  BY DEF ProcessPage, feed
<1>2. /\ scan' \in Scan
      /\ scan'.creator = scan.creator /\ scan'.mode = scan.mode /\ scan'.source = scan.source
      /\ scan'.cursor = scan.cursor /\ scan'.read = scan.read /\ scan'.listing = scan.listing
      /\ scan'.page = <<>> /\ scan'.consecutive = Trailing(scan.page)
  <2>1. /\ paged \in Scan
        /\ paged.creator = scan.creator /\ paged.mode = scan.mode /\ paged.source = scan.source
        /\ paged.cursor = scan.cursor /\ paged.read = scan.read /\ paged.listing = scan.listing
        /\ paged.page = <<>>
    <3>1. <<>> \in Seq(Entry)
      OBVIOUS
    <3> QED
      BY <3>1, ScanTypes DEF Scan
  <2>2. scan' = [paged EXCEPT !.consecutive = Trailing(scan.page)]
    OBVIOUS
  <2> HIDE DEF paged
  <2> QED
    BY <2>1, <2>2, TrailingIs DEF Scan
<1>3. Asked' = Asked /\ Reached' = Asked
  <2>1. Asked' = Asked
    BY <1>2 DEF Asked
  <2>2. Reached' = Asked' + 0
    BY <1>2 DEF Reached
  <2> QED
    BY <2>1, <2>2, ScanTypes
<1>4. ListedInv'
  <2>1. Descending(scan.listing, 1)' /\ StillListed(scan.listing)'
    BY <1>1, <1>2 DEF RunInv, ListedInv, Descending, StillListed
  <2>2. Descending(scan.page, Asked)' /\ StillListed(scan.page)'
    BY <1>2 DEF Descending, StillListed
  <2> QED
    BY <1>1, <1>2, <2>1, <2>2 DEF RunInv, ListedInv
<1>5. ProgressInv'
  <2> SUFFICES ASSUME ~deleted
               PROVE  /\ creator = scan.creator /\ creator # Absent
                      /\ \A s \in Sources : s < scan.source => Covered(s)'
                      /\ Partial(scan.source, Reached)'
                      /\ \A s \in Sources : s > scan.source => known'[s] = before[s]
    BY <1>1, <1>2 DEF ProgressInv, Underway
  <2>1. \A s \in Sources : s < scan.source => Covered(s)'
    BY <1>1, <1>2, OtherSources DEF Covered
  <2>2. Partial(scan.source, Reached)'
    BY <1>1, <1>2, <1>3, OtherSources, StoredDownTo DEF Partial
  <2> QED
    BY <2>1, <2>2, OtherSources
<1> QED
  BY <1>2, <1>4, <1>5, AfterStore

LEMMA NextSource ==
  ASSUME RunInv, ProcessPage, at' = "fetching", scan.source < NumSources,
         ~More(scan.source) \/ Enough(Trailing(scan.page)),
         scan' = BegunAt(scan.creator, scan.mode, scan.source + 1)
  PROVE  RunInv'
<1>1. /\ at = "page"
      /\ UNCHANGED <<remote, creator, before, horizon, whole, deleted>>
  BY DEF ProcessPage, feed
<1>2. PICK s \in Sources : s = scan.source
  BY ScanTypes
<1>3. PICK t \in Sources : t = s + 1
  BY <1>2, Bounds DEF Sources
<1>4. Blank(scan') /\ scan'.creator = scan.creator /\ scan'.mode = scan.mode /\ scan'.source = t
  <2>1. PICK c \in 1 .. MaxCreators \cup {Absent}, m \in {"full", "incremental"} :
          c = scan.creator /\ m = scan.mode
    BY ScanTypes DEF Scan
  <2>2. scan' = BegunAt(c, m, t)
    BY <1>2, <1>3, <2>1
  <2>3. /\ Blank(BegunAt(c, m, t)) /\ BegunAt(c, m, t).creator = c
        /\ BegunAt(c, m, t).mode = m /\ BegunAt(c, m, t).source = t
    BY BegunIsBlank
  <2> QED
    BY <2>1, <2>2, <2>3
<1>5. Reached' = NumPosts + 1
  BY <1>4, Bounds DEF Blank, Asked, Reached
<1>6. ListedInv'
  <2>0. scan'.listing = <<>> /\ scan'.page = <<>> /\ DOMAIN <<>> = {}
    BY <1>4 DEF Blank
  <2>1. Descending(scan.listing, 1)' /\ StillListed(scan.listing)'
    BY <2>0 DEF Descending, StillListed
  <2>2. Descending(scan.page, Asked)' /\ StillListed(scan.page)'
    BY <2>0 DEF Descending, StillListed
  <2> QED
    BY <1>4, <2>1, <2>2, Bounds DEF Blank, ListedInv
<1>7. ProgressInv'
  <2> SUFFICES ASSUME ~deleted
               PROVE  /\ creator = scan.creator /\ creator # Absent
                      /\ \A r \in Sources : r < t => Covered(r)'
                      /\ Partial(t, NumPosts + 1)'
                      /\ \A r \in Sources : r > t => known'[r] = before[r]
    BY <1>1, <1>4, <1>5 DEF ProgressInv, Underway
  <2>1. \A r \in Sources :
          /\ r < t => r < s \/ r = s
          /\ r >= t => r > s
          /\ r > t => r >= t
    BY <1>2, <1>3 DEF Sources
  <2>2. Covered(s)'
    BY <1>1, <1>2, <1>4, OtherSources, SourceIsDone DEF Covered
  <2>3. \A r \in Sources : r < s => Covered(r)'
    BY <1>1, <1>2, <1>4, OtherSources DEF Covered
  <2>4. \A r \in Sources : r >= t => known'[r] = before[r]
    BY <1>2, <2>1, OtherSources
  <2>5. Partial(t, NumPosts + 1)'
    <3>1. known'[t] = before[t] /\ scan'.consecutive = 0
      BY <1>3, <1>4, <2>4 DEF Blank, Sources
    <3>2. \A p \in Posts : p \in Nat /\ p < NumPosts + 1
      BY Bounds DEF Posts
    <3> QED
      BY <1>1, <3>1, <3>2, Bounds DEF Partial, Solid
  <2>6. \A r \in Sources : r < t => Covered(r)'
    BY <2>1, <2>2, <2>3
  <2>7. \A r \in Sources : r > t => known'[r] = before[r]
    BY <2>1, <2>4
  <2> QED
    BY <2>5, <2>6, <2>7, OtherSources
<1> QED
  BY <1>4, <1>6, <1>7, AfterStore DEF Blank

LEMMA NoSourceLeft ==
  ASSUME RunInv, ProcessPage, at' = "finishing", ~(scan.source < NumSources),
         ~More(scan.source) \/ Enough(Trailing(scan.page)),
         scan' = [scan EXCEPT !.page = <<>>, !.listing = <<>>]
  PROVE  RunInv'
<1> DEFINE paged == [scan EXCEPT !.page = <<>>]
<1>1. /\ at = "page"
      /\ UNCHANGED <<remote, creator, before, horizon, whole, deleted>>
  BY DEF ProcessPage, feed
<1>2. /\ scan' \in Scan
      /\ scan'.creator = scan.creator /\ scan'.mode = scan.mode /\ scan'.source = scan.source
      /\ scan'.cursor = scan.cursor /\ scan'.read = scan.read
      /\ scan'.page = <<>> /\ scan'.listing = <<>>
  <2>0. <<>> \in Seq(Entry)
    OBVIOUS
  <2>1. /\ paged \in Scan
        /\ paged.creator = scan.creator /\ paged.mode = scan.mode /\ paged.source = scan.source
        /\ paged.cursor = scan.cursor /\ paged.read = scan.read
        /\ paged.page = <<>>
    BY <2>0, ScanTypes DEF Scan
  <2>2. scan' = [paged EXCEPT !.listing = <<>>]
    OBVIOUS
  <2> HIDE DEF paged
  <2> QED
    BY <2>0, <2>1, <2>2 DEF Scan
<1>3. ListedInv'
  BY <1>1, <1>2 DEF RunInv, ListedInv, Descending, StillListed
<1>4. ProgressInv'
  <2> SUFFICES ASSUME ~deleted
               PROVE  /\ creator = scan.creator /\ creator # Absent
                      /\ \A s \in Sources : Covered(s)'
    BY <1>1, <1>2 DEF ProgressInv, Underway
  <2>1. \A s \in Sources : s < scan.source \/ s = scan.source
    BY SMTT(30), ScanTypes, Bounds DEF Sources
  <2>2. Covered(scan.source)' /\ \A s \in Sources : s < scan.source => Covered(s)'
    BY <1>1, <1>2, OtherSources, SourceIsDone DEF Covered
  <2> QED
    BY <2>1, <2>2, OtherSources
<1> QED
  BY <1>2, <1>3, <1>4, AfterStore

LEMMA ProcessPageStep ==
  ASSUME RunInv, ProcessPage
  PROVE  RunInv'
<1> DEFINE enough == Enough(Trailing(scan.page))
<1>1. IF More(scan.source) /\ ~enough
      THEN /\ at' = "fetching"
           /\ scan' = [scan EXCEPT !.page = <<>>, !.consecutive = Trailing(scan.page)]
      ELSE IF scan.source < NumSources
      THEN /\ at' = "fetching"
           /\ scan' = BegunAt(scan.creator, scan.mode, scan.source + 1)
      ELSE /\ at' = "finishing"
           /\ scan' = [scan EXCEPT !.page = <<>>, !.listing = <<>>]
  BY DEF ProcessPage, AfterPage, Enough, BegunAt
<1>2. CASE More(scan.source) /\ ~enough
  BY <1>1, <1>2, NextPage
<1>3. CASE ~(More(scan.source) /\ ~enough) /\ scan.source < NumSources
  BY <1>1, <1>3, NextSource
<1>4. CASE ~(More(scan.source) /\ ~enough) /\ ~(scan.source < NumSources)
  BY <1>1, <1>4, NoSourceLeft
<1> QED
  BY <1>2, <1>3, <1>4

LEMMA ShutdownInLoopStep ==
  ASSUME RunInv, ShutdownInLoop
  PROVE  RunInv'
<1>1. /\ at \in {"fetching", "page"} /\ restarts < MaxRestarts
      /\ UNCHANGED <<known, foreign>> \/ StorePage
      /\ CloseRun("cancelled")
      /\ whole' = (whole /\ before = known')
      /\ Forget
      /\ at' = "down" /\ scan' = NoScan /\ restarts' = restarts + 1
      /\ UNCHANGED <<remote, edits, creator, cancel>>
  BY DEF ShutdownInLoop, feed
<1>2. /\ known' \in Editions /\ foreign' \in BOOLEAN
      /\ \A s \in Sources, p \in Posts : known'[s][p] # 0 => remote[s][p] # 0
  <2>1. CASE UNCHANGED <<known, foreign>>
    BY <2>1 DEF RunInv, RunTypeOK, FeedInv
  <2>2. CASE StorePage
    BY <2>2, StoreIs
  <2> QED
    BY <1>1, <2>1, <2>2
<1>3. /\ run' \in [status : {"running"} \cup Outcomes, mode : {"full", "incremental"}] \cup {Absent}
      /\ fullDone' \in BOOLEAN
  BY <1>1, CloseRunIs DEF Outcomes
<1>4. restarts' \in 0 .. MaxRestarts /\ whole' \in BOOLEAN
  BY <1>1, Bounds DEF RunInv, RunTypeOK
<1>5. whole' => \A s \in Sources : Solid(known'[s], 1)
  BY <1>1 DEF RunInv, WholeInv
<1>6. NoOrphanRun'
  BY <1>1 DEF NoOrphanRun
<1> QED
  BY <1>1, <1>2, <1>3, <1>4, <1>5, <1>6, ScanEnds DEF RunInv, RunTypeOK

-------------------------------------------------------------------------------
LEMMA RunStep ==
  ASSUME RunInv, [RunNext]_runVars
  PROVE  RunInv'
<1>1. CASE UNCHANGED runVars
  <2> USE <1>1 DEF runVars, feed, rows, progress, history
  <2>1. RunTypeOK' /\ FeedInv' /\ ListedInv'
    BY SMTT(30) DEF RunInv, RunTypeOK, FeedInv, ListedInv, Descending, StillListed, Asked
  <2>2. ProgressInv'
    BY DEF RunInv, ProgressInv, Underway, Covered, Partial, Solid, Asked, Reached
  <2>3. WholeInv' /\ NoOrphanRun'
    BY DEF RunInv, WholeInv, Solid, NoOrphanRun
  <2> QED
    BY <2>1, <2>2, <2>3 DEF RunInv
<1>2. CASE \E s \in Sources : Publish(s) \/ \E p \in Posts : Edit(s, p)
  BY <1>2, PublishStep, EditStep
<1>3. CASE Cancel \/ Delete \/ \E c \in 1 .. MaxCreators : Add(c)
  BY <1>3, CancelStep, DeleteStep, AddStep
<1>4. CASE BeginRun \/ \E asked \in {"auto", "full", "incremental"} : StartRun(asked)
  BY <1>4, BeginRunStep, StartRunStep
<1>5. CASE FetchPage \/ FetchWhole \/ CutPage
  BY <1>5, FetchPageStep, FetchWholeStep, CutPageStep
<1>6. CASE FetchFails \/ Checked \/ StopScan
  BY <1>6, FetchFailsStep, CheckedStep, StopScanStep
<1>7. CASE ProcessPage \/ FinishRun
  BY <1>7, ProcessPageStep, FinishRunStep
<1>8. CASE ShutdownInLoop \/ Stop \/ Start
  BY <1>8, ShutdownInLoopStep, StopStep, StartStep
<1> QED
  BY <1>1, <1>2, <1>3, <1>4, <1>5, <1>6, <1>7, <1>8 DEF RunNext

\* The pages and sources of a scan are accounted for, whatever goes on meanwhile.
THEOREM ScanIsAccountedFor == RunSpec => []RunInv
<1>1. RunInit => RunInv
  BY InitRunInv
<1>2. RunInv /\ [RunNext]_runVars => RunInv'
  BY RunStep
<1> QED
  BY <1>1, <1>2, PTL DEF RunSpec

\* ScanRun's variables keep their types.
THEOREM RunTypesHold == RunSpec => []RunTypeOK
<1>1. RunInv => RunTypeOK
  BY DEF RunInv
<1> QED
  BY <1>1, ScanIsAccountedFor, PTL

\* No run shows as running while nothing is scanned: _finish_run and
\* close_interrupted_runs close whatever _start_run opened.
THEOREM NeverAnOrphanRun == RunSpec => []NoOrphanRun
<1>1. RunInv => NoOrphanRun
  BY DEF RunInv
<1> QED
  BY <1>1, ScanIsAccountedFor, PTL

\* A scan that ends well is done with all its sources.
LEMMA EndsCovered ==
  ASSUME RunInv, Ends, ~deleted, [RunNext]_runVars
  PROVE  known' = known /\ \A s \in Sources : Covered(s)
<1>1. at = "finishing" /\ at' = "idle" /\ scan.outcome = "ok"
  BY DEF Ends
<1>2. Underway
  BY <1>1 DEF Underway
<1>3. \A s \in Sources : Covered(s)
  BY <1>1, <1>2 DEF RunInv, ProgressInv
<1>4. known' = known
  BY <1>1
     DEF RunNext, Publish, Edit, Cancel, Delete, Add, StartRun, BeginRun, FetchPage, FetchWhole, CutPage,
         FetchFails, Checked, ProcessPage, StopScan, FinishRun, ShutdownInLoop, Stop, Start,
         runVars, feed, rows, progress, history
<1> QED
  BY <1>3, <1>4

\* What a full scan that ended well has stored is as new, post by post, as what
\* was listed when it began: whatever is published or edited meanwhile, and
\* however scan_creator's pages and sources fall.
THEOREM FullAlwaysSeesAll == RunSpec => FullSeesAll
<1>1. RunInv /\ [RunNext]_runVars =>
        [Ends /\ scan.mode = "full" /\ ~deleted
           => \A s \in Sources, p \in Posts : known[s][p] >= horizon[s][p]]_runVars
  BY EndsCovered DEF Covered
<1> QED
  BY <1>1, ScanIsAccountedFor, PTL DEF RunSpec, FullSeesAll

\* An incremental scan that stops at the overlap leaves no gap below it, if the
\* scans since the last full one were not cut short.
THEOREM NeverAGap == RunSpec => NoGap
<1>1. RunInv /\ [RunNext]_runVars =>
        [Ends /\ whole /\ ~deleted
           => \A s \in Sources, p \in Posts : horizon[s][p] # 0 => known[s][p] # 0]_runVars
  BY EndsCovered DEF Covered
<1> QED
  BY <1>1, ScanIsAccountedFor, PTL DEF RunSpec, NoGap
================================================================================
