------------------------------- MODULE ScanQueue -------------------------------
(***************************************************************************)
(* The scan queue of scanner/scan_manager.py: callers ask for scans, one   *)
(* worker takes them in turn, and admission (scanner/admission.py) is      *)
(* asked by both.                                                          *)
(*                                                                         *)
(* request_scan takes no lock.  API handlers call it in threads of their   *)
(* own, so the worker and other callers may act between any two of its     *)
(* reads and writes.  The scheduler and add_creator call it on the event   *)
(* loop, where it runs to its end before the worker goes on.               *)
(*                                                                         *)
(* _queue is an asyncio.Queue, and put_nowait isn't made for other         *)
(* threads: get() looks whether the queue is empty and registers a getter  *)
(* for the next put to wake, and a thread may put between the two.         *)
(***************************************************************************)
EXTENDS Naturals, Sequences, FiniteSets, SequencesExt

CONSTANTS
  Creators,
  Callers,      \* who may be asking for a scan at the same time
  LoopCallers,  \* those on the event loop: the scheduler, add_creator, import
  Requests,     \* ScanRequest objects: one more than callers (see Room)
  None

ASSUME ScanQueueAssumption ==
  /\ LoopCallers \subseteq Callers
  /\ IsFiniteSet(Requests) /\ IsFiniteSet(Callers)
  /\ Cardinality(Requests) > Cardinality(Callers)
  /\ None \notin Creators \cup Requests
  /\ None \notin [creator : Creators, full : BOOLEAN, automatic : BOOLEAN]

VARIABLES
  scene,        \* the creators and the callers there are in this behaviour
  admits,       \* which scans of each creator admission lets through
  request,      \* the request objects, None for one not in use
  pending,      \* _pending: creator to request object
  queue,        \* _queue
  current,      \* _current
  worker,       \* where the worker is, and the request it took
  getter,       \* of a waiting worker, in _queue.get(): "none" if it looks at the queue next
  call,         \* where each caller is in request_scan
  owed,         \* history: creators whose full scan a pending request took on
  refused       \* history: of those, the ones whose full request admission refused since

memory == <<request, pending, queue, current, worker, getter, call, owed, refused>>
vars == <<scene, admits, memory>>

\* ScanAdmission._refusal of a creator: "manual" scans only if it isn't
\* monitored, "none" if it or its provider is switched off, its session has
\* expired, or it was deleted.
Admissions == {"all", "manual", "none"}

Request == [creator : Creators, full : BOOLEAN, automatic : BOOLEAN]
NoCall == [at |-> "idle", creator |-> None, full |-> FALSE, automatic |-> FALSE, request |-> None]
Waiting == [at |-> "waiting", request |-> None]

TypeOK ==
  /\ scene \in [creators : SUBSET Creators, callers : SUBSET Callers]
  /\ admits \in [Creators -> Admissions]
  /\ request \in [Requests -> Request \cup {None}]
  /\ pending \in [Creators -> Requests \cup {None}]
  /\ queue \in Seq(Requests)
  /\ current \in Requests \cup {None}
  /\ worker \in [at : {"waiting", "taken", "admitted", "scanning"}, request : Requests \cup {None}]
  /\ call \in [Callers -> [at : {"idle", "admitted", "found", "holding", "unqueued", "comparing",
                                 "putting", "raised"},
                           creator : Creators \cup {None}, full : BOOLEAN, automatic : BOOLEAN,
                           request : Requests \cup {None}]]
  /\ getter \in {"none", "registering", "registered"}
  /\ owed \subseteq Creators
  /\ refused \subseteq owed

Init ==
  /\ scene \in [creators : SUBSET Creators, callers : SUBSET Callers]
  /\ admits \in [Creators -> Admissions]
  /\ \A c \in Creators \ scene.creators : admits[c] = "none"
  /\ request = [r \in Requests |-> None]
  /\ pending = [c \in Creators |-> None]
  /\ queue = <<>>
  /\ current = None
  /\ worker = Waiting
  /\ call = [t \in Callers |-> NoCall]
  /\ getter = "none"
  /\ owed = {} /\ refused = {}

-------------------------------------------------------------------------------
Admitted(c, automatic) == admits[c] = "all" \/ (admits[c] = "manual" /\ ~automatic)

\* No API thread asks for scans.
OnLoopOnly == scene.callers \subseteq LoopCallers

\* The event loop runs one thing at a time.
LoopIsFree == \A t \in LoopCallers : call[t].at = "idle"
MayAct(t) == t \in LoopCallers => \A u \in LoopCallers \ {t} : call[u].at = "idle"

GoTo(t, at) == call' = [call EXCEPT ![t].at = at]
Return(t) == call' = [call EXCEPT ![t] = NoCall]

-------------------------------------------------------------------------------
\* Bound: one request in use, and one for each caller.
Room ==
  Cardinality({r \in Requests : request[r] # None}) + Cardinality({t \in Callers : call[t].at # "idle"})
    <= Cardinality(scene.callers)

\* request_scan.  A refusal raises at once and changes nothing, so only an
\* admitted call goes on.
Ask(t, c, full, automatic) ==
  /\ t \in scene.callers
  /\ call[t].at = "idle" /\ MayAct(t) /\ Room
  /\ t \in LoopCallers => getter # "registering"   \* get() awaits nothing in between
  /\ Admitted(c, automatic)
  /\ call' = [call EXCEPT ![t] = [at |-> "admitted", creator |-> c, full |-> full,
                                  automatic |-> automatic, request |-> None]]
  /\ UNCHANGED <<scene, admits, request, pending, queue, current, worker, getter, owed, refused>>

\* Mutant of LookForPending: a pending request is not looked for.
LookForNothing(t) ==
  /\ call[t].at = "admitted"
  /\ GoTo(t, "unqueued")
  /\ UNCHANGED <<scene, admits, request, pending, queue, current, worker, getter, owed, refused>>

\* if creator_id in self._pending
LookForPending(t) ==
  /\ call[t].at = "admitted"
  /\ GoTo(t, IF pending[call[t].creator] = None THEN "unqueued" ELSE "found")
  /\ UNCHANGED <<scene, admits, request, pending, queue, current, worker, getter, owed, refused>>

\* existing = self._pending[creator_id], a KeyError if it was popped meanwhile
GetPending(t) ==
  /\ call[t].at = "found"
  /\ LET existing == pending[call[t].creator]
     IN  call' = [call EXCEPT ![t].at = IF existing = None THEN "raised" ELSE "holding",
                              ![t].request = existing]
  /\ UNCHANGED <<scene, admits, request, pending, queue, current, worker, getter, owed, refused>>

\* The pending request takes on the creator's full scan.
TakesOn(t) ==
  /\ owed' = IF call[t].full /\ OnLoopOnly THEN owed \cup {call[t].creator} ELSE owed
  /\ refused' = IF call[t].full THEN refused \ {call[t].creator} ELSE refused

\* Mutant of Upgrade: the pending request keeps its mode.
UpgradeNothing(t) ==
  /\ call[t].at = "holding"
  /\ TakesOn(t)
  /\ Return(t)
  /\ UNCHANGED <<scene, admits, request, pending, queue, current, worker, getter>>

\* existing.mode = ScanMode.FULL, and return False
Upgrade(t) ==
  /\ call[t].at = "holding"
  /\ LET r == call[t].request
         full == call[t].full
     IN  request' = IF full /\ request[r] # None
                    THEN [request EXCEPT ![r].full = TRUE] ELSE request
  /\ TakesOn(t)
  /\ Return(t)
  /\ UNCHANGED <<scene, admits, pending, queue, current, worker, getter>>

\* A new request object, put into _pending.  Room leaves one, and nothing tells
\* those not in use apart.
Fresh == CHOOSE r \in Requests : request[r] = None /\ \A u \in Callers : call[u].request # r

NewRequest(t, r) ==
  /\ request' = [request EXCEPT ![r] = [creator |-> call[t].creator, full |-> call[t].full,
                                        automatic |-> call[t].automatic]]
  /\ pending' = [pending EXCEPT ![call[t].creator] = r]
  /\ call' = [call EXCEPT ![t].at = "putting", ![t].request = r]

\* if self._current is not None ...
LookAtCurrent(t) ==
  /\ call[t].at = "unqueued"
  /\ \/ /\ current = None
        /\ NewRequest(t, Fresh)
     \/ /\ current # None
        /\ GoTo(t, "comparing")
        /\ UNCHANGED <<request, pending>>
  /\ UNCHANGED <<scene, admits, queue, current, worker, getter, owed, refused>>

\* ... and self._current.creator_id == creator_id, an AttributeError if it
\* became None meanwhile
CompareCurrent(t) ==
  /\ call[t].at = "comparing"
  /\ \/ current = None /\ GoTo(t, "raised") /\ UNCHANGED <<request, pending>>
     \/ /\ current # None /\ request[current].creator = call[t].creator
        /\ Return(t)
        /\ UNCHANGED <<request, pending>>
     \/ /\ current # None /\ request[current].creator # call[t].creator
        /\ NewRequest(t, Fresh)
  /\ UNCHANGED <<scene, admits, queue, current, worker, getter, owed, refused>>

\* self._queue.put_nowait(req), which wakes a registered getter, and return True
Put(t) ==
  /\ call[t].at = "putting"
  /\ queue' = Append(queue, call[t].request)
  /\ getter' = IF getter = "registered" THEN "none" ELSE getter
  /\ Return(t)
  /\ UNCHANGED <<scene, admits, request, pending, current, worker, owed, refused>>

\* The exception reaches the caller's handler.
Raise(t) ==
  /\ call[t].at = "raised"
  /\ Return(t)
  /\ UNCHANGED <<scene, admits, request, pending, queue, current, worker, getter, owed, refused>>

-------------------------------------------------------------------------------
\* The worker.  It drops its request object when it is done with it.

\* _queue.get() finds nothing ...
FindEmpty ==
  /\ worker.at = "waiting" /\ LoopIsFree
  /\ getter = "none" /\ queue = <<>>
  /\ getter' = "registering"
  /\ UNCHANGED <<scene, admits, request, pending, queue, current, worker, call, owed, refused>>

\* ... and waits for a put to wake it, whatever was put meanwhile.
Register ==
  /\ getter = "registering"
  /\ getter' = "registered"
  /\ UNCHANGED <<scene, admits, request, pending, queue, current, worker, call, owed, refused>>

Take ==
  /\ worker.at = "waiting" /\ LoopIsFree
  /\ getter = "none" /\ queue # <<>>
  /\ worker' = [at |-> "taken", request |-> Head(queue)]
  /\ queue' = Tail(queue)
  /\ pending' = [pending EXCEPT ![request[Head(queue)].creator] = None]
  /\ UNCHANGED <<scene, admits, request, current, getter, call, owed, refused>>

Done == worker' = Waiting /\ request' = [request EXCEPT ![worker.request] = None]

\* _still_admitted, in a thread of its own.
Admit ==
  /\ worker.at = "taken"
  /\ LET r == request[worker.request] IN Admitted(r.creator, r.automatic)
  /\ worker' = [worker EXCEPT !.at = "admitted"]
  /\ UNCHANGED <<scene, admits, request, pending, queue, current, getter, call, owed, refused>>

\* Mutant of Refuse: a refusal ends the worker.
RefuseEndsWorker ==
  /\ worker.at = "taken"
  /\ LET r == request[worker.request] IN ~Admitted(r.creator, r.automatic)
  /\ worker' = [worker EXCEPT !.at = "ended"]
  /\ UNCHANGED <<scene, admits, request, pending, queue, current, getter, call, owed, refused>>

\* The user is told of a refusal (ScanSkippedEvent).
Refuse ==
  /\ worker.at = "taken"
  /\ LET r == request[worker.request]
     IN  /\ ~Admitted(r.creator, r.automatic)
         /\ refused' = IF r.full THEN refused \cup (owed \cap {r.creator}) ELSE refused
  /\ Done
  /\ UNCHANGED <<scene, admits, pending, queue, current, getter, call, owed>>

\* Back on the event loop: the request is current and its mode is read.
Begin ==
  /\ worker.at = "admitted" /\ LoopIsFree
  /\ current' = worker.request
  /\ worker' = [worker EXCEPT !.at = "scanning"]
  /\ LET r == request[worker.request]
     IN  /\ owed' = IF r.full THEN owed \ {r.creator} ELSE owed
         /\ refused' = IF r.full THEN refused \ {r.creator} ELSE refused
  /\ UNCHANGED <<scene, admits, request, pending, queue, getter, call>>

\* The scan ends, however; one that finds the session expired marks it so, and
\* admission refuses its provider's creators.
Finish(expired) ==
  /\ worker.at = "scanning" /\ LoopIsFree
  /\ current' = None
  /\ admits' = IF expired THEN [c \in Creators |-> "none"] ELSE admits
  /\ Done
  /\ UNCHANGED <<scene, pending, queue, getter, call, owed, refused>>

-------------------------------------------------------------------------------
\* The user edits or deletes a creator, switches a provider or signs in again;
\* a download finds the session expired.
ChangeAdmission(c) ==
  /\ c \in scene.creators
  /\ \E answer \in Admissions \ {admits[c]} : admits' = [admits EXCEPT ![c] = answer]
  /\ UNCHANGED <<scene, memory>>

\* A restart forgets what was queued.
Restart ==
  /\ request' = [r \in Requests |-> None]
  /\ pending' = [c \in Creators |-> None]
  /\ queue' = <<>>
  /\ current' = None
  /\ worker' = Waiting
  /\ call' = [t \in Callers |-> NoCall]
  /\ getter' = "none"
  /\ owed' = {} /\ refused' = {}
  /\ UNCHANGED <<scene, admits>>

-------------------------------------------------------------------------------
CallStep(t) ==
  \/ LookForPending(t) \/ GetPending(t) \/ Upgrade(t) \/ LookAtCurrent(t) \/ CompareCurrent(t)
  \/ Put(t) \/ Raise(t)

WorkerStep ==
  FindEmpty \/ Register \/ Take \/ Admit \/ Refuse \/ Begin \/ \E expired \in BOOLEAN : Finish(expired)

Next ==
  \/ \E t \in Callers, c \in Creators, full, automatic \in BOOLEAN : Ask(t, c, full, automatic)
  \/ \E t \in Callers : CallStep(t)
  \/ WorkerStep
  \/ \E c \in Creators : ChangeAdmission(c)
  \/ Restart

Spec == Init /\ [][Next]_vars

\* Callers run to their end.  The event loop runs what is ready in turn, so
\* the worker goes on however often others call on the loop.
Fairness == SF_vars(WorkerStep) /\ \A t \in Callers : WF_vars(CallStep(t))

FairSpec == Spec /\ Fairness

-------------------------------------------------------------------------------
(***************************************************************************)
(* Properties.                                                             *)
(***************************************************************************)
OnItsWay(r) == r \in ToSet(queue) \/ \E t \in Callers : call[t].at = "putting" /\ call[t].request = r

\* A creator in _pending has its own request queued or about to be: else it
\* would be busy, and its scans answered "already queued", for ever.
PendingIsOnItsWay ==
  \A c \in Creators : pending[c] # None => OnItsWay(pending[c]) /\ request[pending[c]].creator = c

\* Only the request that is being scanned is current.
CurrentIsScanned == current # None <=> worker.at = "scanning"

\* Asked on the event loop only, a creator's queued requests are one at most,
\* and it is the pending one, which later calls find.
QueuedIsPending ==
  OnLoopOnly /\ LoopIsFree => \A i \in DOMAIN queue : pending[request[queue[i]].creator] = queue[i]

\* What request_scan looks at tells what there is: neither _pending nor _current
\* names a request that was taken, refused or done, nor misses one.
EntriesAreLive == PendingIsOnItsWay /\ CurrentIsScanned /\ QueuedIsPending

\* A full scan that a pending request took on is still to come, until one is
\* begun (or the process stops), unless admission refused the request when it
\* was already full: an upgraded request keeps its trigger, so that a full scan
\* the user asked for is refused with an automatic request.
FullIsKept ==
  OnLoopOnly /\ LoopIsFree => \A c \in owed \ refused :
    \E r \in ToSet(queue) \cup {worker.request} :
      r # None /\ request[r] # None /\ request[r].creator = c /\ request[r].full

\* Every queued request is scanned or refused (or forgotten in a restart): the
\* worker doesn't rest while there are some, and comes back for the next.  An
\* API thread may put a request that wakes nobody, which waits for the next put
\* of any creator's.
QueueMoves ==
  OnLoopOnly \/ []<><<\E t \in Callers : Put(t)>>_vars =>
    []<>(queue = <<>> \/ worker.at # "waiting") /\ []<>(worker.at = "waiting")

\* "Enqueue a scan; returns False if one is already pending/running for this
\* creator" (scan_manager.py:77): a creator has one request at a time.
OneScanPerCreator ==
  \A c \in Creators :
    Cardinality({r \in ToSet(queue) \cup {worker.request} :
                   r # None /\ request[r].creator = c}) <= 1
===============================================================================
