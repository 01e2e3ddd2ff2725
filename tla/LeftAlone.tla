------------------------------ MODULE LeftAlone -------------------------------
(***************************************************************************)
(* The media lifecycle when, from some moment on, the user and the scans   *)
(* leave it alone: only the download workers and the retry task go on.     *)
(* What they do by themselves must come to an end.                         *)
(***************************************************************************)
EXTENDS MediaLifecycle

VARIABLE alone

Leave == ~alone /\ alone' = TRUE /\ UNCHANGED vars

Automatic ==
  \/ \E due \in SUBSET Media : RetryDue(due)
  \/ \E w \in Workers : WorkerStep(w)

AloneNext ==
  \/ ~alone /\ Next /\ UNCHANGED alone
  \/ Leave
  \/ alone /\ Automatic /\ UNCHANGED alone

\* A queued job is claimed some time: the queue is not paused, the creator is
\* enabled and its provider's limits let another download start.
AloneSpec ==
  /\ Init /\ alone = FALSE
  /\ [][AloneNext]_<<vars, alone>>
  /\ Fairness
  /\ \A w \in Workers : WF_vars(\E m \in Media : Start(w, m))

\* A signed-out provider's failures don't count as attempts (lifecycle.py:699).
SignedOut == \E w \in Workers : Record(w, "auth")

Drained ==
  \A m \in Media : row[m].job = "none" /\ ~(row[m].status = "failed" /\ row[m].wanted)

\* Unless the provider stays signed out, the attempt limit ends every chain of
\* retries: the queue drains, whatever state it was left in.
QueueDrains == []<><<SignedOut>>_vars \/ (alone ~> Drained)
===============================================================================
