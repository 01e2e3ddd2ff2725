---------------------------- MODULE DownloadQueue -----------------------------
(***************************************************************************)
(* What the media lifecycle promises its workers and the archive, and      *)
(* nothing of how it decides: which media wait for a download, which       *)
(* worker holds which, and what is in the archive.                         *)
(*                                                                         *)
(* A running download belongs to the worker that took it until that worker *)
(* returns it, the media item is deleted or the process stops; and only a  *)
(* returned download brings its item into the archive.                     *)
(***************************************************************************)
CONSTANTS Media, Workers, None

VARIABLES
  job,          \* whether each media item has a job, and whether it runs
  holder,       \* the media item each worker downloads
  archived      \* media with a file that was archived, wherever that file is now

queueVars == <<job, holder, archived>>

Init ==
  /\ job = [m \in Media |-> "none"]
  /\ holder = [w \in Workers |-> None]
  /\ archived = {}

\* A worker takes a waiting job.
Take(w, m) ==
  /\ holder[w] = None
  /\ job[m] = "queued"
  /\ job' = [job EXCEPT ![m] = "running"]
  /\ holder' = [holder EXCEPT ![w] = m]
  /\ archived' = archived \ {m}

\* It ends it, with a file or without.
Return(w) ==
  /\ holder[w] # None
  /\ job' = [job EXCEPT ![holder[w]] = "none"]
  /\ holder' = [holder EXCEPT ![w] = None]
  /\ archived' \in {archived, archived \cup {holder[w]}}

\* Users, scans and retries queue and unqueue what does not run, and drop
\* items (those in D) with whatever runs for them.
Arrange(D) ==
  /\ job' \in [Media -> {"none", "queued", "running"}]
  /\ \A m \in Media : job'[m] = "running" <=> job[m] = "running" /\ m \notin D
  /\ holder' = [w \in Workers |-> IF holder[w] \in D THEN None ELSE holder[w]]
  /\ archived' \subseteq archived

\* The process stops: what ran waits again.
Restart ==
  /\ job' = [m \in Media |-> IF job[m] = "running" THEN "queued" ELSE job[m]]
  /\ holder' = [w \in Workers |-> None]
  /\ UNCHANGED archived

Next ==
  \/ \E D \in SUBSET Media : Arrange(D)
  \/ \E w \in Workers, m \in Media : Take(w, m)
  \/ \E w \in Workers : Return(w)
  \/ Restart

Spec == Init /\ [][Next]_queueVars
===============================================================================
