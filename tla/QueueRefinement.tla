--------------------------- MODULE QueueRefinement ----------------------------
(***************************************************************************)
(* The media lifecycle implements the download queue: a row's job is the   *)
(* item's job, a claim's media item is what its worker holds (none once    *)
(* its row is gone), and completed and missing items are the archive.      *)
(***************************************************************************)
EXTENDS MediaLifecycle

Queue == INSTANCE DownloadQueue WITH
  job <- [m \in Media |-> row[m].job],
  holder <- [w \in Workers |-> claim[w].media],
  archived <- {m \in Media : Archived(row[m])}

\* However clicks, scans, retries, file checks, deletions and restarts come in
\* between, a download is taken by one worker and ends with it, and nothing but
\* such an end archives an item (lifecycle.py start_download, record_outcome).
ImplementsQueue == Queue!Spec
===============================================================================
