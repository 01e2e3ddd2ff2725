------------------------------ MODULE UserWishes ------------------------------
(***************************************************************************)
(* The media lifecycle with the memory of what the user last asked of each *)
(* item, to compare what the program does later with it.  The user acts on *)
(* single items and jobs; scans, workers and the retry task do as always.  *)
(***************************************************************************)
EXTENDS MediaLifecycle

VARIABLE asked      \* history: the user's last wish for each item

Ask(m, wish) == asked' = [asked EXCEPT ![m] = wish]

WishInit == Init /\ asked = [m \in Media |-> "nothing"]

UserStep(m) ==
  \/ SkipMedia(m) /\ Ask(m, IF row[m].status = "completed" THEN "nothing" ELSE "skip")
  \/ (UnskipMedia(m) \/ RetryMedia(m) \/ RemoveJob(m)) /\ Ask(m, "nothing")

OtherStep ==
  \/ \E p \in Posts, produced \in SUBSET Media, view, changed, refresh \in BOOLEAN :
       SyncPost(p, produced, view, changed, refresh)
  \/ \E due \in SUBSET Media : RetryDue(due)
  \/ \E w \in Workers : WorkerStep(w)

\* A wish is about the item's row: an item found again is another one.
WishNext ==
  \/ \E m \in Media : UserStep(m)
  \/ OtherStep /\ asked' = [m \in Media |-> IF Present(row'[m]) THEN asked[m] ELSE "nothing"]

WishSpec == WishInit /\ [][WishNext]_<<vars, asked>>

\* "A user skip wins" (lifecycle.py:984): once the user skips an item that is
\* not archived, no download of it starts until the user asks for one.
SkipWins ==
  [][\A m \in Media : asked[m] = "skip" /\ row'[m].status = "downloading"
       => row[m].status = "downloading"]_<<vars, asked>>
===============================================================================
