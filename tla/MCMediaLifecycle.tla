--------------------------- MODULE MCMediaLifecycle ---------------------------
(* Instances of MediaLifecycle for TLC: a video, which the creator            *)
(* preferences can't exclude, and an image, which they can.                   *)
EXTENDS QueueRefinement, TLC

CONSTANTS video, image, post, oldPost, w1, w2

\* Both media in one post, or the video in a post older than download_since.
OnePost == [m \in Media |-> post]
TwoPosts == [m \in Media |-> IF m = video THEN oldPost ELSE post]

\* Workers differ in name only.
WorkerSymmetry == Permutations(Workers)
===============================================================================
