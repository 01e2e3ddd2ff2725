----------------------------- MODULE MCUserWishes -----------------------------
(* UserWishes for TLC: one media item. *)
EXTENDS UserWishes

CONSTANTS image, post, w1

OnePost == [m \in Media |-> post]
===============================================================================
