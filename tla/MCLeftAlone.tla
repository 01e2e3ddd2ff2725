----------------------------- MODULE MCLeftAlone ------------------------------
(* LeftAlone for TLC: two media of one post. *)
EXTENDS LeftAlone

CONSTANTS video, image, post, w1

OnePost == [m \in Media |-> post]
===============================================================================
