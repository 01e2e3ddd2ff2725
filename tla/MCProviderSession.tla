---------------------------- MODULE MCProviderSession ----------------------------
(* Instances of ProviderSession for TLC. *)
EXTENDS ProviderSession

\* Nothing tells one session to sign in with from another, so it doesn't matter
\* which one is stored at the start.
First == CHOOSE c \in Credentials : TRUE

MCInit == Init /\ stored = First

MCSpec == MCInit /\ [][Next]_vars /\ Fairness
==================================================================================
