----------------------------- MODULE MCManager -----------------------------
(* Manager with clients that may be exchanged for one another, for runs    *)
(* that check safety only.                                                 *)
EXTENDS Manager, TLC

ClientSymmetry == Permutations(Clients)
=============================================================================
