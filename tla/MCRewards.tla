------------------------------ MODULE MCRewards ------------------------------
(* Requests, rewards and users are symmetric.                              *)
EXTENDS Rewards, TLC

MCSymmetry == Permutations(Requests) \cup Permutations(Users) \cup Permutations(Rewards)
=============================================================================
