------------------------------ MODULE MCFriends ------------------------------
(* Instances of Friends for TLC. *)
EXTENDS Friends, TLC

CONSTANTS ann, ben, cat, j1, j2

\* The request slots are alike.
Slots == Permutations(Jobs)
==============================================================================
