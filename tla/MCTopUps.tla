------------------------------ MODULE MCTopUps ------------------------------
(***************************************************************************)
(* Instances of TopUps for TLC.  Ids are interchangeable, and so are       *)
(* sessions; merchants are named because the configurations have one.      *)
(***************************************************************************)
EXTENDS TopUps, TLC

Symmetry == Permutations(Sessions) \cup Permutations(TopUpIds)
=============================================================================
