------------------------------ MODULE MCDomain ------------------------------
(***************************************************************************)
(* The instance of Domain for TLC.                                         *)
(***************************************************************************)
EXTENDS Domain

SmallAmounts == -1 .. 2
=============================================================================
