----------------------------- MODULE MCPayments -----------------------------
(***************************************************************************)
(* Instances of Payments for TLC.  Sessions and ids are interchangeable.   *)
(***************************************************************************)
EXTENDS Payments, TLC

Symmetry == Permutations(Sessions) \cup Permutations(IntentIds) \cup Permutations(InvoiceIds)
=============================================================================
