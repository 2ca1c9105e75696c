----------------------------- MODULE MCRefunds ------------------------------
(***************************************************************************)
(* Instances of Refunds for TLC: one merchant, who owns every invoice.     *)
(* Sessions and refund ids are interchangeable.                            *)
(***************************************************************************)
EXTENDS Refunds, TLC

CONSTANT m1

OneIssuer == [i \in InvoiceIds |-> m1]

Symmetry == Permutations(Sessions) \cup Permutations(RefundIds)
=============================================================================
