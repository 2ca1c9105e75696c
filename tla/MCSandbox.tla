----------------------------- MODULE MCSandbox ------------------------------
(***************************************************************************)
(* The instance of Sandbox for TLC: one merchant, who owns the invoice.    *)
(* Sessions are interchangeable.                                           *)
(***************************************************************************)
EXTENDS Sandbox, TLC

CONSTANT m1

OneIssuer == [i \in InvoiceIds |-> m1]

Symmetry == Permutations(Sessions)
=============================================================================
