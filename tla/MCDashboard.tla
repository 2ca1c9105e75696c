---------------------------- MODULE MCDashboard -----------------------------
(***************************************************************************)
(* The instance of Dashboard for TLC: everything, or one merchant's rows   *)
(* of the second moment.                                                   *)
(***************************************************************************)
EXTENDS Dashboard

CONSTANTS m1, m2

SomeFilters ==
  {[merchant |-> NoMerchant, period |-> NoPeriod],
   [merchant |-> m1, period |-> [from |-> 1, to |-> 1]]}
=============================================================================
