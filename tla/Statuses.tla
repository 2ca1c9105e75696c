------------------------------ MODULE Statuses ------------------------------
(***************************************************************************)
(* The status machines of the domain entities the services use.  Every     *)
(* mark operation has one target status and is a no-op on an entity that   *)
(* has it already, so a machine is described by the statuses from which    *)
(* each operation succeeds; from any other it answers an                   *)
(* InvalidTransitionError and leaves the entity alone.                     *)
(***************************************************************************)

(* Mistake: the switch refuses nothing.                                    *)
AnyStatus(st) == TRUE

TopUpStatus == {"PENDING", "SUCCESS", "FAILED"}
TopUpCanSucceed(st) == st \in {"PENDING", "SUCCESS"}
TopUpCanFail(st) == st \in {"PENDING", "FAILED"}

RefundStatus == {"REQUESTED", "APPROVED", "REJECTED", "SUCCESS", "FAILED"}
RefundCanApprove(st) == st \in {"REQUESTED", "APPROVED"}
RefundCanReject(st) == st \in {"REQUESTED", "REJECTED"}
RefundCanSucceed(st) == st \in {"APPROVED", "SUCCESS"}
RefundCanFail(st) == st \in {"APPROVED", "FAILED"}

InvoiceStatus == {"PENDING", "PAID", "EXPIRED"}
InvoiceCanBePaid(st) == st \in {"PENDING", "PAID"}
InvoiceCanExpire(st) == st \in {"PENDING", "EXPIRED"}

IntentStatus == {"PENDING", "SUCCESS", "FAILED"}
IntentCanSucceed(st) == st \in {"PENDING", "SUCCESS"}
IntentCanFail(st) == st \in {"PENDING", "FAILED"}
=============================================================================
