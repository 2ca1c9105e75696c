-------------------------- MODULE PaymentAggregate --------------------------
(***************************************************************************)
(* The Payment aggregate of the domain package: one payment, from its      *)
(* creation to the end of its life.  A method that answers an error leaves *)
(* the payment alone and is no step.  The merchant, the currency and the   *)
(* timestamps play no part and are left out.                               *)
(***************************************************************************)
EXTENDS Integers

CONSTANTS
  Amounts,   \* the amounts callers pass, int64 values of either sign
  Unknown,   \* a status that is none of the package
  NoPayment

PaymentStatus == {"PENDING", "AUTHORIZED", "CAPTURED", "REFUNDED", "FAILED"}
Payment == [amount : Amounts, status : PaymentStatus, refunded : Int]

ASSUME PaymentAssumption == Amounts \subseteq Int /\ NoPayment \notin Payment

VARIABLES
  payment,
  sound     \* history: the payment was new, or restored from a row that was Sound

vars == <<payment, sound>>

Status == payment.status

Created == payment # NoPayment

(* CanTransitionTo                                                         *)
Transitions ==
  {<<"PENDING", "AUTHORIZED">>, <<"PENDING", "FAILED">>,
   <<"AUTHORIZED", "CAPTURED">>, <<"AUTHORIZED", "REFUNDED">>, <<"AUTHORIZED", "FAILED">>,
   <<"CAPTURED", "REFUNDED">>}

IsTerminalState(st) == st \in {"REFUNDED", "FAILED"}

-----------------------------------------------------------------------------
NewPayment(a) ==
  /\ ~Created
  /\ a > 0
  /\ payment' = [amount |-> a, status |-> "PENDING", refunded |-> 0]
  /\ sound' = TRUE

(* Mistake: any status is taken.                                           *)
AnyPaymentStatus(st) == TRUE

IsValid(st) == st \in PaymentStatus

(* "data integrity from persistence": the amounts of a row that was stored *)
(* as one of the aggregate's own.                                          *)
Sound(row) ==
  /\ row.amount > 0
  /\ row.refunded \in 0 .. row.amount
  /\ row.status = "REFUNDED" <=> row.refunded = row.amount

(* RestorePayment checks the status and takes the rest as it is.           *)
RestorePayment(a, st, b) ==
  LET row == [amount |-> a, status |-> st, refunded |-> b] IN
  /\ ~Created
  /\ IsValid(st)
  /\ payment' = row
  /\ sound' = Sound(row)

Authorize ==
  /\ Created
  /\ Status = "PENDING"
  /\ payment' = [payment EXCEPT !.status = "AUTHORIZED"]
  /\ UNCHANGED sound

Capture ==
  /\ Created
  /\ Status = "AUTHORIZED"
  /\ payment' = [payment EXCEPT !.status = "CAPTURED"]
  /\ UNCHANGED sound

(* Mistake: what was refunded before is not counted.                       *)
RemainingIgnored == payment.amount

Remaining == payment.amount - payment.refunded

StatusAfter(refunded) == IF refunded >= payment.amount THEN "REFUNDED" ELSE Status

(* Mistake: the sign of the amount is not checked.                         *)
RefundAnySign(a) ==
  /\ Created
  /\ Status \in {"CAPTURED", "AUTHORIZED"}
  /\ a <= Remaining
  /\ payment' = [payment EXCEPT !.refunded = @ + a, !.status = StatusAfter(payment.refunded + a)]
  /\ UNCHANGED sound

Refund(a) ==
  /\ Created
  /\ Status \in {"CAPTURED", "AUTHORIZED"}
  /\ a > 0
  /\ a <= Remaining
  /\ payment' = [payment EXCEPT !.refunded = @ + a, !.status = StatusAfter(payment.refunded + a)]
  /\ UNCHANGED sound

(* Mistake: a payment may fail in any state.                               *)
FailAnytime ==
  /\ Created
  /\ payment' = [payment EXCEPT !.status = "FAILED"]
  /\ UNCHANGED sound

Fail ==
  /\ Created
  /\ Status \in {"PENDING", "AUTHORIZED"}
  /\ payment' = [payment EXCEPT !.status = "FAILED"]
  /\ UNCHANGED sound

Init == payment = NoPayment /\ sound = FALSE

Restore ==
  \E a, b \in Amounts, st \in PaymentStatus \cup {Unknown} : RestorePayment(a, st, b)

Next ==
  \/ \E a \in Amounts : NewPayment(a) \/ Refund(a)
  \/ Restore
  \/ Authorize
  \/ Capture
  \/ Fail

Spec == Init /\ [][Next]_vars

-----------------------------------------------------------------------------
TypeOK ==
  /\ payment \in Payment \cup {NoPayment}
  /\ sound \in BOOLEAN
  /\ sound => Created /\ payment.refunded \in Nat

(* Any sequence of partial refunds, before and after the capture, of a     *)
(* payment that was new or restored from a sound row returns at most the   *)
(* amount, and the payment is REFUNDED exactly when all of it was returned.*)
RefundedExactly ==
  Created /\ sound => /\ payment.refunded <= payment.amount
                      /\ Status = "REFUNDED" <=> payment.refunded = payment.amount

(* The methods and the table of CanTransitionTo, which none of them uses,  *)
(* agree.                                                                  *)
TableIsKept ==
  [][Created => payment'.status = Status \/ <<Status, payment'.status>> \in Transitions]_payment

(* A terminal payment never changes again, its refunds included.           *)
TerminalIsFinal == [][~(Created /\ IsTerminalState(Status))]_payment
=============================================================================
