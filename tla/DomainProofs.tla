---------------------------- MODULE DomainProofs ----------------------------
(***************************************************************************)
(* What holds of the aggregates and records of the domain package for any  *)
(* amounts.  The first part is about a payment alone: its refunds add up   *)
(* to at most the amount, and the methods keep to the table of             *)
(* transitions.  The second part is about the package: what a constructor  *)
(* made, and the methods changed since, can be restored.                   *)
(***************************************************************************)
EXTENDS Domain, TLAPS

(* The amount of a sound payment is positive, so that a new one, with      *)
(* nothing refunded, is not yet REFUNDED.                                  *)
Inv == TypeOK /\ RefundedExactly /\ (sound => payment.amount > 0)

LEMMA InitInv == Init => Inv
  BY PaymentAssumption DEF Init, Inv, TypeOK, RefundedExactly, Created

(* One step keeps the invariant.                                           *)
LEMMA NextInv == Inv /\ [Next]_vars => Inv'
<1> SUFFICES ASSUME Inv, [Next]_vars PROVE Inv'
  OBVIOUS
<1> USE PaymentAssumption DEF Inv, TypeOK, RefundedExactly, Created, Status, Payment, PaymentStatus
<1>1. ASSUME NEW a \in Amounts, NewPayment(a) PROVE Inv'
  <2>1. a \in Int /\ payment' = [amount |-> a, status |-> "PENDING", refunded |-> 0] /\ a > 0 /\ sound'
    BY <1>1 DEF NewPayment
  <2> QED
    BY <2>1
<1>2. ASSUME NEW a \in Amounts, Refund(a) PROVE Inv'
  <2>1. /\ payment \in Payment /\ a \in Int /\ payment.amount \in Int /\ payment.refunded \in Int
        /\ a > 0 /\ a <= payment.amount - payment.refunded
        /\ Status \in {"CAPTURED", "AUTHORIZED"}
        /\ payment' = [payment EXCEPT !.refunded = @ + a, !.status = StatusAfter(payment.refunded + a)]
        /\ UNCHANGED sound
    BY <1>2 DEF Refund, Remaining
  <2>2. /\ payment'.amount = payment.amount
        /\ payment'.refunded = payment.refunded + a
        /\ payment'.status = StatusAfter(payment.refunded + a)
    BY <2>1
  <2>3. /\ payment.refunded + a \in Int
        /\ payment.refunded + a <= payment.amount
        /\ StatusAfter(payment.refunded + a) \in PaymentStatus
        /\ StatusAfter(payment.refunded + a) = "REFUNDED" <=> payment.refunded + a = payment.amount
    BY <2>1 DEF StatusAfter
  <2>4. payment' \in Payment /\ payment' # NoPayment
    BY <2>1, <2>3
  <2>5. sound => payment.refunded + a \in Nat
    BY <2>1
  <2> QED
    BY <2>1, <2>2, <2>3, <2>4, <2>5
<1>3. CASE Authorize
  BY <1>3 DEF Authorize
<1>4. CASE Capture
  BY <1>4 DEF Capture
<1>5. CASE Fail
  BY <1>5 DEF Fail
<1>6. ASSUME NEW a \in Amounts, NEW b \in Amounts, NEW st \in PaymentStatus \cup {Unknown},
             RestorePayment(a, st, b)
      PROVE  Inv'
  <2> DEFINE row == [amount |-> a, status |-> st, refunded |-> b]
  <2>1. /\ a \in Int /\ b \in Int /\ st \in PaymentStatus
        /\ payment' = row
        /\ sound' = Sound(row)
    BY <1>6 DEF RestorePayment, IsValid
  <2>2. row \in Payment /\ row.amount = a /\ row.refunded = b /\ row.status = st
    BY <2>1
  <2> HIDE DEF row
  <2> QED
    BY <2>1, <2>2 DEF Sound
<1>7. CASE UNCHANGED vars
  BY <1>7 DEF vars
<1> QED
  BY <1>1, <1>2, <1>3, <1>4, <1>5, <1>6, <1>7 DEF Next, Restore

LEMMA Invariance == Spec => []Inv
  BY InitInv, NextInv, PTL DEF Spec

(* Every payment is a record of the struct's fields, whatever the methods  *)
(* are called with: TypeOK.                                                *)
THEOREM PaymentTypeCorrect == Spec => []TypeOK
<1>1. Inv => TypeOK
  BY DEF Inv
<1> QED
  BY <1>1, Invariance, PTL

(* However refunds of any amounts are split, before and after the capture, *)
(* those of a payment that was new or restored from a sound row add up to  *)
(* at most the amount, and to all of it exactly when it is REFUNDED:       *)
(* RefundedExactly.                                                        *)
THEOREM NeverRefundedTooMuch == Spec => []RefundedExactly
<1>1. Inv => RefundedExactly
  BY DEF Inv
<1> QED
  BY <1>1, Invariance, PTL

(* The status changes only as CanTransitionTo allows: TableIsKept.         *)
THEOREM TransitionsAllowed == Spec => TableIsKept
<1>1. Inv /\ [Next]_vars
        => [Created => payment'.status = Status \/ <<Status, payment'.status>> \in Transitions]_payment
  <2> SUFFICES ASSUME Inv, Next, Created
               PROVE payment'.status = Status \/ <<Status, payment'.status>> \in Transitions
    BY DEF vars
  <2>0. payment \in Payment
    BY DEF Inv, TypeOK, Created
  <2> USE <2>0 DEF Status, Payment, Transitions
  <2>1. ASSUME NEW a \in Amounts, NewPayment(a) PROVE FALSE
    BY <2>1 DEF NewPayment
  <2>2. ASSUME NEW a \in Amounts, Refund(a)
        PROVE payment'.status = Status \/ <<Status, payment'.status>> \in Transitions
    BY <2>2 DEF Refund, StatusAfter
  <2>3. CASE Authorize
    BY <2>3 DEF Authorize
  <2>4. CASE Capture
    BY <2>4 DEF Capture
  <2>5. CASE Fail
    BY <2>5 DEF Fail
  <2>6. ~Restore
    BY DEF Restore, RestorePayment
  <2> QED
    BY <2>1, <2>2, <2>3, <2>4, <2>5, <2>6 DEF Next
<1> QED
  BY <1>1, Invariance, PTL DEF Spec, TableIsKept

(* A payment that is REFUNDED or FAILED never changes: TerminalIsFinal.    *)
THEOREM TerminalStays == Spec => TerminalIsFinal
<1>1. [Next]_vars => [~(Created /\ IsTerminalState(Status))]_payment
  BY DEF Next, NewPayment, Restore, RestorePayment, Authorize, Capture, Refund, Fail, IsTerminalState, Status, vars
<1> QED
  BY <1>1, PTL DEF Spec, TerminalIsFinal

-----------------------------------------------------------------------------
(* The package.  A transaction that was made or restored has its id, its   *)
(* payment and a positive amount, which the types do not say.              *)
DomainInv ==
  /\ Inv
  /\ M!TypeOK
  /\ X!TypeOK
  /\ transaction # NoRecord => X!Restorable(transaction)

LEMMA DomainInitInv == DomainInit => DomainInv
  BY InitInv DEF DomainInit, DomainInv, M!Init, M!TypeOK, X!Init, X!TypeOK

(* The methods of a merchant.                                              *)
LEMMA MerchantStep == M!TypeOK /\ M!Next => M!TypeOK'
<1> SUFFICES ASSUME M!TypeOK, M!Next PROVE M!TypeOK'
  OBVIOUS
<1> USE DEF M!TypeOK, M!Merchant, M!MerchantStatus
<1>1. ASSUME NEW name \in M!Text, NEW email \in M!Text, NEW hash \in M!Text,
             M!NewMerchant(name, email, hash)
      PROVE  M!TypeOK'
  BY <1>1 DEF M!NewMerchant
<1>2. ASSUME NEW row \in [name : M!Text, email : M!Text, apiKeyHash : M!Text,
                          status : M!MerchantStatus \cup {Unknown}],
             M!RestoreMerchant(row)
      PROVE  M!TypeOK'
  <2>1. row.status \in M!MerchantStatus /\ merchant' = row
    BY <1>2 DEF M!RestoreMerchant, M!Restorable, M!IsValid
  <2> QED
    BY <2>1
<1>3. ASSUME NEW next \in M!MerchantStatus, M!MoveTo(next) PROVE M!TypeOK'
  BY <1>3 DEF M!MoveTo
<1> QED
  BY <1>1, <1>2, <1>3 DEF M!Next, M!Activate, M!Suspend

(* The constructors of a record: the amount is checked, and a moment is    *)
(* dated unless the record was read back with one.                         *)
LEMMA RecordStep ==
  X!TypeOK /\ (transaction # NoRecord => X!Restorable(transaction)) /\ X!Next
    => X!TypeOK' /\ (transaction' # NoRecord => X!Restorable(transaction'))
<1> SUFFICES ASSUME X!TypeOK, transaction # NoRecord => X!Restorable(transaction), X!Next
             PROVE  X!TypeOK' /\ (transaction' # NoRecord => X!Restorable(transaction'))
  OBVIOUS
<1> USE DEF X!TypeOK, X!Transaction, X!AuditEvent, X!Restorable, X!TypeIsValid, X!StatusIsValid
<1>1. ASSUME NEW p \in X!Text, NEW type \in X!Types, NEW st \in X!Statuses, NEW a \in Amounts,
             NEW at \in X!Moments, X!NewTransaction(p, type, st, a, at)
      PROVE  X!TypeOK' /\ X!Restorable(transaction')
  <2>1. X!Dated(at) \in {"given", "now"}
    BY DEF X!Dated, X!Moments
  <2>2. /\ transaction' = [id |-> "given", payment |-> p, type |-> type, status |-> st,
                           amount |-> a, at |-> X!Dated(at)]
        /\ p # "" /\ a > 0 /\ type \in X!TransactionType /\ st \in X!TransactionStatus
        /\ event' = event
    BY <1>1 DEF X!NewTransaction
  <2> QED
    BY <2>1, <2>2 DEF X!Text
<1>2. ASSUME NEW row \in [id : X!Text, payment : X!Text, type : X!Types, status : X!Statuses,
                          amount : Amounts, at : X!Moments],
             X!RestoreTransaction(row)
      PROVE  X!TypeOK' /\ X!Restorable(transaction')
  <2>1. transaction' = row /\ event' = event /\ X!Restorable(row)
    BY <1>2 DEF X!RestoreTransaction
  <2>2. row.at \in {"given", "now"}
    BY <2>1 DEF X!Moments
  <2> QED
    BY <2>1, <2>2
<1>3. ASSUME NEW who \in X!Text, NEW what \in X!Text, NEW where \in X!Text, NEW when \in X!Moments,
             X!NewAuditEvent(who, what, where, when)
      PROVE  X!TypeOK' /\ transaction' = transaction
  <2>1. X!Dated(when) \in {"given", "now"}
    BY DEF X!Dated, X!Moments
  <2>2. /\ event' = [who |-> who, what |-> what, where |-> where, when |-> X!Dated(when)]
        /\ transaction' = transaction
    BY <1>3 DEF X!NewAuditEvent
  <2> QED
    BY <2>1, <2>2
<1> QED
  BY <1>1, <1>2, <1>3 DEF X!Next

LEMMA DomainNextInv == DomainInv /\ [DomainNext]_domainVars => DomainInv'
<1> SUFFICES ASSUME DomainInv, [DomainNext]_domainVars PROVE DomainInv'
  OBVIOUS
<1>1. CASE Next /\ UNCHANGED <<merchant, transaction, event>>
  <2>1. Inv'
    BY <1>1, NextInv DEF DomainInv
  <2> QED
    BY <1>1, <2>1 DEF DomainInv, M!TypeOK, X!TypeOK
<1>2. CASE M!Next /\ UNCHANGED <<vars, transaction, event>>
  <2>1. Inv'
    BY <1>2, NextInv DEF DomainInv
  <2> QED
    BY <1>2, <2>1, MerchantStep DEF DomainInv, X!TypeOK
<1>3. CASE X!Next /\ UNCHANGED <<vars, merchant>>
  <2>1. Inv'
    BY <1>3, NextInv DEF DomainInv
  <2> QED
    BY <1>3, <2>1, RecordStep DEF DomainInv, M!TypeOK
<1>4. CASE UNCHANGED domainVars
  <2>1. Inv'
    BY <1>4, NextInv DEF DomainInv, domainVars
  <2> QED
    BY <1>4, <2>1 DEF DomainInv, domainVars, M!TypeOK, X!TypeOK
<1> QED
  BY <1>1, <1>2, <1>3, <1>4 DEF DomainNext

LEMMA DomainInvariance == DomainSpec => []DomainInv
  BY DomainInitInv, DomainNextInv, PTL DEF DomainSpec

(* The payment, the merchant, the transaction and the event are records of *)
(* their structs' fields, whatever is passed to the constructors, the      *)
(* methods and the Restore functions: DomainTypeOK.                        *)
THEOREM DomainTypeCorrect == DomainSpec => []DomainTypeOK
<1>1. DomainInv => DomainTypeOK
  BY DEF DomainInv, Inv, DomainTypeOK
<1> QED
  BY <1>1, DomainInvariance, PTL

(* The Restore functions and the constructors check different things, yet  *)
(* whatever a constructor or a Restore function made, and the methods      *)
(* changed since, is accepted when it is read back: RestoresWhatItMade.    *)
THEOREM EverythingRestores == DomainSpec => []RestoresWhatItMade
<1>1. DomainInv => RestoresWhatItMade
  BY DEF DomainInv, Inv, TypeOK, Created, Status, Payment, IsValid, RestoresWhatItMade,
         M!TypeOK, M!Merchant, M!Restorable, M!IsValid
<1> QED
  BY <1>1, DomainInvariance, PTL

(* Beside the other aggregates a payment behaves as it does alone, so that *)
(* what is proved of Spec holds of the package.                            *)
THEOREM PaymentUndisturbed == DomainSpec => Spec
<1>1. DomainInit => Init
  BY DEF DomainInit
<1>2. [DomainNext]_domainVars => [Next]_vars
  BY DEF DomainNext, domainVars
<1> QED
  BY <1>1, <1>2, PTL DEF DomainSpec, Spec
=============================================================================
