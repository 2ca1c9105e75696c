------------------------- MODULE TransactionRecord -------------------------
(***************************************************************************)
(* The transaction records and audit events of the domain package: values  *)
(* that are checked when they are made or restored and never change after. *)
(* A text is empty or not, a moment is given or is the zero time.          *)
(***************************************************************************)
EXTENDS Integers

CONSTANTS
  Amounts,   \* the amounts callers pass, of either sign
  Unknown,   \* a type or status that is none of the package
  NoRecord

Text == {"", "given"}
Moments == {"zero", "given"}

TransactionType == {"AUTHORIZATION", "CAPTURE", "REFUND", "REVERSAL"}
TransactionStatus == {"PENDING", "SUCCESS", "FAILED"}

Transaction == [id : Text, payment : Text, type : TransactionType, status : TransactionStatus,
                amount : Amounts, at : {"given", "now"}]
AuditEvent == [who : Text, what : Text, where : Text, when : {"given", "now"}]

VARIABLES transaction, event

-----------------------------------------------------------------------------
TypeIsValid(type) == type \in TransactionType
StatusIsValid(st) == st \in TransactionStatus

(* The zero time stands for the present.                                   *)
Dated(at) == IF at = "zero" THEN "now" ELSE at

(* Mistake: the zero time is kept.                                         *)
NewTransactionUndated(p, type, st, a, at) ==
  /\ transaction = NoRecord
  /\ p # "" /\ TypeIsValid(type) /\ StatusIsValid(st) /\ a > 0
  /\ transaction' = [id |-> "given", payment |-> p, type |-> type, status |-> st,
                     amount |-> a, at |-> at]
  /\ UNCHANGED event

NewTransaction(p, type, st, a, at) ==
  /\ transaction = NoRecord
  /\ p # "" /\ TypeIsValid(type) /\ StatusIsValid(st) /\ a > 0
  /\ transaction' = [id |-> "given", payment |-> p, type |-> type, status |-> st,
                     amount |-> a, at |-> Dated(at)]
  /\ UNCHANGED event

(* RestoreTransaction refuses the zero time, and an empty id.              *)
Restorable(row) ==
  /\ row.id # "" /\ row.payment # ""
  /\ TypeIsValid(row.type) /\ StatusIsValid(row.status)
  /\ row.amount > 0
  /\ row.at # "zero"

RestoreTransaction(row) ==
  /\ transaction = NoRecord
  /\ Restorable(row)
  /\ transaction' = row
  /\ UNCHANGED event

NewAuditEvent(who, what, where, when) ==
  /\ event = NoRecord
  /\ who # "" /\ what # "" /\ where # ""
  /\ event' = [who |-> who, what |-> what, where |-> where, when |-> Dated(when)]
  /\ UNCHANGED transaction

Init == transaction = NoRecord /\ event = NoRecord

Types == TransactionType \cup {Unknown}
Statuses == TransactionStatus \cup {Unknown}

Next ==
  \/ \E p \in Text, type \in Types, st \in Statuses, a \in Amounts, at \in Moments :
       NewTransaction(p, type, st, a, at)
  \/ \E row \in [id : Text, payment : Text, type : Types, status : Statuses,
                 amount : Amounts, at : Moments] : RestoreTransaction(row)
  \/ \E who, what, where \in Text, when \in Moments : NewAuditEvent(who, what, where, when)

Spec == Init /\ [][Next]_<<transaction, event>>

-----------------------------------------------------------------------------
TypeOK ==
  /\ transaction \in Transaction \cup {NoRecord}
  /\ event \in AuditEvent \cup {NoRecord}
=============================================================================
