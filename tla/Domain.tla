------------------------------- MODULE Domain -------------------------------
(***************************************************************************)
(* The aggregates and records of the domain package that no service uses   *)
(* yet, side by side: a payment, a merchant, a transaction, an audit event.*)
(***************************************************************************)
EXTENDS PaymentAggregate

CONSTANTS NoMerchant, NoRecord

VARIABLES merchant, transaction, event

M == INSTANCE MerchantAggregate
X == INSTANCE TransactionRecord

domainVars == <<vars, merchant, transaction, event>>

DomainInit == Init /\ M!Init /\ X!Init

DomainNext ==
  \/ Next /\ UNCHANGED <<merchant, transaction, event>>
  \/ M!Next /\ UNCHANGED <<vars, transaction, event>>
  \/ X!Next /\ UNCHANGED <<vars, merchant>>

DomainSpec == DomainInit /\ [][DomainNext]_domainVars

-----------------------------------------------------------------------------
DomainTypeOK == TypeOK /\ M!TypeOK /\ X!TypeOK

(* The constructors, the methods and the Restore functions check different *)
(* things: whatever the first two made, and however the methods changed it *)
(* since, the last one accepts when it is read back.                       *)
RestoresWhatItMade ==
  /\ Created => IsValid(Status)
  /\ merchant # NoMerchant => M!Restorable(merchant)
  /\ transaction # NoRecord => X!Restorable(transaction)
=============================================================================
