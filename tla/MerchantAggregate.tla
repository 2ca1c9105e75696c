------------------------- MODULE MerchantAggregate -------------------------
(***************************************************************************)
(* The Merchant aggregate of the domain package: one merchant and its      *)
(* status.  Of the name, the email and the hash of the API key only        *)
(* whether they are empty matters.  A method that answers an error leaves  *)
(* the merchant alone and is no step.                                      *)
(***************************************************************************)
CONSTANTS
  Unknown,     \* a status that is none of the package
  NoMerchant   \* there is no merchant yet

Text == {"", "given"}

MerchantStatus == {"PENDING", "ACTIVE", "SUSPENDED", "INACTIVE"}
Merchant == [name : Text, email : Text, apiKeyHash : Text, status : MerchantStatus]

VARIABLE merchant

-----------------------------------------------------------------------------
IsValid(st) == st \in MerchantStatus

CanTransitionTo(st, next) ==
  <<st, next>> \in {<<"PENDING", "ACTIVE">>, <<"PENDING", "SUSPENDED">>, <<"PENDING", "INACTIVE">>,
                    <<"ACTIVE", "SUSPENDED">>, <<"ACTIVE", "INACTIVE">>,
                    <<"SUSPENDED", "ACTIVE">>, <<"SUSPENDED", "INACTIVE">>}

NewMerchant(name, email, hash) ==
  /\ merchant = NoMerchant
  /\ name # "" /\ email # "" /\ hash # ""
  /\ merchant' = [name |-> name, email |-> email, apiKeyHash |-> hash, status |-> "PENDING"]

(* RestoreMerchant checks the status only.                                 *)
Restorable(row) == IsValid(row.status)

RestoreMerchant(row) ==
  /\ merchant = NoMerchant
  /\ Restorable(row)
  /\ merchant' = row

MoveTo(next) ==
  /\ merchant # NoMerchant
  /\ CanTransitionTo(merchant.status, next)
  /\ merchant' = [merchant EXCEPT !.status = next]

Activate == MoveTo("ACTIVE")
Suspend == MoveTo("SUSPENDED")

Init == merchant = NoMerchant

Next ==
  \/ \E name, email, hash \in Text : NewMerchant(name, email, hash)
  \/ \E row \in [name : Text, email : Text, apiKeyHash : Text, status : MerchantStatus \cup {Unknown}] :
       RestoreMerchant(row)
  \/ Activate
  \/ Suspend

Spec == Init /\ [][Next]_merchant

-----------------------------------------------------------------------------
TypeOK == merchant \in Merchant \cup {NoMerchant}
=============================================================================
