---------------------------- MODULE TopUpLedger -----------------------------
(***************************************************************************)
(* What the top-up service promises: a top-up is opened once per merchant  *)
(* and key, then settled or declined in one indivisible step, and settling *)
(* adds its amount to the merchant's balance.  Settling a settled top-up   *)
(* adds the amount again: that is what the service does on a repeated      *)
(* success, see CreditedOnce in TopUps.  The promise holds while it is     *)
(* kept by the database (intact); nothing is promised after that.          *)
(***************************************************************************)
EXTENDS Integers

CONSTANTS Merchants, TopUpIds, Keys, NoTopUp

VARIABLES
  balance,  \* the balance of each merchant
  topups,   \* the top-up of each id, or NoTopUp
  intact    \* whether the promise still holds

Init ==
  /\ balance = [m \in Merchants |-> 0]
  /\ topups = [t \in TopUpIds |-> NoTopUp]
  /\ intact = TRUE

Open(t) ==
  /\ topups[t] = NoTopUp
  /\ topups'[t] # NoTopUp
  /\ topups'[t].status = "PENDING"
  /\ \A u \in TopUpIds \ {t} :
       topups[u] # NoTopUp => <<topups[u].merchant, topups[u].key>>
                                # <<topups'[t].merchant, topups'[t].key>>
  /\ topups' = [topups EXCEPT ![t] = topups'[t]]
  /\ UNCHANGED <<balance, intact>>

Settle(t) ==
  /\ topups[t] # NoTopUp
  /\ topups[t].status # "FAILED"
  /\ topups' = [topups EXCEPT ![t].status = "SUCCESS"]
  /\ balance' = [balance EXCEPT ![topups[t].merchant] = @ + topups[t].amount]
  /\ UNCHANGED intact

Decline(t) ==
  /\ topups[t] # NoTopUp
  /\ topups[t].status = "PENDING"
  /\ topups' = [topups EXCEPT ![t].status = "FAILED"]
  /\ UNCHANGED <<balance, intact>>

(* More went wrong than the promise allows for.                            *)
Break == intact' = FALSE

Next == (\E t \in TopUpIds : Open(t) \/ Settle(t) \/ Decline(t)) \/ Break

Spec == Init /\ [][Next]_<<balance, topups, intact>>
=============================================================================
