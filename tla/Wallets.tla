------------------------------ MODULE Wallets -------------------------------
(***************************************************************************)
(* The wallets table and its PostgreSQL repository.  There is at most one  *)
(* wallet per merchant (wallets.merchant_id is UNIQUE) and none is ever    *)
(* deleted.  The operators below are the table after a statement.          *)
(***************************************************************************)
EXTENDS Database

CONSTANTS Merchants, NoWallet

ASSUME WalletAssumption == NoWallet \notin Int

VARIABLE wallets   \* wallets[m]: the balance of merchant m, or NoWallet

HasWallet(m) == wallets[m] # NoWallet

(* INSERT of a wallet with balance 0; refused by the UNIQUE column when    *)
(* the merchant has one.                                                   *)
WalletCreate(m) ==
  IF HasWallet(m) THEN wallets ELSE [wallets EXCEPT ![m] = 0]

(* Mistake: the balance is added to the one stored.                        *)
WalletSaveRelative(m, b) ==
  IF HasWallet(m) THEN [wallets EXCEPT ![m] = @ + b] ELSE wallets

(* UPDATE wallets SET balance = b WHERE merchant_id = m: an absolute       *)
(* value, and no error when there is no such row.                          *)
WalletSave(m, b) ==
  IF HasWallet(m) THEN [wallets EXCEPT ![m] = b] ELSE wallets

Balance(m) == IF HasWallet(m) THEN wallets[m] ELSE 0

WalletsTypeOK == wallets \in [Merchants -> Int64 \cup {NoWallet}]
=============================================================================
