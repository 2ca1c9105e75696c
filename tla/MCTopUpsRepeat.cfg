SPECIFICATION Spec
CONSTANTS
  Merchants = {m1}
  Sessions = {s1}
  TopUpIds = {t1, t2}
  Keys = {"j", "k"}
  Amounts = {1}
  MaxGranted = 3
  Faults = {}
  MaxFaults = 0
  MaxInt64 = 9
  NoWallet = NoWallet
  NoTopUp = NoTopUp
PROPERTY CreditedOnce
