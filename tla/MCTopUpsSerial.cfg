SPECIFICATION Spec
CONSTANTS
  Merchants = {m1}
  Sessions = {s1}
  TopUpIds = {t1, t2}
  Keys = {"", "k"}
  Amounts = {0, 1, 2}
  MaxGranted = 4
  Faults = {"lost", "late", "crash"}
  MaxFaults = 2
  MaxInt64 = 9
  NoWallet = NoWallet
  NoTopUp = NoTopUp
INVARIANTS AckedIsCovered AckedStaysSuccess AllOrNothing
PROPERTIES StatusIsFinal LedgerSpec
