SPECIFICATION Spec
CONSTANTS
  Merchants = {m1}
  Sessions = {s1, s2}
  TopUpIds = {t1, t2}
  Keys = {"", "k"}
  Amounts = {0, 1, 2}
  MaxGranted = 3
  Faults = {"lost", "late", "crash"}
  MaxFaults = 1
  MaxInt64 = 3
  NoWallet = NoWallet
  NoTopUp = NoTopUp
SYMMETRY Symmetry
INVARIANTS TypeOK NeverMinted SuccessWasCredited OneTopUpPerKey
PROPERTY NeverReopened
