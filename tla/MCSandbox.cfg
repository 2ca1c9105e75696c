SPECIFICATION SandboxSpec
CONSTANTS
  m1 = m1
  Merchants = {m1}
  Sessions = {s1, s2}
  InvoiceIds = {i1}
  RefundIds = {f1}
  TopUpIds = {t1}
  Keys = {""}
  Issuer <- OneIssuer
  Amounts = {2}
  Dues = {0, 1}
  MaxTime = 2
  MaxGranted = 2
  Faults = {"lost", "late", "crash"}
  MaxFaults = 1
  MaxInt64 = 4
  NoWallet = NoWallet
  NoInvoice = NoInvoice
  NoRefund = NoRefund
  NoTopUp = NoTopUp
SYMMETRY Symmetry
INVARIANTS SandboxTypeOK NothingMinted AllAckedIsCovered CreditedWasApproved SuccessWasCredited
