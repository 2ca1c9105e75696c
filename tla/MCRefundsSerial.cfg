SPECIFICATION Spec
CONSTANTS
  m1 = m1
  Merchants = {m1}
  Sessions = {s1}
  InvoiceIds = {i1}
  RefundIds = {f1, f2}
  Issuer <- OneIssuer
  Amounts = {0, 1, 2}
  Dues = {0, 1}
  MaxTime = 2
  MaxGranted = 4
  Faults = {"lost", "late", "crash"}
  MaxFaults = 2
  MaxInt64 = 9
  NoWallet = NoWallet
  NoInvoice = NoInvoice
  NoRefund = NoRefund
SYMMETRY Symmetry
INVARIANTS AckedIsCovered RefundFitsInvoice
PROPERTIES StatusIsFinal StoredWithinMax
