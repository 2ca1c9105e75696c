SPECIFICATION Spec
CONSTANTS
  m1 = m1
  Merchants = {m1}
  Sessions = {s1}
  InvoiceIds = {i1}
  RefundIds = {f1, f2}
  Issuer <- OneIssuer
  Amounts = {1, 2}
  Dues = {0}
  MaxTime = 0
  MaxGranted = 4
  Faults = {}
  MaxFaults = 0
  MaxInt64 = 9
  NoWallet = NoWallet
  NoInvoice = NoInvoice
  NoRefund = NoRefund
INVARIANT NeverOverRefunded
