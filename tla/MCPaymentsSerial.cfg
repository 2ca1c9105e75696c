SPECIFICATION Spec
CONSTANTS
  Sessions = {s1}
  InvoiceIds = {i1, i2}
  IntentIds = {p1, p2}
  Amounts = {0, 1}
  Dues = {0, 1}
  MaxTime = 2
  Window = 1
  Faults = {"lost", "late", "crash"}
  MaxFaults = 2
  MaxInt64 = 9
  NoInvoice = NoInvoice
  NoIntent = NoIntent
INVARIANTS AnsweredIsKept PaymentIsAtomic
PROPERTY SettledIsFrozen
