SPECIFICATION Spec
CONSTANTS
  Sessions = {s1, s2}
  InvoiceIds = {i1}
  IntentIds = {p1}
  Amounts = {0, 1}
  Dues = {0, 1}
  MaxTime = 2
  Window = 1
  Faults = {"lost", "late", "crash"}
  MaxFaults = 1
  MaxInt64 = 9
  NoInvoice = NoInvoice
  NoIntent = NoIntent
SYMMETRY Symmetry
INVARIANTS TypeOK IntentHasInvoice PaidWasConfirmed ExpiredWasOverdue
PROPERTIES DeletedStaysDeleted PaidNeverDeleted
