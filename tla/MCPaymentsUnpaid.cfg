SPECIFICATION Spec
CONSTANTS
  Sessions = {s1, s2}
  InvoiceIds = {i1}
  IntentIds = {p1, p2}
  Amounts = {1}
  Dues = {0, 1}
  MaxTime = 2
  Window = 1
  Faults = {}
  MaxFaults = 0
  MaxInt64 = 9
  NoInvoice = NoInvoice
  NoIntent = NoIntent
INVARIANT AnsweredIsPaid
