SPECIFICATION Spec
CONSTANTS
  m1 = m1
  m2 = m2
  Merchants = {m1, m2}
  Ids = {x1, x2}
  Amounts = {1, 2}
  Filters <- SomeFilters
  MaxTime = 1
  NoMerchant = NoMerchant
  NoPeriod = NoPeriod
INVARIANT AnswersAsTested
CHECK_DEADLOCK FALSE
