SPECIFICATION FairIssuingSpec
CONSTANTS
  Sessions = {s1, s2}
  UserIds = {u1, u2}
  Emails = {e1, e2}
  Asked = {"", "ADMIN", "OWNER"}
  TokenLife = 1
  MaxTime = 1
  Numbers = {n1, n2}
  Links = {k1, k2}
  Tries = 2
  Faults = {"lost", "late", "crash"}
  MaxFaults = 1
  MaxInt64 = 1
INVARIANTS IssuingTypeOK OneUserPerEmail MerchantsMatchUsers TokensAreBacked RoutersAgree InvoicesIdentified InvoicesHaveMerchants
PROPERTY RequestsEnd
