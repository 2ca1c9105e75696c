SPECIFICATION DomainSpec
CONSTANTS
  Amounts <- SmallAmounts
  Unknown = "UNKNOWN"
  NoPayment = NoPayment
  NoMerchant = NoMerchant
  NoRecord = NoRecord
INVARIANTS DomainTypeOK RefundedExactly RestoresWhatItMade
PROPERTY TableIsKept
CHECK_DEADLOCK FALSE
