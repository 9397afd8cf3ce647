SPECIFICATION Spec
CONSTANTS
  Payments <- MCPayments
  Spellings <- MCSpellings
  Normal <- MCNormal
  NameOf <- MCNameOf
  AmountOf <- MCAmountOf
  Awards <- MCAwards
  MaxLoads = 2
INVARIANTS
  TypeOK
  SummaryAddsUp
  OneRowPerVendor
  AwardsBooked
CHECK_DEADLOCK FALSE
