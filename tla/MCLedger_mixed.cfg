SPECIFICATION FairSpec
CONSTANTS
  Sessions = {s1, s2, s3}
  NoSession = NoSession
  Keys = {"inv1", "inv2", "inv3"}
  Accounts <- MCAccounts
  Names <- MCNames
  AccountType <- MCAccountType
  AllowNegative <- MCAllowNegative
  Opening <- MCOpening
  Requests <- MixedRequests
INVARIANTS
  TypeOK
  BalanceMatchesEntries
  TrialBalance
  NoOverdraft
  KeyPostedOnce
  ReplyTruthful
  NoLockCycle
PROPERTIES
  ImplementsBook
  EveryRequestAnswered
