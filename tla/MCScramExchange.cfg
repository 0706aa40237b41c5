SPECIFICATION Spec
CONSTANTS
  None = None
  Accounts <- MCAccounts
  Clients = {1, 2, 3}
  Setup <- MCSetup
  MaxExchanges = 3
INVARIANTS
  VerifiedByPasswordHolder
  DoneMeansVerified
  OneAttemptPerExchange
  LastIdentity
PROPERTY ExchangeNotReplaced
