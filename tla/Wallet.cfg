SPECIFICATION TransactionSpec
CONSTANTS
  a1 = a1
  a2 = a2
  a3 = a3
  s1 = s1
  Networks <- MCNetworks
  Mainnet = "mainnet"
  Addresses = {a1, a2, a3}
  AddressesOf <- MCAddressesOf
  Phrases = {s1}
  MaxIndex = 1
  Derived <- MCDerived
  Passwords = {p}
  Protected = {a3}
  None = None
  MaxAdded <- MCMaxAdded
  Attempts = 2
  Profiles <- MCProfiles
VIEW WithoutSigner
CHECK_DEADLOCK FALSE
INVARIANTS WalletTypeOK TransactionTypeOK SessionMirrorsVault SentAsTried AnswersTruthful
PROPERTIES NetworkSigns
