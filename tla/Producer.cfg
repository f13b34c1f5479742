SPECIFICATION SetupSpec
CONSTANTS
  a1 = a1
  a2 = a2
  s1 = s1
  Networks <- MCNetworks
  Mainnet = "mainnet"
  Addresses = {a1, a2}
  AddressesOf <- MCAddressesOf
  Phrases = {s1}
  MaxIndex = 0
  Derived <- MCDerived
  Passwords = {p}
  Protected = {a2}
  None = None
  MaxAdded <- MCMaxAdded
  Profiles <- MCProfiles
  Keys = {k1, k2, k3}
SYMMETRY Symmetry
CHECK_DEADLOCK FALSE
INVARIANTS MainnetProducerNamed 
