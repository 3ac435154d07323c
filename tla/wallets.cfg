\* Two users and one challenge each compete for wallets and an address.
CONSTANTS
  u1 = u1
  u2 = u2
  n1 = n1
  n2 = n2
  a1 = a1
  a2 = a2
  c1 = c1
  c2 = c2
  None = None
  Users = {u1, u2}
  Nonces = {n1, n2}
  Addresses = {a1, a2}
  Calls = {c1, c2}
  Operations <- OneUserAndARival
  MaxCredits = 1
  MaxSigned = 1
SPECIFICATION Spec
INVARIANTS
  WalletsTypeOK
  KeyMatchesAccount
  OneClaimPerAddress
  ChallengeLinksOnce
  SignaturesAreLogged
  
PROPERTIES
  KeyIsFinal
  ExternalIsFinal
  CreditsOnlyCustodial
  
  
