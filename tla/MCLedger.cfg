SPECIFICATION Spec
CONSTANTS
  a = a
  b = b
  c = c
  s1 = s1
  none = none
  Amounts = {1, 5}
  Addr <- MCAddr
  Slug <- MCSlug
  None = none
  MaxCoin = 7
  MaxNonce = 2
  MinFee = 1
  MinStake = 2
  ValidatorsPerEpoch = 1
  Rank <- MCRank
  GenesisAccounts <- FitAccounts
  GenesisBalance <- WideBalance
  GenesisValidators <- MCValidators
  GenesisPower <- MCPower
  MaxHeight = 3
  BlocksPerEpoch = 2
  RegistrationDuration = 1
  ChallengesPerEpoch = 1
  FailedProofsBeforeSlash = 1
  Reward = 1
  Root = {}
  Spelling = {}
  Transfers <- MCTransfers
  Stakes <- MCStakes
  Unstakes <- MCUnstakes
  Namespaces <- MCNamespaces
  Registers <- NoTx
  Unregisters <- NoTx
  Updates <- NoTx
  Proofs <- NoTx
  MaxCrashes = 1
INVARIANTS
  TypeOK
  
  RestartKeepsCommitted
PROPERTIES
  NoncesNeverGoBack
CHECK_DEADLOCK FALSE
