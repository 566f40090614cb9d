SPECIFICATION Spec
CONSTANTS
  a = a
  b = b
  c = c
  s1 = s1
  none = none
  Amounts = {1, 3}
  Addr <- MCAddr
  Slug <- MCSlug
  None = none
  MaxCoin = 12
  MaxNonce = 2
  MinFee = 1
  MinStake = 2
  ValidatorsPerEpoch = 1
  Rank <- MCRank
  GenesisAccounts <- FitAccounts
  GenesisBalance <- FitBalance
  GenesisValidators <- MCValidators
  GenesisPower <- MCPower
  MaxHeight = 3
  BlocksPerEpoch = 2
  RegistrationDuration = 1
  ChallengesPerEpoch = 1
  FailedProofsBeforeSlash = 1
  Reward = 1
  Root = {}
  Spelling = {}
  Transfers <- MCTransfers
  Stakes <- MCStakes
  Unstakes <- MCUnstakes
  Namespaces <- MCNamespaces
  Registers <- NoTx
  Unregisters <- NoTx
  Updates <- NoTx
  Proofs <- NoTx
  MaxCrashes = 1
INVARIANTS
  RestartResumes
CHECK_DEADLOCK FALSE
