SPECIFICATION Spec
CONSTANTS
  cp1 = cp1
  cp2 = cp2
  r1 = r1
  r2 = r2
  none = none
  ProofHeights = {2, 3}
  Flags = {TRUE, FALSE}
  Addr <- MCAddr
  Slug = {}
  None = none
  MaxCoin = 12
  MaxNonce = 3
  MinFee = 1
  MinStake = 1
  ValidatorsPerEpoch = 1
  Rank <- MCRank
  GenesisAccounts <- MCAddr
  GenesisBalance <- MCBalance
  GenesisValidators <- MCAddr
  GenesisPower <- MCPower
  MaxHeight = 5
  BlocksPerEpoch = 2
  RegistrationDuration = 2
  ChallengesPerEpoch = 1
  FailedProofsBeforeSlash = 2
  Reward = 2
  Root = {r1, r2}
  Spelling = {"lower"}
  Transfers <- NoTx
  Stakes <- NoTx
  Unstakes <- NoTx
  Namespaces <- NoTx
  Registers <- MCRegisters
  Unregisters <- MCUnregisters
  Updates <- MCUpdates
  Proofs <- MCProofs
  MaxCrashes = 1
INVARIANTS
  OneOutcomePerChallengeId
  RewardsMatchMarkers
  OutcomesWereChallenges
  SlashesAreEarned
CHECK_DEADLOCK FALSE
