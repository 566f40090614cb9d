\* Two epochs with a challenge of this node, one fault of each kind.
SPECIFICATION FairSpec
CONSTANTS
  Root = {r1, r2}
  None = None
  MaxNonce = 3
  MaxEpoch = 2
  MaxRounds = 2
  MaxChanges = 1
  MaxOthers = 1
  MaxMishaps = 1
INVARIANTS ClaimsAreOnChain  
PROPERTIES SubmissionsEnd ProofsAreClaimed
CHECK_DEADLOCK FALSE
