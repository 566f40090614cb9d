SPECIFICATION Spec
SYMMETRY HashesAlike
CONSTANTS
  Hash = {a, b}
  Sizes = {1, 2, 3, 4, 5, 6}
  None = none
INVARIANTS
  UpdateIsRebuild
  RootTellsLeaves
  ProofsSound
  ProofsComplete
