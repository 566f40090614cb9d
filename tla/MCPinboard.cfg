SPECIFICATION FairSpec
CONSTANTS
  s1 = s1
  s2 = s2
  n1 = n1
  text = text
  tag1 = tag1
  tag2 = tag2
  NoNamespace = none
  Message = {1, 2, 3, 4}
  Content = {1, 2}
  ContentOf <- MCContentOf
  SignerOf <- MCSigner
  TagsOf <- MCTags
  Ttl <- MCTtl
  DefaultTtl = 1
  TypeOf <- MCTypes
  NamespaceOf <- MCNamespace
  OwnerOf <- MCOwner
  AllowedTypes = {text}
  MaxTags = 2
  ScanLimit = 3
  DeleteLimit = 2
  PageSize = 2
  MaxResults = 4
  BlockSize = 2
  MaxHeight = 3
  MaxPosts = 2
  MaxMishaps = 1
INVARIANTS
  
  
  LiveBlobsKept
PROPERTIES
  BlocksCommit
  ExpiredBlobsGo
CHECK_DEADLOCK FALSE
