CONSTANTS
  Kept = 1
  Wiped = 1
  Content <- MCContent
  MeshContent <- MCMeshContent
  Requests = 1
  Timeout = 2
  Word = 8
  BeginTries = 1
SPECIFICATION FairSpec
PROPERTIES SendallIsOneShot
