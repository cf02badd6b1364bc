CONSTANTS
  Kept = 1
  Wiped = 2
  Content <- MCContent
  MeshContent <- MCMeshContent
  Requests = 3
  Timeout = 2
  Word = 8
  BeginTries = 2
SPECIFICATION FairSpec
INVARIANTS TypeOK PanelIsOneShot ConfiguredIsComplete SettingsWhole TimeoutExact
PROPERTIES PanelCloses RebootHappens
