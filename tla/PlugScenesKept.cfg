CONSTANTS
  SceneDocs <- MCSceneDocs
  RunsenDocs <- MCRunsenDocs
  Codes <- MCCodes
  Texts <- MCTexts
  MaxTurns = 3
SPECIFICATION Spec
INVARIANT SceneKept
CHECK_DEADLOCK FALSE
