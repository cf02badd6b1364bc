CONSTANTS
  SceneDocs <- MCSceneDocs
  RunsenDocs <- MCRunsenDocs
  Codes <- MCCodes
  Texts <- MCTexts
  MaxTurns = 3
SPECIFICATION Spec
INVARIANTS TypeOK VirtualConditions CodeConditions OwnCells
CHECK_DEADLOCK FALSE
