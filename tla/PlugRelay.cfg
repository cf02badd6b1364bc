CONSTANTS
  Inbox <- SafetyInbox
  Fresh <- LampAndUnused
  Keys = {"press", "learn", "config"}
  BlobMayFail = TRUE
  ConfigBlinks = 1
  FindBlinks = 2
SPECIFICATION Spec
INVARIANTS TypeOK Coherent Durable Reported CoilReleased RecordIsStored TypeCommitsLast
ACTION_CONSTRAINT Apart
