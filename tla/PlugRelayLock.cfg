CONSTANTS
  Inbox <- LockInbox
  Fresh <- Lamps
  Keys = {}
  BlobMayFail = FALSE
  ConfigBlinks = 0
  FindBlinks = 0
SPECIFICATION Spec
PROPERTIES LockFrameLocks
