CONSTANTS
  Inbox <- HoldInbox
  Fresh <- Remotes
  Keys = {}
  BlobMayFail = FALSE
  ConfigBlinks = 0
  FindBlinks = 0
SPECIFICATION FairSpec
PROPERTIES HoldExpires
