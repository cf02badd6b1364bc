CONSTANTS
  Inbox <- FrameInbox
  Fresh <- LampAndRemote
  Keys = {"press"}
  BlobMayFail = FALSE
  ConfigBlinks = 0
  FindBlinks = 0
SPECIFICATION FairSpec
INVARIANTS CoilReleased
PROPERTIES FramesFinish
