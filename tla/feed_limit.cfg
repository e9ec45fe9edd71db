\* two requests at once on the MinIO adapter, a limit of one
CONSTANTS
  Feeds = {f1}
  NoFeed = NoFeed
  Attachments = {a1, a2}
  NoAttachment = NoAttachment
  Calls = {k1, k2}
  NoCall = NoCall
  MaxFeedAttachments = 1
  Driver = "minio"
  RootFolder = RootFolder
SPECIFICATION Spec
SYMMETRY Symmetry
INVARIANT AttachmentLimit
\* the ids are few: when they are used up and the feed deleted, nothing is left to do
CHECK_DEADLOCK FALSE
