\* one feed, two requests at a time, a limit of two, any failures
CONSTANTS
  Feeds = {f1, f2}
  NoFeed = NoFeed
  Attachments = {a1, a2, a3, a4}
  NoAttachment = NoAttachment
  Calls = {k1, k2}
  NoCall = NoCall
  MaxFeedAttachments = 2
  Driver = "minio"
  RootFolder = RootFolder
SPECIFICATION Spec
SYMMETRY Symmetry
INVARIANTS TypeOK OverrunBound RowsKeepFiles
\* the ids are few: when they are used up and the feeds deleted, nothing is left to do
CHECK_DEADLOCK FALSE
