\* one request at a time on the WebDAV adapter
CONSTANTS
  Feeds = {f1, f2}
  NoFeed = NoFeed
  Attachments = {a1, a2}
  NoAttachment = NoAttachment
  Calls = {k1}
  NoCall = NoCall
  MaxFeedAttachments = 2
  Driver = "nextcloud"
  RootFolder = RootFolder
SPECIFICATION Spec
SYMMETRY Symmetry
INVARIANT DeletedFeedsLeaveNothing
\* the ids are few: when they are used up and the feeds deleted, nothing is left to do
CHECK_DEADLOCK FALSE
