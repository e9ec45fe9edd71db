---------------------------- MODULE CompanyFeed ----------------------------
(***************************************************************************)
(* The company feed and its attachments (UATHandler: CreateFeed,           *)
(* DeleteFeed, UploadFeedAttachment, DeleteFeedAttachment).  The rows are  *)
(* in PostgreSQL, the files in object storage.  An upload holds the lock   *)
(* of the feed's row, but counts the attachments in the same statement,    *)
(* and so in a snapshot older than the lock.                               *)
(*                                                                         *)
(* The text of a feed is left out, and with it UpdateFeed.                 *)
(***************************************************************************)
EXTENDS ObjectStorage, Naturals, FiniteSets

CONSTANTS
  Feeds, NoFeed,
  Attachments, NoAttachment,   \* attachment ids
  Calls, NoCall,
  MaxFeedAttachments

VARIABLES
  feed,         \* company_feeds
  attachment,   \* company_feed_attachments: the feed of a row
  object,       \* the objects stored
  minted,       \* ids uuid.New has returned
  call,         \* requests in progress
  failed        \* attachments a request of which failed half way (for the properties)

vars == <<feed, attachment, object, minted, call, failed>>

Steps == {"counted", "locked", "stored", "withdrawing",  \* UploadFeedAttachment
          "found", "emptied",                            \* DeleteFeedAttachment
          "listed", "cleaning"}                          \* DeleteFeed
Call == [step : Steps, feed : Feeds, attachment : Attachments \cup {NoAttachment},
         full : BOOLEAN, todo : SUBSET Attachments]

ASSUME FeedAssumption ==
  /\ NoFeed \notin Feeds /\ NoAttachment \notin Attachments /\ NoCall \notin Call
  /\ MaxFeedAttachments \in Nat \ {0}
ASSUME FiniteAssumption == IsFiniteSet(Attachments) /\ IsFiniteSet(Calls)
ASSUME FolderAssumption == RootFolder \notin Feeds   \* the id of a feed is a UUID

Init ==
  /\ feed = [f \in Feeds |-> "unpublished"]
  /\ attachment = [a \in Attachments |-> NoFeed]
  /\ object = {}
  /\ minted = {} /\ failed = {}
  /\ call = [k \in Calls |-> NoCall]

At(k, step) == call[k] # NoCall /\ call[k].step = step
Answer(k) == call' = [call EXCEPT ![k] = NoCall]
Advance(k, step) == call' = [call EXCEPT ![k].step = step]

(* the path of a file: its feed and its attachment; and stored_path of the row *)
ObjectPath(f, a) == <<f, a>>
StoredPath(f, a) == Location(ObjectPath(f, a))

AttachmentsOf(f) == {a \in Attachments : attachment[a] = f}

(* SELECT ... FOR UPDATE is held to the end of the upload's transaction *)
Locked(f) == \E k \in Calls : (At(k, "locked") \/ At(k, "stored")) /\ call[k].feed = f

CreateFeed(f) ==
  /\ feed[f] = "unpublished"
  /\ feed' = [feed EXCEPT ![f] = "published"]
  /\ UNCHANGED <<attachment, object, minted, call, failed>>
-----------------------------------------------------------------------------
(* UploadFeedAttachment *)

(* A wrong limit: one attachment too many. *)
FullAboveLimit(f) == Cardinality(AttachmentsOf(f)) > MaxFeedAttachments

Full(f) == Cardinality(AttachmentsOf(f)) >= MaxFeedAttachments

(* the locking statement begins, and its snapshot holds the count *)
CountAttachments(k, f) ==
  /\ call[k] = NoCall
  /\ feed[f] = "published"
  /\ call' = [call EXCEPT ![k] = [step |-> "counted", feed |-> f, full |-> Full(f),
                                  attachment |-> NoAttachment, todo |-> {}]]
  /\ UNCHANGED <<feed, attachment, object, minted, failed>>

LockFeed(k) ==
  /\ At(k, "counted")
  /\ ~ Locked(call[k].feed)
  /\ feed[call[k].feed] = "published" /\ ~ call[k].full
  /\ Advance(k, "locked")
  /\ UNCHANGED <<feed, attachment, object, minted, failed>>

(* 404, the feed was deleted meanwhile; or 409, it was full *)
RefuseUpload(k) ==
  /\ At(k, "counted")
  /\ ~ Locked(call[k].feed)
  /\ feed[call[k].feed] # "published" \/ call[k].full
  /\ Answer(k)
  /\ UNCHANGED <<feed, attachment, object, minted, failed>>

PutObject(k, a) ==
  /\ At(k, "locked")
  /\ a \notin minted
  /\ minted' = minted \cup {a}
  /\ object' = Upload(object, ObjectPath(call[k].feed, a))
  /\ call' = [call EXCEPT ![k].step = "stored", ![k].attachment = a]
  /\ UNCHANGED <<feed, attachment, failed>>

(* INSERT and COMMIT *)
CommitUpload(k) ==
  /\ At(k, "stored")
  /\ attachment' = [attachment EXCEPT ![call[k].attachment] = call[k].feed]
  /\ Answer(k)
  /\ UNCHANGED <<feed, object, minted, failed>>

(* an error of INSERT or COMMIT, after which the row may be there all the same *)
FailUpload(k) ==
  /\ At(k, "stored")
  /\ \/ UNCHANGED attachment
     \/ attachment' = [attachment EXCEPT ![call[k].attachment] = call[k].feed]
  /\ Advance(k, "withdrawing")
  /\ failed' = failed \cup {call[k].attachment}
  /\ UNCHANGED <<feed, object, minted>>

(* by stored_path; an error is ignored *)
WithdrawObject(k) ==
  /\ At(k, "withdrawing")
  /\ \/ object' = Delete(object, StoredPath(call[k].feed, call[k].attachment))
     \/ UNCHANGED object
  /\ Answer(k)
  /\ UNCHANGED <<feed, attachment, minted, failed>>
-----------------------------------------------------------------------------
(* DeleteFeedAttachment: no transaction and no lock *)

FindAttachment(k, a) ==
  /\ call[k] = NoCall
  /\ attachment[a] # NoFeed
  /\ call' = [call EXCEPT ![k] = [step |-> "found", feed |-> attachment[a], full |-> FALSE,
                                  attachment |-> a, todo |-> {}]]
  /\ UNCHANGED <<feed, attachment, object, minted, failed>>

(* A wrong removal: the row is left. *)
RemoveObjectOnly(k) ==
  /\ At(k, "found")
  /\ object' = Delete(object, StoredPath(call[k].feed, call[k].attachment))
  /\ Answer(k)
  /\ UNCHANGED <<feed, attachment, minted, failed>>

RemoveObject(k) ==
  /\ At(k, "found")
  /\ CanDelete(object, StoredPath(call[k].feed, call[k].attachment))
  /\ object' = Delete(object, StoredPath(call[k].feed, call[k].attachment))
  /\ Advance(k, "emptied")
  /\ UNCHANGED <<feed, attachment, minted, failed>>

(* 502, and the row stays; after an error the file may be gone *)
RefuseRemoval(k) ==
  /\ At(k, "found")
  /\ IF CanDelete(object, StoredPath(call[k].feed, call[k].attachment))
     THEN /\ \/ object' = Delete(object, StoredPath(call[k].feed, call[k].attachment))
             \/ UNCHANGED object
          /\ failed' = failed \cup {call[k].attachment}
     ELSE UNCHANGED <<object, failed>>
  /\ Answer(k)
  /\ UNCHANGED <<feed, attachment, minted>>

RemoveRow(k) ==
  /\ At(k, "emptied")
  /\ attachment' = [attachment EXCEPT ![call[k].attachment] = NoFeed]
  /\ Answer(k)
  /\ UNCHANGED <<feed, object, minted, failed>>
-----------------------------------------------------------------------------
(* DeleteFeed: the paths are read before the transaction *)

ListPaths(k, f) ==
  /\ call[k] = NoCall
  /\ feed[f] = "published"
  /\ call' = [call EXCEPT ![k] = [step |-> "listed", feed |-> f, full |-> FALSE,
                                  attachment |-> NoAttachment, todo |-> AttachmentsOf(f)]]
  /\ UNCHANGED <<feed, attachment, object, minted, failed>>

(* A wrong deletion: ON DELETE SET NULL leaves rows of no feed. *)
DeleteRowSetsNull(k) ==
  /\ At(k, "listed")
  /\ ~ Locked(call[k].feed)
  /\ feed' = [feed EXCEPT ![call[k].feed] = "deleted"]
  /\ attachment' = [a \in Attachments |->
       IF attachment[a] = call[k].feed THEN "null" ELSE attachment[a]]
  /\ Advance(k, "cleaning")
  /\ UNCHANGED <<object, minted, failed>>

(* DELETE waits for the lock; the attachments go by ON DELETE CASCADE *)
DeleteRow(k) ==
  /\ At(k, "listed")
  /\ ~ Locked(call[k].feed)
  /\ feed[call[k].feed] = "published"
  /\ feed' = [feed EXCEPT ![call[k].feed] = "deleted"]
  /\ attachment' = [a \in Attachments |->
       IF attachment[a] = call[k].feed THEN NoFeed ELSE attachment[a]]
  /\ Advance(k, "cleaning")
  /\ UNCHANGED <<object, minted, failed>>

(* 404: another call deleted the feed *)
MissFeed(k) ==
  /\ At(k, "listed")
  /\ feed[call[k].feed] = "deleted"
  /\ Answer(k)
  /\ UNCHANGED <<feed, attachment, object, minted, failed>>

(* an object that cannot be deleted is only logged *)
CleanUp(k, a) ==
  /\ At(k, "cleaning")
  /\ a \in call[k].todo
  /\ \/ object' = Delete(object, StoredPath(call[k].feed, a)) /\ UNCHANGED failed
     \/ failed' = failed \cup {a} /\ UNCHANGED object
  /\ call' = [call EXCEPT ![k].todo = @ \ {a}]
  /\ UNCHANGED <<feed, attachment, minted>>

EndDeletion(k) ==
  /\ At(k, "cleaning")
  /\ call[k].todo = {}
  /\ Answer(k)
  /\ UNCHANGED <<feed, attachment, object, minted, failed>>

(* an error or a dead server ends the request where it is *)
Abandon(k) ==
  /\ call[k] # NoCall
  /\ Answer(k)
  /\ failed' = failed \cup IF At(k, "cleaning") THEN call[k].todo
                          ELSE {call[k].attachment}
  /\ UNCHANGED <<feed, attachment, object, minted>>

Next ==
  \/ \E f \in Feeds : CreateFeed(f)
  \/ \E k \in Calls :
       \/ \E f \in Feeds : CountAttachments(k, f) \/ ListPaths(k, f)
       \/ \E a \in Attachments : PutObject(k, a) \/ FindAttachment(k, a) \/ CleanUp(k, a)
       \/ LockFeed(k) \/ RefuseUpload(k) \/ CommitUpload(k) \/ FailUpload(k)
       \/ WithdrawObject(k)
       \/ RemoveObject(k) \/ RefuseRemoval(k) \/ RemoveRow(k)
       \/ DeleteRow(k) \/ MissFeed(k) \/ EndDeletion(k)
       \/ Abandon(k)

Spec == Init /\ [][Next]_vars
-----------------------------------------------------------------------------
TypeOK ==
  /\ feed \in [Feeds -> {"unpublished", "published", "deleted"}]
  /\ attachment \in [Attachments -> Feeds \cup {NoFeed}]
  /\ object \subseteq {ObjectURL(p) : p \in Feeds \X Attachments}
  /\ minted \subseteq Attachments /\ failed \subseteq Attachments \cup {NoAttachment}
  /\ call \in [Calls -> Call \cup {NoCall}]

(* The limit as it is promised: "maksimal 5 file per feed" (feedback-action- *)
(* items.md:212), and the answer "Maksimal 5 attachment per feed" to one     *)
(* upload more.  Two uploads that begin before the last place is taken both  *)
(* hold a count below the limit, for all that the second waits for the lock. *)
AttachmentLimit ==
  \A f \in Feeds : Cardinality(AttachmentsOf(f)) <= MaxFeedAttachments

(* How far the limit is missed: requests that counted before the last place *)
(* was taken can each overrun it once, and no further, because              *)
(* UploadFeedAttachment counts again in every request.  With one request at *)
(* a time this is AttachmentLimit.                                          *)
OverrunBound ==
  \A f \in Feeds :
    Cardinality(AttachmentsOf(f)) <= MaxFeedAttachments - 1 + Cardinality(Calls)

(* The uploads that may still add a row to f, and the invariant behind the *)
(* bound: rows and such uploads together never exceed it.                  *)
Admitted(f) ==
  {k \in Calls : /\ \/ At(k, "counted") /\ ~ call[k].full
                    \/ At(k, "locked")
                    \/ At(k, "stored")
                 /\ call[k].feed = f}
RoomForAdmitted ==
  \A f \in Feeds : Cardinality(AttachmentsOf(f)) + Cardinality(Admitted(f))
                     <= MaxFeedAttachments - 1 + Cardinality(Calls)

(* An attachment that is listed can be opened, unless a request about it    *)
(* failed half way or its DeleteFeedAttachment is between the file and the *)
(* row: neither simultaneous uploads and deletions nor what fails for      *)
(* other attachments takes its file away.                                  *)
RowsKeepFiles ==
  \A a \in Attachments \ failed :
    attachment[a] # NoFeed /\ ~ Stored(object, StoredPath(attachment[a], a)) =>
    \E k \in Calls : At(k, "emptied") /\ call[k].attachment = a

(* Once the requests about a deleted feed have ended, none of its files is *)
(* stored but those of requests that failed half way (the cleanup at the   *)
(* end of DeleteFeed).                                                     *)
DeletedFeedsLeaveNothing ==
  \A f \in Feeds :
    feed[f] = "deleted" /\ (\A k \in Calls : call[k] # NoCall => call[k].feed # f) =>
      \A a \in Attachments \ failed : ~ Stored(object, StoredPath(f, a))
=============================================================================
