------------------------ MODULE CompanyFeed_proofs -------------------------
(***************************************************************************)
(* How far simultaneous uploads can overrun the attachment limit, and that *)
(* what is listed can be opened: for any limit, any number of requests,    *)
(* and with failures.                                                      *)
(***************************************************************************)
EXTENDS CompanyFeed, FiniteSetTheorems, TLAPS

Room(f) == Cardinality(AttachmentsOf(f)) + Cardinality(Admitted(f))
             <= MaxFeedAttachments - 1 + Cardinality(Calls)

LEMMA CountsAreNumbers ==
  ASSUME NEW f \in Feeds
  PROVE  /\ IsFiniteSet(AttachmentsOf(f)) /\ Cardinality(AttachmentsOf(f)) \in Nat
         /\ IsFiniteSet(Admitted(f)) /\ Cardinality(Admitted(f)) \in Nat
         /\ Cardinality(Admitted(f)) <= Cardinality(Calls) /\ Cardinality(Calls) \in Nat
<1>1. AttachmentsOf(f) \in SUBSET Attachments /\ Admitted(f) \in SUBSET Calls
  BY DEF AttachmentsOf, Admitted
<1> QED BY <1>1, FiniteAssumption, FS_Subset, FS_CardinalityType

(* A step that adds neither a row nor an admitted upload leaves the room. *)
LEMMA FewerLeaveRoom ==
  ASSUME NEW f \in Feeds, Room(f),
         AttachmentsOf(f)' \subseteq AttachmentsOf(f), Admitted(f)' \subseteq Admitted(f)
  PROVE  Room(f)'
<1>1. /\ Cardinality(AttachmentsOf(f)') <= Cardinality(AttachmentsOf(f))
      /\ Cardinality(Admitted(f)') <= Cardinality(Admitted(f))
      /\ Cardinality(AttachmentsOf(f)') \in Nat /\ Cardinality(Admitted(f)') \in Nat
  BY CountsAreNumbers, FS_Subset, FS_CardinalityType
<1>2. /\ Cardinality(AttachmentsOf(f)) \in Nat /\ Cardinality(Admitted(f)) \in Nat
      /\ Cardinality(Calls) \in Nat
  BY CountsAreNumbers
<1> QED BY <1>1, <1>2, FeedAssumption DEF Room

(* An upload that writes its row is admitted no longer. *)
LEMMA RowTakesAPlace ==
  ASSUME NEW f \in Feeds, Room(f), NEW k \in Admitted(f), NEW a \in Attachments,
         AttachmentsOf(f)' \subseteq AttachmentsOf(f) \cup {a},
         Admitted(f)' \subseteq Admitted(f) \ {k}
  PROVE  Room(f)'
<1>a. IsFiniteSet(AttachmentsOf(f)) /\ IsFiniteSet(Admitted(f)) /\ Cardinality(AttachmentsOf(f)) \in Nat
  BY CountsAreNumbers
<1>b. /\ IsFiniteSet(AttachmentsOf(f) \cup {a})
      /\ \/ Cardinality(AttachmentsOf(f) \cup {a}) = Cardinality(AttachmentsOf(f))
         \/ Cardinality(AttachmentsOf(f) \cup {a}) = Cardinality(AttachmentsOf(f)) + 1
  BY <1>a, FS_AddElement, Zenon
<1>c. /\ IsFiniteSet(Admitted(f) \ {k})
      /\ Cardinality(Admitted(f) \ {k}) = Cardinality(Admitted(f)) - 1
  BY <1>a, FS_RemoveElement
<1>1. /\ IsFiniteSet(AttachmentsOf(f) \cup {a})
      /\ Cardinality(AttachmentsOf(f) \cup {a}) <= Cardinality(AttachmentsOf(f)) + 1
      /\ IsFiniteSet(Admitted(f) \ {k})
      /\ Cardinality(Admitted(f) \ {k}) = Cardinality(Admitted(f)) - 1
  BY <1>a, <1>b, <1>c
<1>2. /\ Cardinality(AttachmentsOf(f)') <= Cardinality(AttachmentsOf(f) \cup {a})
      /\ Cardinality(Admitted(f)') <= Cardinality(Admitted(f) \ {k})
      /\ Cardinality(AttachmentsOf(f)') \in Nat /\ Cardinality(Admitted(f)') \in Nat
  BY <1>1, FS_Subset, FS_CardinalityType
<1>3. /\ Cardinality(AttachmentsOf(f)) \in Nat /\ Cardinality(Admitted(f)) \in Nat
      /\ Cardinality(AttachmentsOf(f) \cup {a}) \in Nat
      /\ Cardinality(Calls) \in Nat
  BY <1>1, CountsAreNumbers, FS_CardinalityType
<1> QED BY <1>1, <1>2, <1>3, FeedAssumption DEF Room
-----------------------------------------------------------------------------
LEMMA InitRoom == Init => TypeOK /\ RoomForAdmitted
<1> SUFFICES ASSUME Init PROVE TypeOK /\ RoomForAdmitted
  OBVIOUS
<1>1. TypeOK
  BY DEF Init, TypeOK
<1>2. ASSUME NEW f \in Feeds PROVE Room(f)
  <2>1. AttachmentsOf(f) = {}
    BY FeedAssumption DEF Init, AttachmentsOf
  <2>2. Cardinality(AttachmentsOf(f)) = 0
    BY <2>1, FS_EmptySet
  <2> QED BY <2>2, CountsAreNumbers, FeedAssumption DEF Room
<1> QED BY <1>1, <1>2 DEF RoomForAdmitted, Room

LEMMA TypeStep == TypeOK /\ [Next]_vars => TypeOK'
<1> SUFFICES ASSUME TypeOK, [Next]_vars PROVE TypeOK'
  OBVIOUS
<1> USE DEF TypeOK, Call, Steps, At, Answer, Advance
<1>1. ASSUME NEW f \in Feeds, CreateFeed(f) PROVE TypeOK'
  BY <1>1 DEF CreateFeed
<1>2. ASSUME NEW k \in Calls, NEW f \in Feeds, CountAttachments(k, f) \/ ListPaths(k, f)
      PROVE TypeOK'
  <2>1. AttachmentsOf(f) \in SUBSET Attachments /\ Full(f) \in BOOLEAN
    BY DEF AttachmentsOf, Full
  <2>2. [step |-> "counted", feed |-> f, full |-> Full(f), attachment |-> NoAttachment, todo |-> {}]
        \in Call
    BY <2>1
  <2>3. [step |-> "listed", feed |-> f, full |-> FALSE, attachment |-> NoAttachment,
         todo |-> AttachmentsOf(f)] \in Call
    BY <2>1
  <2>4. CASE CountAttachments(k, f)
    BY <2>2, <2>4 DEF CountAttachments
  <2>5. CASE ListPaths(k, f)
    BY <2>3, <2>5 DEF ListPaths
  <2> QED BY <1>2, <2>4, <2>5
<1>3. ASSUME NEW k \in Calls, NEW a \in Attachments,
             PutObject(k, a) \/ FindAttachment(k, a) \/ CleanUp(k, a)
      PROVE TypeOK'
  <2>1. CASE PutObject(k, a)
    <3>1. call[k] \in Call
      BY <2>1, FeedAssumption DEF PutObject
    <3>2. [call[k] EXCEPT !.step = "stored", !.attachment = a] \in Call
      BY <3>1
    <3>3. call' = [call EXCEPT ![k] = [call[k] EXCEPT !.step = "stored", !.attachment = a]]
      BY <2>1, <3>1 DEF PutObject
    <3>4. ObjectURL(ObjectPath(call[k].feed, a)) \in {ObjectURL(p) : p \in Feeds \X Attachments}
      BY <3>1 DEF ObjectPath
    <3> QED BY <2>1, <3>2, <3>3, <3>4 DEF PutObject, Upload
  <2>2. CASE FindAttachment(k, a)
    <3>1. [step |-> "found", feed |-> attachment[a], full |-> FALSE, attachment |-> a, todo |-> {}]
          \in Call
      BY <2>2 DEF FindAttachment
    <3> QED BY <2>2, <3>1 DEF FindAttachment
  <2>3. CASE CleanUp(k, a)
    BY <2>3, FeedAssumption DEF CleanUp, Delete
  <2> QED BY <1>3, <2>1, <2>2, <2>3
<1>4. ASSUME NEW k \in Calls,
             LockFeed(k) \/ RefuseUpload(k) \/ CommitUpload(k) \/ FailUpload(k) \/ WithdrawObject(k)
      PROVE TypeOK'
  BY <1>4 DEF LockFeed, RefuseUpload, CommitUpload, FailUpload, WithdrawObject, Delete
<1>5. ASSUME NEW k \in Calls, RemoveObject(k) \/ RefuseRemoval(k) \/ RemoveRow(k) PROVE TypeOK'
  BY <1>5 DEF RemoveObject, RefuseRemoval, RemoveRow, Delete
<1>6. ASSUME NEW k \in Calls, DeleteRow(k) \/ MissFeed(k) \/ EndDeletion(k) \/ Abandon(k)
      PROVE TypeOK'
  BY <1>6 DEF DeleteRow, MissFeed, EndDeletion, Abandon
<1>7. CASE UNCHANGED vars
  BY <1>7 DEF vars
<1> QED BY <1>1, <1>2, <1>3, <1>4, <1>5, <1>6, <1>7 DEF Next

(* A call that ends, or advances to another step, is admitted only as before. *)
Moves(k) ==
  \/ Answer(k)
  \/ \E s \in Steps \ {"counted", "locked", "stored"} : Advance(k, s)

LEMMA MovesDismiss ==
  ASSUME TypeOK, NEW f \in Feeds, NEW k \in Calls, call[k] # NoCall, Moves(k)
  PROVE  Admitted(f)' \subseteq Admitted(f) \ {k}
<1>1. ASSUME NEW l \in Calls, l # k PROVE call'[l] = call[l]
  BY <1>1 DEF TypeOK, Moves, Answer, Advance
<1>2. k \notin Admitted(f)'
  <2>1. CASE Answer(k)
    BY <2>1 DEF TypeOK, Answer, Admitted, At
  <2>2. ASSUME NEW s \in Steps \ {"counted", "locked", "stored"}, Advance(k, s)
        PROVE  k \notin Admitted(f)'
    <3>1. call[k] \in Call
      BY DEF TypeOK
    <3>2. call'[k].step = s
      BY <2>2, <3>1 DEF TypeOK, Call, Advance
    <3> QED BY <3>2, <2>2 DEF Admitted, At
  <2> QED BY <2>1, <2>2 DEF Moves
<1> QED BY <1>1, <1>2 DEF Admitted, At

LEMMA RoomStep == TypeOK /\ RoomForAdmitted /\ [Next]_vars => RoomForAdmitted'
<1> SUFFICES ASSUME TypeOK, RoomForAdmitted, [Next]_vars, NEW f \in Feeds
             PROVE  Room(f)'
  BY DEF RoomForAdmitted, Room
<1>0. Room(f)
  BY DEF RoomForAdmitted, Room
<1> USE DEF At, Answer, Advance, TypeOK
<1>1. ASSUME NEW g \in Feeds, CreateFeed(g) PROVE Room(f)'
  BY <1>0, <1>1, FewerLeaveRoom DEF CreateFeed, AttachmentsOf, Admitted
<1>2. ASSUME NEW k \in Calls, NEW g \in Feeds, CountAttachments(k, g) PROVE Room(f)'
  <2>1. AttachmentsOf(f)' = AttachmentsOf(f)
    BY <1>2 DEF CountAttachments, AttachmentsOf
  <2>2. CASE g = f /\ ~ Full(g)
    <3>1. Cardinality(AttachmentsOf(f)) < MaxFeedAttachments
      BY <2>2, CountsAreNumbers, FeedAssumption DEF Full
    <3>2. /\ Cardinality(Admitted(f)') \in Nat
          /\ Cardinality(Admitted(f)') <= Cardinality(Calls)
      <4>1. Admitted(f)' \in SUBSET Calls
        BY DEF Admitted
      <4> QED BY <4>1, FiniteAssumption, FS_Subset, FS_CardinalityType
    <3> QED BY <2>1, <3>1, <3>2, CountsAreNumbers, FeedAssumption DEF Room
  <2>3. CASE ~ (g = f /\ ~ Full(g))
    <3>1. Admitted(f)' \subseteq Admitted(f)
      BY <1>2, <2>3 DEF CountAttachments, Admitted
    <3> QED BY <1>0, <2>1, <3>1, FewerLeaveRoom
  <2> QED BY <2>2, <2>3
<1>3. ASSUME NEW k \in Calls, LockFeed(k) PROVE Room(f)'
  <2>1. call[k] \in Call
    BY <1>3 DEF LockFeed
  <2>2. call'[k].feed = call[k].feed /\ (\A l \in Calls \ {k} : call'[l] = call[l])
    BY <1>3, <2>1 DEF LockFeed, Call
  <2>3. AttachmentsOf(f)' = AttachmentsOf(f) /\ Admitted(f)' \subseteq Admitted(f)
    BY <1>3, <2>2 DEF LockFeed, AttachmentsOf, Admitted
  <2> QED BY <1>0, <2>3, FewerLeaveRoom
<1>4. ASSUME NEW k \in Calls, NEW a \in Attachments, PutObject(k, a) PROVE Room(f)'
  <2>1. call[k] \in Call
    BY <1>4 DEF PutObject
  <2>2. call'[k].feed = call[k].feed /\ (\A l \in Calls \ {k} : call'[l] = call[l])
    BY <1>4, <2>1 DEF PutObject, Call
  <2>3. AttachmentsOf(f)' = AttachmentsOf(f) /\ Admitted(f)' \subseteq Admitted(f)
    BY <1>4, <2>2 DEF PutObject, AttachmentsOf, Admitted
  <2> QED BY <1>0, <2>3, FewerLeaveRoom
<1>5. ASSUME NEW k \in Calls,
             RefuseUpload(k) \/ RemoveObject(k) \/ RefuseRemoval(k) \/ RemoveRow(k) \/ DeleteRow(k)
             \/ MissFeed(k) \/ EndDeletion(k) \/ Abandon(k) \/ WithdrawObject(k)
      PROVE Room(f)'
  <2>1. call[k] # NoCall /\ Moves(k)
    BY <1>5 DEF RefuseUpload, RemoveObject, RefuseRemoval, RemoveRow, DeleteRow, MissFeed,
                EndDeletion, Abandon, WithdrawObject, Moves, Steps
  <2>2. AttachmentsOf(f)' \subseteq AttachmentsOf(f)
    BY <1>5, FeedAssumption DEF RefuseUpload, RemoveObject, RefuseRemoval, RemoveRow, DeleteRow,
                MissFeed, EndDeletion, Abandon, WithdrawObject, AttachmentsOf
  <2> QED BY <1>0, <2>1, <2>2, MovesDismiss, FewerLeaveRoom
<1>6. ASSUME NEW k \in Calls, NEW g \in Feeds, ListPaths(k, g) PROVE Room(f)'
  <2>1. AttachmentsOf(f)' = AttachmentsOf(f) /\ Admitted(f)' \subseteq Admitted(f)
    BY <1>6 DEF ListPaths, AttachmentsOf, Admitted
  <2> QED BY <1>0, <2>1, FewerLeaveRoom
<1>7. ASSUME NEW k \in Calls, NEW a \in Attachments, FindAttachment(k, a) PROVE Room(f)'
  <2>1. AttachmentsOf(f)' = AttachmentsOf(f) /\ Admitted(f)' \subseteq Admitted(f)
    BY <1>7 DEF FindAttachment, AttachmentsOf, Admitted
  <2> QED BY <1>0, <2>1, FewerLeaveRoom
<1>9. ASSUME NEW k \in Calls, NEW a \in Attachments, CleanUp(k, a) PROVE Room(f)'
  <2>1. call[k] \in Call
    BY <1>9 DEF CleanUp
  <2>2. call'[k].step = "cleaning" /\ (\A l \in Calls \ {k} : call'[l] = call[l])
    BY <1>9, <2>1 DEF CleanUp, Call
  <2>3. AttachmentsOf(f)' = AttachmentsOf(f) /\ Admitted(f)' \subseteq Admitted(f)
    BY <1>9, <2>2 DEF CleanUp, AttachmentsOf, Admitted
  <2> QED BY <1>0, <2>3, FewerLeaveRoom
<1>10. ASSUME NEW k \in Calls, CommitUpload(k) \/ FailUpload(k) PROVE Room(f)'
  <2>a. call[k] # NoCall /\ Moves(k)
    BY <1>10 DEF CommitUpload, FailUpload, Moves, Steps
  <2>b. Admitted(f)' \subseteq Admitted(f) \ {k}
    BY <2>a, MovesDismiss
  <2>1. CASE call[k].feed = f /\ call[k].attachment \in Attachments
    <3>1. k \in Admitted(f)
      BY <1>10, <2>1 DEF CommitUpload, FailUpload, Admitted
    <3>2. AttachmentsOf(f)' \subseteq AttachmentsOf(f) \cup {call[k].attachment}
      BY <1>10, <2>1 DEF CommitUpload, FailUpload, AttachmentsOf
    <3> QED BY <1>0, <2>1, <2>b, <3>1, <3>2, RowTakesAPlace
  <2>2. CASE ~ (call[k].feed = f /\ call[k].attachment \in Attachments)
    <3>1. AttachmentsOf(f)' \subseteq AttachmentsOf(f)
      BY <1>10, <2>2 DEF CommitUpload, FailUpload, AttachmentsOf
    <3> QED BY <1>0, <2>b, <3>1, FewerLeaveRoom
  <2> QED BY <2>1, <2>2
<1>8. CASE UNCHANGED vars
  BY <1>0, <1>8, FewerLeaveRoom DEF vars, AttachmentsOf, Admitted
<1> QED BY <1>1, <1>2, <1>3, <1>4, <1>5, <1>6, <1>7, <1>8, <1>9, <1>10 DEF Next
-----------------------------------------------------------------------------
(* The type invariant of CompanyFeed. *)
THEOREM TypeCorrect == Spec => []TypeOK
  BY InitRoom, TypeStep, PTL DEF Spec

(* Whatever the requests do together and whatever fails, the rows of a feed *)
(* exceed the limit by at most the requests in flight, less one.            *)
THEOREM OverrunIsBounded == Spec => []OverrunBound
<1>1. RoomForAdmitted => OverrunBound
  BY CountsAreNumbers, FeedAssumption DEF RoomForAdmitted, OverrunBound
<1> QED BY <1>1, InitRoom, TypeStep, RoomStep, PTL DEF Spec
-----------------------------------------------------------------------------
(* Rows and files.  Storage: what Upload puts can be opened by the locator,  *)
(* and Delete takes away at most the object of its own path.                 *)
LEMMA UploadStores ==
  ASSUME NEW objects, NEW f, NEW a
  PROVE  /\ Stored(Upload(objects, ObjectPath(f, a)), StoredPath(f, a))
         /\ \A place : Stored(objects, place) =>
                       Stored(Upload(objects, ObjectPath(f, a)), place)
  BY DEF Stored, Upload, StoredPath, ObjectURL, Location

LEMMA DeleteSpares ==
  ASSUME NEW objects, NEW f \in Feeds, NEW a \in Attachments,
         NEW g \in Feeds, NEW b \in Attachments, g # f \/ b # a,
         Stored(objects, StoredPath(g, b))
  PROVE  Stored(Delete(objects, StoredPath(f, a)), StoredPath(g, b))
<1>1. CASE Driver = "nextcloud"
  BY <1>1, FolderAssumption DEF Stored, Delete, StoredPath, ObjectPath, ObjectURL, Location
<1>2. CASE Driver # "nextcloud"
  BY <1>2 DEF Stored, Delete, StoredPath, ObjectPath, ObjectURL, Location
<1> QED BY <1>1, <1>2

LEMMA DeleteTakes ==
  ASSUME NEW objects, NEW path, NEW place, Stored(Delete(objects, path), place)
  PROVE  Stored(objects, place)
  BY DEF Stored, Delete

(* the attachments that a call names *)
Names(k) ==
  IF call[k] = NoCall THEN {} ELSE ({call[k].attachment} \cup call[k].todo) \cap Attachments

(* A row is of an id that was minted, and of a feed that is published. *)
RowsInv ==
  \A a \in Attachments : attachment[a] # NoFeed => a \in minted /\ feed[attachment[a]] = "published"

(* An upload holds the lock of a feed that is published, and a deletion      *)
(* cleans up after one that is gone; what failed is in the history.          *)
CallsInv ==
  \A k \in Calls : call[k] # NoCall =>
    /\ Names(k) \subseteq minted
    /\ call[k].step \in {"stored", "withdrawing", "found", "emptied"} =>
         call[k].attachment \in Attachments
    /\ call[k].step \in {"locked", "stored"} => feed[call[k].feed] = "published"
    /\ call[k].step = "cleaning" => feed[call[k].feed] = "deleted"
    /\ call[k].step = "withdrawing" => call[k].attachment \in failed

(* The file of an upload is there before the row, and nobody knows its id. *)
FreshInv ==
  \A k \in Calls : At(k, "stored") =>
    /\ attachment[call[k].attachment] = NoFeed
    /\ Stored(object, StoredPath(call[k].feed, call[k].attachment))
    /\ \A l \in Calls \ {k} : call[k].attachment \notin Names(l)

FilesInv == RowsInv /\ CallsInv /\ FreshInv /\ RowsKeepFiles

LEMMA InitFiles == Init => FilesInv
  BY FeedAssumption
     DEF Init, FilesInv, RowsInv, CallsInv, FreshInv, RowsKeepFiles, At

LEMMA CallFields ==
  ASSUME TypeOK, NEW k \in Calls, call[k] # NoCall
  PROVE  /\ call[k] \in Call /\ call[k].step \in Steps /\ call[k].feed \in Feeds
         /\ call[k].attachment \in Attachments \cup {NoAttachment}
         /\ call[k].todo \subseteq Attachments
  BY DEF TypeOK, Call

(* What Answer and Advance do to the calls. *)
LEMMA Answered ==
  ASSUME TypeOK, NEW k \in Calls, Answer(k)
  PROVE  call'[k] = NoCall /\ \A l \in Calls \ {k} : call'[l] = call[l]
  BY DEF TypeOK, Answer

LEMMA Advanced ==
  ASSUME TypeOK, NEW k \in Calls, call[k] # NoCall, NEW step \in Steps, Advance(k, step)
  PROVE  /\ call'[k] # NoCall /\ call'[k].step = step
         /\ call'[k].feed = call[k].feed /\ call'[k].attachment = call[k].attachment
         /\ call'[k].todo = call[k].todo
         /\ \A l \in Calls \ {k} : call'[l] = call[l]
<1>1. call'[k] = [call[k] EXCEPT !.step = step]
  BY DEF TypeOK, Advance
<1>2. call'[k] \in Call
  BY <1>1, CallFields DEF Call
<1>3. \A l \in Calls \ {k} : call'[l] = call[l]
  BY DEF TypeOK, Advance
<1> QED BY <1>1, <1>2, <1>3, CallFields, FeedAssumption DEF Call

LEMMA Begun ==
  ASSUME TypeOK, NEW k \in Calls, NEW q \in Call, call' = [call EXCEPT ![k] = q]
  PROVE  call'[k] = q /\ call'[k] # NoCall /\ \A l \in Calls \ {k} : call'[l] = call[l]
  BY FeedAssumption DEF TypeOK

(* A call that ends leaves the invariant to the others. *)
LEMMA EndKeeps ==
  ASSUME TypeOK, FilesInv, NEW k \in Calls, Answer(k), UNCHANGED <<feed, minted>>,
         failed \subseteq failed',
         \A a \in Attachments : attachment'[a] \in {attachment[a], NoFeed},
         \A l \in Calls \ {k} : At(l, "stored") =>
           Stored(object', StoredPath(call[l].feed, call[l].attachment)),
         RowsKeepFiles'
  PROVE  FilesInv'
<1>1. call'[k] = NoCall /\ \A l \in Calls \ {k} : call'[l] = call[l]
  BY Answered
<1>2. \A l \in Calls : Names(l)' \subseteq Names(l)
  BY <1>1 DEF Names
<1>3. RowsInv'
  BY DEF FilesInv, RowsInv
<1>4. CallsInv'
  BY <1>1, <1>2 DEF FilesInv, CallsInv
<1>5. FreshInv'
  BY <1>1, <1>2 DEF FilesInv, FreshInv, CallsInv, At
<1> QED BY <1>3, <1>4, <1>5 DEF FilesInv

(* No row is added, no file goes, and the call is not between file and row:  *)
(* what is listed can be opened as before.                                   *)
LEMMA OpenStays ==
  ASSUME TypeOK, RowsKeepFiles, NEW k \in Calls, failed \subseteq failed',
         \A l \in Calls \ {k} : call'[l] = call[l],
         At(k, "emptied") => \/ At(k, "emptied")' /\ call'[k].attachment = call[k].attachment
                            \/ call[k].attachment \in failed'
                            \/ attachment'[call[k].attachment] = NoFeed,
         \A a \in Attachments : attachment'[a] \in {attachment[a], NoFeed},
         \A a \in Attachments \ failed' : attachment'[a] # NoFeed =>
           (Stored(object, StoredPath(attachment[a], a)) => Stored(object', StoredPath(attachment[a], a)))
  PROVE  RowsKeepFiles'
<1> SUFFICES ASSUME NEW a \in Attachments, a \notin failed', attachment'[a] # NoFeed,
                    ~ Stored(object', StoredPath(attachment'[a], a))
             PROVE  \E l \in Calls : At(l, "emptied")' /\ call'[l].attachment = a
  BY DEF RowsKeepFiles
<1>1. attachment'[a] = attachment[a] /\ a \notin failed
  OBVIOUS
<1>2. PICK l \in Calls : At(l, "emptied") /\ call[l].attachment = a
  BY <1>1 DEF RowsKeepFiles
<1>3. CASE l = k
  BY <1>1, <1>2, <1>3
<1>4. CASE l # k
  BY <1>2, <1>4 DEF At
<1> QED BY <1>3, <1>4

(* A call that begins knows only of attachments that are listed. *)
LEMMA BeginKeeps ==
  ASSUME TypeOK, FilesInv, NEW k \in Calls, call[k] = NoCall,
         NEW q \in Call, q.step \in {"counted", "found", "listed"},
         call' = [call EXCEPT ![k] = q], UNCHANGED <<feed, attachment, object, minted, failed>>,
         q.step = "found" => q.attachment \in Attachments,
         \A a \in ({q.attachment} \cup q.todo) \cap Attachments : attachment[a] # NoFeed
  PROVE  FilesInv'
<1>0. RowsInv /\ CallsInv /\ FreshInv /\ RowsKeepFiles
  BY DEF FilesInv
<1>1. call'[k] = q /\ call'[k] # NoCall /\ \A l \in Calls \ {k} : call'[l] = call[l]
  BY Begun
<1>2. \A l \in Calls \ {k} : Names(l)' = Names(l)
  BY <1>1 DEF Names
<1>3. \A a \in Names(k)' : a \in Attachments /\ attachment[a] # NoFeed
  BY <1>1 DEF Names
<1>4. RowsInv'
  BY <1>0 DEF RowsInv
<1>5. CallsInv'
  <2> SUFFICES ASSUME NEW l \in Calls, call'[l] # NoCall
               PROVE  /\ Names(l)' \subseteq minted
                      /\ call'[l].step \in {"stored", "withdrawing", "found", "emptied"} =>
                           call'[l].attachment \in Attachments
                      /\ call'[l].step \in {"locked", "stored"} => feed[call'[l].feed] = "published"
                      /\ call'[l].step = "cleaning" => feed[call'[l].feed] = "deleted"
                      /\ call'[l].step = "withdrawing" => call'[l].attachment \in failed
    BY DEF CallsInv
  <2>1. CASE l = k
    BY <1>0, <1>1, <1>3, <2>1 DEF RowsInv
  <2>2. CASE l # k
    BY <1>0, <1>1, <1>2, <2>2 DEF CallsInv
  <2> QED BY <2>1, <2>2
<1>6. FreshInv'
  <2> SUFFICES ASSUME NEW l \in Calls, At(l, "stored")'
               PROVE  /\ attachment[call'[l].attachment] = NoFeed
                      /\ Stored(object, StoredPath(call'[l].feed, call'[l].attachment))
                      /\ \A m \in Calls \ {l} : call'[l].attachment \notin Names(m)'
    BY DEF FreshInv
  <2>1. l # k /\ call'[l] = call[l] /\ At(l, "stored")
    BY <1>1 DEF At
  <2> QED BY <1>0, <1>2, <1>3, <2>1 DEF FreshInv
<1>7. RowsKeepFiles'
  BY <1>0, <1>1, OpenStays DEF At
<1> QED BY <1>4, <1>5, <1>6, <1>7 DEF FilesInv

LEMMA UploadKeepsFiles ==
  ASSUME TypeOK, FilesInv, NEW k \in Calls,
         \/ \E f \in Feeds : CountAttachments(k, f)
         \/ LockFeed(k) \/ RefuseUpload(k)
         \/ \E a \in Attachments : PutObject(k, a)
         \/ CommitUpload(k) \/ FailUpload(k) \/ WithdrawObject(k)
  PROVE  FilesInv'
<1>0. RowsInv /\ CallsInv /\ FreshInv /\ RowsKeepFiles
  BY DEF FilesInv
<1>1. ASSUME NEW f \in Feeds, CountAttachments(k, f) PROVE FilesInv'
  <2>1. [step |-> "counted", feed |-> f, full |-> Full(f), attachment |-> NoAttachment, todo |-> {}]
        \in Call
    BY DEF Call, Steps, Full
  <2> DEFINE q == [step |-> "counted", feed |-> f, full |-> Full(f), attachment |-> NoAttachment,
                   todo |-> {}]
  <2>2. q \in Call /\ q.step = "counted" /\ {q.attachment} \cup q.todo = {NoAttachment}
    BY <2>1
  <2>3. call[k] = NoCall /\ call' = [call EXCEPT ![k] = q]
    BY <1>1 DEF CountAttachments
  <2> HIDE DEF q
  <2>4. UNCHANGED <<feed, attachment, object, minted, failed>>
    BY <1>1 DEF CountAttachments
  <2> QED BY <2>2, <2>3, <2>4, BeginKeeps, FeedAssumption
<1>2. CASE LockFeed(k)
  <2>1. /\ At(k, "counted") /\ call'[k] # NoCall /\ call'[k].step = "locked"
        /\ call'[k].feed = call[k].feed /\ call'[k].attachment = call[k].attachment
        /\ call'[k].todo = call[k].todo
        /\ \A l \in Calls \ {k} : call'[l] = call[l]
    BY <1>2, Advanced DEF LockFeed, At, Steps
  <2>2. \A l \in Calls : Names(l)' = Names(l)
    BY <2>1 DEF Names, At
  <2>3. RowsInv' /\ CallsInv' /\ FreshInv'
    BY <1>0, <1>2, <2>1, <2>2 DEF LockFeed, RowsInv, CallsInv, FreshInv, At
  <2>4. RowsKeepFiles'
    BY <1>0, <1>2, <2>1, OpenStays DEF LockFeed, At
  <2> QED BY <2>3, <2>4 DEF FilesInv
<1>3. CASE RefuseUpload(k)
  <2>1. At(k, "counted") /\ Answer(k)
    BY <1>3 DEF RefuseUpload
  <2>2. RowsKeepFiles'
    BY <1>0, <1>3, <2>1, Answered, OpenStays DEF RefuseUpload, At
  <2> QED BY <1>0, <1>3, <2>1, <2>2, EndKeeps DEF RefuseUpload, FreshInv
<1>4. ASSUME NEW a \in Attachments, PutObject(k, a) PROVE FilesInv'
  <2>1. call[k] \in Call /\ At(k, "locked") /\ a \notin minted
    BY <1>4, CallFields DEF PutObject, At
  <2> DEFINE q == [call[k] EXCEPT !.step = "stored", !.attachment = a]
  <2>2. q \in Call /\ q.step = "stored" /\ q.attachment = a /\ q.feed = call[k].feed
        /\ q.todo = call[k].todo
    BY <2>1 DEF Call, Steps
  <2>3. call' = [call EXCEPT ![k] = q]
    BY <1>4, <2>1 DEF PutObject, TypeOK
  <2> HIDE DEF q
  <2>4. /\ call'[k] # NoCall /\ call'[k].step = "stored" /\ call'[k].attachment = a
        /\ call'[k].feed = call[k].feed /\ call'[k].todo = call[k].todo
        /\ \A l \in Calls \ {k} : call'[l] = call[l]
    BY <2>2, <2>3, Begun
  <2>5. Names(k)' \subseteq Names(k) \cup {a} /\ (\A l \in Calls \ {k} : Names(l)' = Names(l))
    BY <2>1, <2>4 DEF Names, At
  <2>6. RowsInv'
    BY <1>0, <1>4 DEF PutObject, RowsInv
  <2>7. CallsInv'
    <3>1. feed' = feed /\ failed' = failed /\ minted' = minted \cup {a}
      BY <1>4 DEF PutObject
    <3>2. \A l \in Calls : call'[l] # NoCall => call[l] # NoCall /\ Names(l)' \subseteq minted'
      BY <1>0, <2>1, <2>4, <2>5, <3>1 DEF CallsInv, At
    <3>3. feed[call[k].feed] = "published"
      BY <1>0, <2>1 DEF CallsInv, At
    <3> QED BY <1>0, <2>4, <3>1, <3>2, <3>3 DEF CallsInv
  <2>8. FreshInv'
    <3>1. attachment[a] = NoFeed
      BY <1>0, <2>1 DEF RowsInv
    <3>2. \A l \in Calls : a \notin Names(l)
      BY <1>0, <2>1 DEF CallsInv, Names
    <3>3. /\ Stored(object', StoredPath(call[k].feed, a))
          /\ \A place : Stored(object, place) => Stored(object', place)
      BY <1>4, UploadStores DEF PutObject
    <3>4. ASSUME NEW l \in Calls \ {k}, At(l, "stored")
          PROVE  call[l].attachment \notin Names(k)' /\ call[l].attachment \in Attachments
      <4>1. call[l].attachment \in Names(l) /\ call[l].attachment \notin Names(k)
        BY <1>0, <3>4 DEF FreshInv, CallsInv, Names, At
      <4> QED BY <2>5, <3>2, <4>1 DEF Names
    <3> QED BY <1>0, <1>4, <2>4, <2>5, <3>1, <3>2, <3>3, <3>4 DEF PutObject, FreshInv, At
  <2>9. RowsKeepFiles'
    <3>1. \A place : Stored(object, place) => Stored(object', place)
      BY <1>4, UploadStores DEF PutObject
    <3> QED BY <1>0, <1>4, <2>1, <2>4, <3>1, OpenStays DEF PutObject, At
  <2> QED BY <2>6, <2>7, <2>8, <2>9 DEF FilesInv
<1>5. CASE CommitUpload(k) \/ FailUpload(k)
  <2> DEFINE a == call[k].attachment
  <2>1. /\ At(k, "stored") /\ call[k] # NoCall /\ call[k].feed \in Feeds
        /\ a \in Attachments /\ a \in minted
        /\ feed[call[k].feed] = "published" /\ attachment[a] = NoFeed
        /\ Stored(object, StoredPath(call[k].feed, a))
        /\ \A l \in Calls \ {k} : a \notin Names(l)
    BY <1>0, <1>5, CallFields DEF CommitUpload, FailUpload, At, CallsInv, FreshInv, Names
  <2>2. /\ \A l \in Calls \ {k} : call'[l] = call[l]
        /\ call'[k] = NoCall \/ (call'[k].step = "withdrawing" /\ a \in failed'
                                  /\ call'[k].attachment = a /\ call'[k].todo = call[k].todo)
    BY <1>5, <2>1, Answered, Advanced DEF CommitUpload, FailUpload, Steps
  <2>3. /\ UNCHANGED <<feed, object, minted>> /\ failed \subseteq failed'
        /\ \A b \in Attachments : attachment'[b] = attachment[b]
                                   \/ (b = a /\ attachment'[b] = call[k].feed)
    BY <1>5, <2>1 DEF CommitUpload, FailUpload, TypeOK
  <2>4. \A l \in Calls : Names(l)' \subseteq Names(l)
    BY <2>1, <2>2 DEF Names
  <2>5. RowsInv'
    BY <1>0, <2>1, <2>3 DEF RowsInv
  <2>6. CallsInv'
    BY <1>0, <2>1, <2>2, <2>3, <2>4 DEF CallsInv
  <2>7. FreshInv'
    <3> SUFFICES ASSUME NEW l \in Calls, At(l, "stored")'
                 PROVE  /\ l # k /\ At(l, "stored") /\ call'[l] = call[l]
                        /\ attachment'[call[l].attachment] = NoFeed
      BY <1>0, <2>3, <2>4 DEF FreshInv
    <3>1. l # k /\ At(l, "stored") /\ call'[l] = call[l]
      BY <2>2 DEF At
    <3>2. call[l].attachment \in Names(l)
      BY <1>0, <3>1 DEF CallsInv, Names, At
    <3> QED BY <1>0, <2>1, <2>3, <3>1, <3>2 DEF FreshInv, Names
  <2>8. RowsKeepFiles'
    <3> SUFFICES ASSUME NEW b \in Attachments, b \notin failed', attachment'[b] # NoFeed,
                        ~ Stored(object, StoredPath(attachment'[b], b))
                 PROVE  \E l \in Calls : At(l, "emptied")' /\ call'[l].attachment = b
      BY <2>3 DEF RowsKeepFiles
    <3>1. attachment'[b] = attachment[b] /\ b \notin failed
      BY <2>1, <2>3
    <3>2. PICK l \in Calls : At(l, "emptied") /\ call[l].attachment = b
      BY <1>0, <3>1 DEF RowsKeepFiles
    <3>3. l # k
      BY <2>1, <3>2 DEF At
    <3> QED BY <2>2, <3>2, <3>3 DEF At
  <2> QED BY <2>5, <2>6, <2>7, <2>8 DEF FilesInv
<1>6. CASE WithdrawObject(k)
  <2> DEFINE a == call[k].attachment
  <2>1. /\ At(k, "withdrawing") /\ Answer(k) /\ call[k].feed \in Feeds
        /\ a \in Attachments /\ a \in failed /\ a \in Names(k)
        /\ object' \in {object, Delete(object, StoredPath(call[k].feed, a))}
    BY <1>0, <1>6, CallFields DEF WithdrawObject, At, CallsInv, Names
  <2>2. ASSUME NEW g \in Feeds, NEW b \in Attachments, b # a, Stored(object, StoredPath(g, b))
        PROVE  Stored(object', StoredPath(g, b))
    BY <2>1, <2>2, DeleteSpares
  <2>3. RowsKeepFiles'
    <3>1. \A b \in Attachments : attachment[b] # NoFeed => attachment[b] \in Feeds
      BY DEF TypeOK
    <3>2. ~ At(k, "emptied")
      BY <2>1 DEF At
    <3> QED BY <1>0, <1>6, <2>1, <2>2, <3>1, <3>2, Answered, OpenStays DEF WithdrawObject
  <2>4. \A l \in Calls \ {k} : At(l, "stored") =>
           Stored(object', StoredPath(call[l].feed, call[l].attachment))
    <3> SUFFICES ASSUME NEW l \in Calls \ {k}, At(l, "stored")
                 PROVE  Stored(object', StoredPath(call[l].feed, call[l].attachment))
      OBVIOUS
    <3>1. /\ call[l].feed \in Feeds /\ call[l].attachment \in Attachments
          /\ call[l].attachment # a
          /\ Stored(object, StoredPath(call[l].feed, call[l].attachment))
      BY <1>0, <2>1, CallFields DEF FreshInv, CallsInv, At
    <3> QED BY <2>2, <3>1
  <2> QED BY <1>6, <2>1, <2>3, <2>4, EndKeeps DEF WithdrawObject
<1> QED BY <1>1, <1>2, <1>3, <1>4, <1>5, <1>6

LEMMA RemovalKeepsFiles ==
  ASSUME TypeOK, FilesInv, NEW k \in Calls,
         \/ \E a \in Attachments : FindAttachment(k, a)
         \/ RemoveObject(k) \/ RefuseRemoval(k) \/ RemoveRow(k)
  PROVE  FilesInv'
<1>0. RowsInv /\ CallsInv /\ FreshInv /\ RowsKeepFiles
  BY DEF FilesInv
<1>1. ASSUME NEW a \in Attachments, FindAttachment(k, a) PROVE FilesInv'
  <2> DEFINE q == [step |-> "found", feed |-> attachment[a], full |-> FALSE, attachment |-> a,
                   todo |-> {}]
  <2>1. attachment[a] \in Feeds /\ attachment[a] # NoFeed
    BY <1>1 DEF FindAttachment, TypeOK
  <2>2. q \in Call /\ q.step = "found" /\ q.attachment = a /\ {q.attachment} \cup q.todo = {a}
    BY <2>1 DEF Call, Steps
  <2>3. call[k] = NoCall /\ call' = [call EXCEPT ![k] = q]
    BY <1>1 DEF FindAttachment
  <2> HIDE DEF q
  <2>4. UNCHANGED <<feed, attachment, object, minted, failed>>
    BY <1>1 DEF FindAttachment
  <2> QED BY <2>1, <2>2, <2>3, <2>4, BeginKeeps
<1> DEFINE a == call[k].attachment
<1>2. ASSUME At(k, "found")
      PROVE  /\ call[k] # NoCall /\ call[k].feed \in Feeds /\ a \in Attachments /\ a \in Names(k)
             /\ ~ At(k, "emptied") /\ ~ At(k, "stored")
  BY <1>0, <1>2, CallFields DEF At, CallsInv, Names
<1>3. ASSUME At(k, "found"), object' \in {object, Delete(object, StoredPath(call[k].feed, a))}
      PROVE  /\ \A g \in Feeds, b \in Attachments \ {a} :
                  Stored(object, StoredPath(g, b)) => Stored(object', StoredPath(g, b))
             /\ \A l \in Calls \ {k} : At(l, "stored") =>
                  Stored(object', StoredPath(call[l].feed, call[l].attachment))
  <2>1. \A g \in Feeds, b \in Attachments \ {a} :
          Stored(object, StoredPath(g, b)) => Stored(object', StoredPath(g, b))
    BY <1>2, <1>3, DeleteSpares
  <2>2. ASSUME NEW l \in Calls \ {k}, At(l, "stored")
        PROVE  Stored(object', StoredPath(call[l].feed, call[l].attachment))
    <3>1. /\ call[l].feed \in Feeds /\ call[l].attachment \in Attachments
          /\ call[l].attachment # a
          /\ Stored(object, StoredPath(call[l].feed, call[l].attachment))
      BY <1>0, <1>2, <1>3, <2>2, CallFields DEF FreshInv, CallsInv, At
    <3> QED BY <2>1, <3>1
  <2> QED BY <2>1, <2>2
<1>r. \A b \in Attachments : attachment[b] # NoFeed => attachment[b] \in Feeds
  BY DEF TypeOK
<1>4. CASE RemoveObject(k)
  <2>1. /\ At(k, "found") /\ object' = Delete(object, StoredPath(call[k].feed, a))
        /\ UNCHANGED <<feed, attachment, minted, failed>>
    BY <1>4 DEF RemoveObject
  <2>2. /\ call'[k] # NoCall /\ call'[k].step = "emptied" /\ call'[k].attachment = a
        /\ call'[k].todo = call[k].todo /\ \A l \in Calls \ {k} : call'[l] = call[l]
    BY <1>2, <1>4, <2>1, Advanced DEF RemoveObject, Steps
  <2>3. \A l \in Calls : Names(l)' = Names(l)
    BY <1>2, <2>1, <2>2 DEF Names
  <2>4. RowsInv'
    BY <1>0, <2>1 DEF RowsInv
  <2>5. CallsInv'
    BY <1>0, <1>2, <2>1, <2>2, <2>3 DEF CallsInv
  <2>6. FreshInv'
    <3> SUFFICES ASSUME NEW l \in Calls, At(l, "stored")'
                 PROVE  /\ attachment[call'[l].attachment] = NoFeed
                        /\ Stored(object', StoredPath(call'[l].feed, call'[l].attachment))
                        /\ \A m \in Calls \ {l} : call'[l].attachment \notin Names(m)'
      BY <2>1 DEF FreshInv
    <3>1. l # k /\ call'[l] = call[l] /\ At(l, "stored")
      BY <2>2 DEF At
    <3> QED BY <1>0, <1>3, <2>1, <2>3, <3>1 DEF FreshInv
  <2>7. RowsKeepFiles'
    <3> SUFFICES ASSUME NEW b \in Attachments, b \notin failed, attachment[b] # NoFeed,
                        ~ Stored(object', StoredPath(attachment[b], b))
                 PROVE  \E l \in Calls : At(l, "emptied")' /\ call'[l].attachment = b
      BY <2>1 DEF RowsKeepFiles
    <3>1. CASE b = a
      BY <2>2, <3>1 DEF At
    <3>2. CASE b # a
      <4>1. ~ Stored(object, StoredPath(attachment[b], b))
        BY <1>3, <1>r, <2>1, <3>2
      <4>2. PICK l \in Calls : At(l, "emptied") /\ call[l].attachment = b
        BY <1>0, <4>1 DEF RowsKeepFiles
      <4>3. l # k
        BY <1>2, <2>1, <4>2
      <4> QED BY <2>2, <4>2, <4>3 DEF At
    <3> QED BY <3>1, <3>2
  <2> QED BY <2>4, <2>5, <2>6, <2>7 DEF FilesInv
<1>5. CASE RefuseRemoval(k)
  <2>1. /\ At(k, "found") /\ Answer(k) /\ UNCHANGED <<feed, attachment, minted>>
        /\ failed \subseteq failed'
        /\ object' \in {object, Delete(object, StoredPath(call[k].feed, a))}
        /\ object' = object \/ a \in failed'
    BY <1>5 DEF RefuseRemoval
  <2>2. \A l \in Calls \ {k} : call'[l] = call[l]
    BY <2>1, Answered
  <2>3. \A b \in Attachments \ failed' : attachment'[b] # NoFeed =>
          (Stored(object, StoredPath(attachment[b], b)) => Stored(object', StoredPath(attachment[b], b)))
    BY <1>3, <1>r, <2>1
  <2>4. RowsKeepFiles'
    BY <1>0, <1>2, <2>1, <2>2, <2>3, OpenStays
  <2> QED BY <1>3, <2>1, <2>4, EndKeeps
<1>6. CASE RemoveRow(k)
  <2>1. /\ At(k, "emptied") /\ Answer(k) /\ UNCHANGED <<feed, object, minted, failed>>
        /\ attachment' = [attachment EXCEPT ![a] = NoFeed]
    BY <1>6 DEF RemoveRow
  <2>2. /\ a \in Attachments /\ attachment'[a] = NoFeed
        /\ \A b \in Attachments : attachment'[b] \in {attachment[b], NoFeed}
    BY <1>0, <2>1 DEF At, CallsInv, TypeOK
  <2>3. \A l \in Calls \ {k} : call'[l] = call[l]
    BY <2>1, Answered
  <2>4. RowsKeepFiles'
    BY <1>0, <2>1, <2>2, <2>3, OpenStays
  <2> QED BY <1>0, <2>1, <2>2, <2>4, EndKeeps DEF FreshInv
<1> QED BY <1>1, <1>4, <1>5, <1>6

LEMMA DeletionKeepsFiles ==
  ASSUME TypeOK, FilesInv, NEW k \in Calls,
         \/ \E f \in Feeds : ListPaths(k, f)
         \/ DeleteRow(k) \/ MissFeed(k)
         \/ \E a \in Attachments : CleanUp(k, a)
         \/ EndDeletion(k) \/ Abandon(k)
  PROVE  FilesInv'
<1>0. RowsInv /\ CallsInv /\ FreshInv /\ RowsKeepFiles
  BY DEF FilesInv
<1>1. ASSUME NEW f \in Feeds, ListPaths(k, f) PROVE FilesInv'
  <2> DEFINE q == [step |-> "listed", feed |-> f, full |-> FALSE, attachment |-> NoAttachment,
                   todo |-> AttachmentsOf(f)]
  <2>1. q \in Call /\ q.step = "listed" /\ q.attachment = NoAttachment /\ q.todo = AttachmentsOf(f)
    BY DEF Call, Steps, AttachmentsOf
  <2>2. call[k] = NoCall /\ call' = [call EXCEPT ![k] = q]
    BY <1>1 DEF ListPaths
  <2> HIDE DEF q
  <2>3. UNCHANGED <<feed, attachment, object, minted, failed>>
    BY <1>1 DEF ListPaths
  <2>4. \A b \in ({q.attachment} \cup q.todo) \cap Attachments : attachment[b] # NoFeed
    BY <2>1, FeedAssumption DEF AttachmentsOf
  <2> QED BY <2>1, <2>2, <2>3, <2>4, BeginKeeps
<1>2. CASE DeleteRow(k)
  <2> DEFINE f == call[k].feed
  <2>1. /\ At(k, "listed") /\ call[k] # NoCall /\ f \in Feeds /\ ~ Locked(f)
        /\ feed' = [feed EXCEPT ![f] = "deleted"]
        /\ UNCHANGED <<object, minted, failed>>
    BY <1>2, CallFields DEF DeleteRow, At
  <2>2. /\ call'[k] # NoCall /\ call'[k].step = "cleaning" /\ call'[k].feed = f
        /\ call'[k].attachment = call[k].attachment /\ call'[k].todo = call[k].todo
        /\ \A l \in Calls \ {k} : call'[l] = call[l]
    BY <1>2, <2>1, Advanced DEF DeleteRow, Steps
  <2>3. \A l \in Calls : Names(l)' = Names(l)
    BY <2>1, <2>2 DEF Names
  <2>4. \A b \in Attachments : attachment'[b] = IF attachment[b] = f THEN NoFeed ELSE attachment[b]
    BY <1>2 DEF DeleteRow
  <2>5. feed'[f] = "deleted" /\ \A g \in Feeds \ {f} : feed'[g] = feed[g]
    BY <2>1 DEF TypeOK
  <2>6. RowsInv'
    <3>1. \A b \in Attachments : attachment[b] # NoFeed => attachment[b] \in Feeds
      BY DEF TypeOK
    <3> QED BY <1>0, <2>1, <2>4, <2>5, <3>1 DEF RowsInv
  <2>7. CallsInv'
    <3> SUFFICES ASSUME NEW l \in Calls \ {k}, call[l] # NoCall, call'[l] = call[l]
                 PROVE  /\ call[l].step \in {"locked", "stored"} => feed'[call[l].feed] = "published"
                        /\ call[l].step = "cleaning" => feed'[call[l].feed] = "deleted"
      BY <1>0, <2>1, <2>2, <2>3, <2>5 DEF CallsInv, At
    <3>1. call[l].feed \in Feeds
      BY CallFields
    <3>2. call[l].step \in {"locked", "stored"} => call[l].feed # f
      BY <2>1 DEF Locked, At
    <3> QED BY <1>0, <2>5, <3>1, <3>2 DEF CallsInv
  <2>8. FreshInv'
    <3> SUFFICES ASSUME NEW l \in Calls, At(l, "stored")'
                 PROVE  /\ attachment'[call'[l].attachment] = NoFeed
                        /\ Stored(object, StoredPath(call'[l].feed, call'[l].attachment))
                        /\ \A m \in Calls \ {l} : call'[l].attachment \notin Names(m)'
      BY <2>1 DEF FreshInv
    <3>1. l # k /\ call'[l] = call[l] /\ At(l, "stored")
      BY <2>2 DEF At
    <3>2. call[l].attachment \in Attachments
      BY <1>0, <3>1 DEF CallsInv, At
    <3> QED BY <1>0, <2>3, <2>4, <3>1, <3>2 DEF FreshInv
  <2>9. RowsKeepFiles'
    <3>1. \A b \in Attachments : attachment'[b] \in {attachment[b], NoFeed}
      BY <2>4
    <3>2. ~ At(k, "emptied")
      BY <2>1 DEF At
    <3> QED BY <1>0, <2>1, <2>2, <3>1, <3>2, OpenStays
  <2> QED BY <2>6, <2>7, <2>8, <2>9 DEF FilesInv
<1>3. CASE MissFeed(k) \/ EndDeletion(k) \/ Abandon(k)
  <2>1. /\ call[k] # NoCall /\ Answer(k) /\ UNCHANGED <<feed, attachment, object, minted>>
        /\ failed \subseteq failed'
        /\ At(k, "emptied") => call[k].attachment \in failed'
    BY <1>3 DEF MissFeed, EndDeletion, Abandon, At
  <2>2. \A l \in Calls \ {k} : call'[l] = call[l]
    BY <2>1, Answered
  <2>3. RowsKeepFiles'
    BY <1>0, <2>1, <2>2, OpenStays
  <2> QED BY <1>0, <2>1, <2>3, EndKeeps DEF FreshInv
<1>4. ASSUME NEW a \in Attachments, CleanUp(k, a) PROVE FilesInv'
  <2> DEFINE f == call[k].feed
  <2> DEFINE q == [call[k] EXCEPT !.todo = @ \ {a}]
  <2>1. /\ At(k, "cleaning") /\ call[k] \in Call /\ f \in Feeds /\ feed[f] = "deleted"
        /\ a \in Names(k) /\ a \in call[k].todo
        /\ object' \in {object, Delete(object, StoredPath(f, a))}
        /\ UNCHANGED <<feed, attachment, minted>> /\ failed \subseteq failed'
    BY <1>0, <1>4, CallFields DEF CleanUp, At, CallsInv, Names
  <2>2. q \in Call /\ q.step = "cleaning" /\ q.attachment = call[k].attachment /\ q.feed = f
        /\ q.todo \subseteq call[k].todo
    BY <2>1 DEF Call, At
  <2>3. call' = [call EXCEPT ![k] = q]
    BY <1>4, <2>1 DEF CleanUp, TypeOK
  <2> HIDE DEF q
  <2>4. /\ call'[k] # NoCall /\ call'[k].step = "cleaning" /\ call'[k].feed = f
        /\ call'[k].attachment = call[k].attachment /\ call'[k].todo \subseteq call[k].todo
        /\ \A l \in Calls \ {k} : call'[l] = call[l]
    BY <2>2, <2>3, Begun
  <2>5. \A l \in Calls : Names(l)' \subseteq Names(l)
    BY <2>1, <2>4 DEF Names, At
  <2>6. RowsInv'
    BY <1>0, <2>1 DEF RowsInv
  <2>7. CallsInv'
    BY <1>0, <2>1, <2>4, <2>5 DEF CallsInv, At
  <2>8. \A g \in Feeds, b \in Attachments : g # f \/ b # a =>
          (Stored(object, StoredPath(g, b)) => Stored(object', StoredPath(g, b)))
    BY <2>1, DeleteSpares
  <2>9. FreshInv'
    <3> SUFFICES ASSUME NEW l \in Calls, At(l, "stored")'
                 PROVE  /\ attachment[call'[l].attachment] = NoFeed
                        /\ Stored(object', StoredPath(call'[l].feed, call'[l].attachment))
                        /\ \A m \in Calls \ {l} : call'[l].attachment \notin Names(m)'
      BY <2>1 DEF FreshInv
    <3>1. l # k /\ call'[l] = call[l] /\ At(l, "stored")
      BY <2>4 DEF At
    <3>2. call[l].feed \in Feeds /\ call[l].attachment \in Attachments /\ call[l].attachment # a
      BY <1>0, <2>1, <3>1, CallFields DEF FreshInv, CallsInv, At
    <3> QED BY <1>0, <2>5, <2>8, <3>1, <3>2 DEF FreshInv
  <2>10. RowsKeepFiles'
    <3>1. \A b \in Attachments : attachment[b] # NoFeed => attachment[b] \in Feeds /\ attachment[b] # f
      BY <1>0, <2>1 DEF TypeOK, RowsInv
    <3>2. ~ At(k, "emptied")
      BY <2>1 DEF At
    <3> QED BY <1>0, <2>1, <2>4, <2>8, <3>1, <3>2, OpenStays
  <2> QED BY <2>6, <2>7, <2>9, <2>10 DEF FilesInv
<1> QED BY <1>1, <1>2, <1>3, <1>4

LEMMA FilesStep == TypeOK /\ FilesInv /\ [Next]_vars => FilesInv'
<1> SUFFICES ASSUME TypeOK, FilesInv, [Next]_vars PROVE FilesInv'
  OBVIOUS
<1>1. ASSUME NEW f \in Feeds, CreateFeed(f) PROVE FilesInv'
  <2>1. /\ feed[f] = "unpublished" /\ feed' = [feed EXCEPT ![f] = "published"]
        /\ UNCHANGED <<attachment, object, minted, call, failed>>
    BY <1>1 DEF CreateFeed
  <2>2. \A g \in Feeds : feed[g] \in {"published", "deleted"} => feed'[g] = feed[g]
    BY <2>1 DEF TypeOK
  <2>3. /\ \A b \in Attachments : attachment[b] # NoFeed => attachment[b] \in Feeds
        /\ \A k \in Calls : call[k] # NoCall => call[k].feed \in Feeds
    BY CallFields DEF TypeOK
  <2>4. RowsInv'
    BY <2>1, <2>2, <2>3 DEF FilesInv, RowsInv
  <2>5. CallsInv'
    BY <2>1, <2>2, <2>3 DEF FilesInv, CallsInv, Names
  <2>6. FreshInv' /\ RowsKeepFiles'
    BY <2>1 DEF FilesInv, FreshInv, RowsKeepFiles, Names, At
  <2> QED BY <2>4, <2>5, <2>6 DEF FilesInv
<1>2. CASE UNCHANGED vars
  BY <1>2 DEF vars, FilesInv, RowsInv, CallsInv, FreshInv, RowsKeepFiles, Names, At
<1> QED BY <1>1, <1>2, UploadKeepsFiles, RemovalKeepsFiles, DeletionKeepsFiles DEF Next

(* What is listed can be opened: only a request that fails half way, or the  *)
(* moment between the file and the row of DeleteFeedAttachment, comes        *)
(* between a row and its file, for any number of requests of any kind.       *)
THEOREM FilesStayWithRows == Spec => []RowsKeepFiles
<1>1. FilesInv => RowsKeepFiles
  BY DEF FilesInv
<1> QED BY <1>1, InitRoom, TypeStep, InitFiles, FilesStep, PTL DEF Spec
=============================================================================
